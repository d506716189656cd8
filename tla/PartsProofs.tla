----------------------------- MODULE PartsProofs -----------------------------
(***************************************************************************)
(* Theorems about the parts that MCParts puts side by side, for any values *)
(* of their constants.                                                     *)
(*                                                                         *)
(* The dispatch of one schedule, for any workers, ticks, clocks and number *)
(* of failed passes, whether or not locked rows can be skipped.  A tick    *)
(* that has been used, to enqueue a task or as the anchor, stays unusable: *)
(* its row is in the log, or it is older than whatever any worker can hold *)
(* as due.  A pass that may anchor holds the latch and the log is empty,   *)
(* so nobody else can settle before it.                                    *)
(*                                                                         *)
(* What the caller of an outcome write is told, for any number of epochs,  *)
(* tries, delays and faults.  A row that is open at an epoch has not been  *)
(* given that attempt's outcome, and once it is not open it never is again *)
(* at that epoch: so a write takes effect once, however often it is sent   *)
(* and however late the server carries it out.  A row that has the         *)
(* attempt's outcome stands as that write left it, or its epoch has moved  *)
(* on: so what the second try read, when it asked, stays true.             *)
(*                                                                         *)
(* A batch, for any callers, reconcilers, finite set of tasks, engines and *)
(* number of attempts and mishaps.  Whoever has written the batch row has  *)
(* it locked, so a total it has counted is of the membership as it will be *)
(* committed, and a COMPLETE it has written is of a row that is SEALED.  A *)
(* snapshot that is behind on the row is told so before it writes; what it *)
(* counted as successes stays so, and a member pending now was retried     *)
(* since.  The exception is a caller that turned autocommit off: seal()    *)
(* counts in its snapshot, and the members it does not see are in unseen.  *)
(*                                                                         *)
(* The limits that workers share, for any finite set of workers, pools,    *)
(* limits, windows, tries, failures and deaths.  Each admission of the     *)
(* window is on its counter, is its worker's to count, or is lost; and a   *)
(* worker that may still be admitted has not claimed since it looked.  So  *)
(* too with the RUNNING rows, and a worker that counted fewer than the     *)
(* maximum.                                                                *)
(*                                                                         *)
(* The backstop, for any finite sets of rows and ticks, number of          *)
(* workflows, page, visit and deaths.  A pass can miss an open row only    *)
(* where the row was added behind it or above its marks: a tick that reads *)
(* on from a place before the row, and is beyond it, or that is to visit   *)
(* its workflow with marks that are too old.  Each such tick has one pass  *)
(* more end without the row, and none becomes one anew: a round begins     *)
(* with marks that no open row is above.  The round moves by one visit at  *)
(* least, and only when nobody has moved it since it was read.             *)
(***************************************************************************)
EXTENDS MCParts, Integers, FiniteSetTheorems, TLAPS

-----------------------------------------------------------------------------
(* The dispatch of a schedule.                                             *)

Used(t) == fired[t] > 0 \/ (anchored # <<>> /\ t = anchored[1])

\* Two passes that have a tick row in have it at different ticks, and the
\* index held no row at either.
TicksExclusive ==
  /\ \A w \in Workers : pass[w].at \in Claimed => log[pass[w].tick] = "absent"
  /\ \A w, u \in Workers :
       /\ w # u
       /\ pass[w].at \in Claimed
       /\ pass[u].at \in Claimed
       => pass[w].tick # pass[u].tick

\* At most one transaction has written the latch, and a pass at its second
\* look has.
LatchExclusive ==
  /\ \A w, u \in Workers : pass[w].latch /\ pass[u].latch => w = u
  /\ \A w \in Workers : pass[w].at = "latched" => pass[w].latch

\* A pass that fires has seen history; one that anchors holds the latch over
\* an empty log.
HistorySeen ==
  \A w \in Workers :
    /\ pass[w].last # {} \/ pass[w].at = "firing" \/ pass[w].task => Recorded # {}
    /\ pass[w].at = "settling" /\ ~pass[w].task => pass[w].latch /\ Recorded = {}

\* The log is empty until the anchor is in it, and never again.
AnchorStarts ==
  /\ anchored = <<>> <=> Recorded = {}
  /\ anchored # <<>> => anchored = <<anchored[1]>>
  /\ anchored = <<>> => \A t \in Ticks : fired[t] = 0

UsedStaysUsed ==
  \A t \in Ticks : /\ Used(t) => t \in Recorded \/ PastCutoff(t)
                   /\ t \in Recorded => Used(t)
                   /\ fired[t] \in {0, 1}

IInv ==
  /\ TypeOK
  /\ TicksExclusive
  /\ LatchExclusive
  /\ HistorySeen
  /\ AnchorStarts
  /\ UsedStaysUsed
-----------------------------------------------------------------------------
(* A pass moves, and nothing is committed.                                 *)

\* What p has to be for w's pass to go on as p.
PassOK(w, p) ==
  /\ p \in Pass
  /\ p.at # "idle" => /\ p.tick \in Ticks
                     /\ \A t \in Ticks : PastCutoff(t) => t < p.tick
  /\ p.latch => p.at \in {"latched", "firing", "settling"}
  /\ p.task => p.at = "settling"
  /\ p.at \in Claimed =>
       /\ log[p.tick] = "absent"
       /\ \A u \in Workers : u # w /\ pass[u].at \in Claimed => pass[u].tick # p.tick
  /\ p.latch => \A u \in Workers : pass[u].latch => u = w
  /\ p.at = "latched" => p.latch
  /\ p.last # {} \/ p.at = "firing" \/ p.task => Recorded # {}
  /\ p.at = "settling" /\ ~p.task => p.latch /\ Recorded = {}

LEMMA PassMoves ==
  ASSUME IInv, NEW w \in Workers, NEW p, PassOK(w, p), Goes(w, p),
         UNCHANGED <<clock, log, fired, anchored>>, failures' \in Nat
  PROVE  IInv'
<1>1. /\ pass \in [Workers -> Pass]
      /\ pass' = [pass EXCEPT ![w] = p]
      /\ p \in Pass
  BY DEF IInv, TypeOK, Goes, PassOK
<1>2. pass'[w] = p /\ \A u \in Workers : u # w => pass'[u] = pass[u]
  BY <1>1
<1>3. /\ Recorded' = Recorded
      /\ \A now : Due(now)' = Due(now)
  BY DEF Recorded, Due, Newest
<1>4. TypeOK'
  <2>1. pass' \in [Workers -> Pass]
    BY <1>1
  <2>2. \A u \in Workers :
          /\ pass'[u].at # "idle" => pass'[u].tick \in Ticks
          /\ pass'[u].latch => pass'[u].at \in {"latched", "firing", "settling"}
          /\ pass'[u].task => pass'[u].at = "settling"
    BY <1>2 DEF IInv, TypeOK, PassOK
  <2> QED
    BY <2>1, <2>2 DEF IInv, TypeOK
<1>5. TicksExclusive'
  BY <1>2 DEF IInv, TicksExclusive, PassOK
<1>6. LatchExclusive'
  BY <1>2 DEF IInv, LatchExclusive, PassOK
<1>7. HistorySeen'
  BY <1>2, <1>3 DEF IInv, HistorySeen, PassOK
<1>8. AnchorStarts'
  BY <1>3 DEF IInv, AnchorStarts
<1>9. ASSUME NEW t \in Ticks, PastCutoff(t)
      PROVE  PastCutoff(t)'
  BY <1>2, <1>3, <1>9 DEF PastCutoff, PassOK
<1>10. UsedStaysUsed'
  BY <1>3, <1>9 DEF IInv, UsedStaysUsed, Used
<1> QED
  BY <1>4, <1>5, <1>6, <1>7, <1>8, <1>10 DEF IInv

\* The pass w is in is one it could have gone on as.
LEMMA PassIsOK ==
  ASSUME IInv, NEW w \in Workers
  PROVE  PassOK(w, pass[w])
<1>1. pass[w] \in Pass
  BY DEF IInv, TypeOK
<1>2. \A t \in Ticks : pass[w].at # "idle" /\ PastCutoff(t) => t < pass[w].tick
  BY DEF PastCutoff
<1> QED
  BY <1>1, <1>2 DEF IInv, TypeOK, TicksExclusive, LatchExclusive, HistorySeen, PassOK

LEMMA IdleIsOK ==
  ASSUME NEW w \in Workers
  PROVE  PassOK(w, Idle)
BY DEF PassOK, Idle, Pass, Claimed

\* Moving on to a step at which nothing more is held.
LEMMA StepIsOK ==
  ASSUME IInv, NEW w \in Workers, pass[w].at # "idle",
         NEW step \in {"asking", "claiming", "claimed", "latching", "firing"},
         step \in Claimed =>
           /\ log[pass[w].tick] = "absent"
           /\ \A u \in Workers :
                u # w /\ pass[u].at \in Claimed => pass[u].tick # pass[w].tick,
         step = "firing" => Recorded # {},
         step # "firing" => ~pass[w].latch,
         ~pass[w].task
  PROVE  PassOK(w, [pass[w] EXCEPT !.at = step])
<1> DEFINE p == [pass[w] EXCEPT !.at = step]
<1>1. pass[w] \in Pass /\ PassOK(w, pass[w])
  BY PassIsOK DEF PassOK
<1>2. /\ p \in Pass
      /\ p.at = step /\ p.tick = pass[w].tick /\ p.last = pass[w].last
      /\ p.latch = pass[w].latch /\ p.task = pass[w].task
  BY <1>1 DEF Pass
<1> HIDE DEF p
<1>3. PassOK(w, p)
  BY <1>1, <1>2 DEF PassOK
<1> QED
  BY <1>3 DEF p

LEMMA OverKeeps ==
  ASSUME IInv, NEW w \in Workers, Over(w),
         UNCHANGED <<clock, log, fired, anchored>>, failures' \in Nat
  PROVE  IInv'
BY IdleIsOK, PassMoves DEF Over

LEMMA AtKeeps ==
  ASSUME IInv, NEW w \in Workers, NEW step, At(w, step),
         PassOK(w, [pass[w] EXCEPT !.at = step]),
         UNCHANGED <<clock, log, fired, anchored, failures>>
  PROVE  IInv'
<1>1. failures' \in Nat
  BY DEF IInv, TypeOK
<1> QED
  BY <1>1, PassMoves DEF At

LEMMA PlanKeeps ==
  ASSUME IInv, NEW w \in Workers, Plan(w)
  PROVE  IInv'
<1>1. PICK t \in Due(clock[w]) :
        Goes(w, [Idle EXCEPT !.at = "planned", !.now = clock[w], !.tick = t])
  BY DEF Plan
<1> DEFINE p == [Idle EXCEPT !.at = "planned", !.now = clock[w], !.tick = t]
<1>2. t \in Ticks /\ t \in Nat /\ clock[w] \in Nat
  BY DispatchAssumption DEF Due, Newest, IInv, TypeOK
<1>3. /\ p \in Pass
      /\ p.at = "planned" /\ p.tick = t /\ p.last = {}
      /\ p.latch = FALSE /\ p.task = FALSE
  BY <1>2 DEF Pass, Idle
<1>4. ASSUME NEW u \in Ticks, PastCutoff(u)
      PROVE  u < t
  <2>1. PICK d \in Due(clock[w]) : u < d
    BY <1>4 DEF PastCutoff
  <2> QED
    BY <2>1, <1>2, DispatchAssumption DEF Due, Newest
<1>5. PassOK(w, p)
  <2> HIDE DEF p
  <2> QED
    BY <1>2, <1>3, <1>4 DEF PassOK, Claimed
<1>6. UNCHANGED <<clock, log, fired, anchored>> /\ failures' \in Nat
  BY DEF Plan, IInv, TypeOK
<1> QED
  BY <1>1, <1>5, <1>6, PassMoves

LEMMA ReadLatestKeeps ==
  ASSUME IInv, NEW w \in Workers, ReadLatest(w)
  PROVE  IInv'
<1>1. UNCHANGED <<clock, log, fired, anchored>> /\ failures' \in Nat
  BY DEF ReadLatest, IInv, TypeOK
<1>2. PICK from \in Ticks, step \in {"asking", "claiming"} :
        \/ Over(w)
        \/ Goes(w, [pass[w] EXCEPT !.at = step, !.last = Latest(from)])
  BY DEF ReadLatest
<1>3. CASE Over(w)
  BY <1>1, <1>3, OverKeeps
<1>4. CASE Goes(w, [pass[w] EXCEPT !.at = step, !.last = Latest(from)])
  <2> DEFINE p == [pass[w] EXCEPT !.at = step, !.last = Latest(from)]
  <2>1. /\ Latest(from) \subseteq Ticks
        /\ Latest(from) # {} => Recorded # {}
    BY DEF Latest, Newest, Recorded
  <2>2. pass[w] \in Pass /\ PassOK(w, pass[w]) /\ pass[w].at = "planned"
    BY PassIsOK DEF PassOK, ReadLatest
  <2>3. /\ p \in Pass
        /\ p.at = step /\ p.tick = pass[w].tick /\ p.last = Latest(from)
        /\ p.latch = pass[w].latch /\ p.task = pass[w].task
    BY <2>1, <2>2 DEF Pass
  <2> HIDE DEF p
  <2>4. PassOK(w, p)
    BY <2>1, <2>2, <2>3 DEF PassOK, Claimed
  <2> QED
    BY <1>1, <1>4, <2>4, PassMoves DEF p
<1> QED
  BY <1>2, <1>3, <1>4

LEMMA AskInstantKeeps ==
  ASSUME IInv, NEW w \in Workers, AskInstant(w)
  PROVE  IInv'
<1>1. /\ UNCHANGED <<clock, log, fired, anchored, failures>>
      /\ failures' \in Nat
      /\ pass[w].at = "asking"
      /\ Over(w) \/ At(w, "claiming")
  BY DEF AskInstant, IInv, TypeOK
<1>2. ~pass[w].latch /\ ~pass[w].task
  BY <1>1 DEF IInv, TypeOK
<1>3. PassOK(w, [pass[w] EXCEPT !.at = "claiming"])
  BY <1>1, <1>2, StepIsOK DEF Claimed
<1> QED
  BY <1>1, <1>3, OverKeeps, AtKeeps

LEMMA ClaimKeeps ==
  ASSUME IInv, NEW w \in Workers, Claim(w)
  PROVE  IInv'
<1>1. /\ UNCHANGED <<clock, log, fired, anchored, failures>>
      /\ failures' \in Nat
      /\ pass[w].at = "claiming"
      /\ ~pass[w].latch /\ ~pass[w].task
  BY DEF Claim, IInv, TypeOK
<1>2. CASE Over(w)
  BY <1>1, <1>2, OverKeeps
<1>3. CASE ~Over(w)
  <2>1. /\ pass[w].tick \notin Recorded
        /\ At(w, IF pass[w].last = {} THEN "claimed" ELSE "firing")
    BY <1>3 DEF Claim
  <2>2. log[pass[w].tick] = "absent"
    BY <1>1, <2>1 DEF Recorded, IInv, TypeOK
  <2>3. \A u \in Workers : u # w /\ pass[u].at \in Claimed => pass[u].tick # pass[w].tick
    BY <1>1 DEF Claim, Blocked, BlockedBy
  <2>4. pass[w].last # {} => Recorded # {}
    BY DEF IInv, HistorySeen
  <2>5. \A step \in {"claimed", "firing"} :
          (step = "firing" => pass[w].last # {})
            => PassOK(w, [pass[w] EXCEPT !.at = step])
    BY <1>1, <2>2, <2>3, <2>4, StepIsOK
  <2> QED
    BY <1>1, <2>1, <2>5, AtKeeps
<1> QED
  BY <1>2, <1>3

\* A pass with its tick row in that finds history fires or gives up.
LEMMA BoundaryKeeps ==
  ASSUME IInv, NEW w \in Workers, pass[w].at \in {"claimed", "latched"},
         NEW anchor \in Earliest(Recorded), Boundary(w, anchor),
         UNCHANGED <<clock, log, fired, anchored, failures>>
  PROVE  IInv'
<1>1. /\ pass[w].at \in Claimed /\ pass[w].at # "idle"
      /\ ~pass[w].task
      /\ failures' \in Nat
      /\ Over(w) \/ At(w, "firing")
      /\ Recorded # {}
  BY DEF IInv, TypeOK, Claimed, Boundary, Earliest
<1>2. PassOK(w, [pass[w] EXCEPT !.at = "firing"])
  BY <1>1, StepIsOK DEF IInv, TicksExclusive
<1> QED
  BY <1>1, <1>2, OverKeeps, AtKeeps

LEMMA AskFirstKeeps ==
  ASSUME IInv, NEW w \in Workers, AskFirst(w)
  PROVE  IInv'
<1>1. /\ UNCHANGED <<clock, log, fired, anchored, failures>>
      /\ pass[w].at = "claimed"
      /\ ~pass[w].latch /\ ~pass[w].task
  BY DEF AskFirst, IInv, TypeOK
<1>2. CASE \E anchor \in Earliest(Recorded) : Boundary(w, anchor)
  BY <1>1, <1>2, BoundaryKeeps
<1>3. CASE At(w, "latching")
  <2>1. PassOK(w, [pass[w] EXCEPT !.at = "latching"])
    BY <1>1, StepIsOK DEF IInv, TicksExclusive, Claimed
  <2> QED
    BY <1>1, <1>3, <2>1, AtKeeps
<1> QED
  BY <1>2, <1>3 DEF AskFirst

LEMMA TakeLatchKeeps ==
  ASSUME IInv, NEW w \in Workers, TakeLatch(w)
  PROVE  IInv'
<1> DEFINE p == [pass[w] EXCEPT !.at = "latched", !.latch = TRUE]
<1>1. /\ UNCHANGED <<clock, log, fired, anchored>> /\ failures' \in Nat
      /\ pass[w].at = "latching"
      /\ Goes(w, p)
      /\ ~pass[w].task
  BY DEF TakeLatch, IInv, TypeOK
<1>2. \A u \in Workers : pass[u].latch => u = w
  BY <1>1 DEF TakeLatch, Blocked, BlockedBy
<1>3. pass[w] \in Pass /\ PassOK(w, pass[w])
  BY PassIsOK DEF PassOK
<1>4. /\ p \in Pass
      /\ p.at = "latched" /\ p.tick = pass[w].tick /\ p.last = pass[w].last
      /\ p.latch = TRUE /\ p.task = pass[w].task
  BY <1>3 DEF Pass
<1> HIDE DEF p
<1>5. PassOK(w, p)
  BY <1>1, <1>2, <1>3, <1>4 DEF PassOK, Claimed
<1> QED
  BY <1>1, <1>5, PassMoves

LEMMA AskAgainKeeps ==
  ASSUME IInv, NEW w \in Workers, AskAgain(w)
  PROVE  IInv'
<1>1. /\ UNCHANGED <<clock, log, fired, anchored, failures>>
      /\ pass[w].at = "latched"
      /\ ~pass[w].task
  BY DEF AskAgain, IInv, TypeOK
<1>2. CASE \E anchor \in Earliest(Recorded) : Boundary(w, anchor)
  BY <1>1, <1>2, BoundaryKeeps
<1>3. CASE Recorded = {} /\ At(w, "settling") /\ pass[w].latch
  <2> DEFINE p == [pass[w] EXCEPT !.at = "settling"]
  <2>1. pass[w] \in Pass /\ PassOK(w, pass[w])
    BY PassIsOK DEF PassOK
  <2>2. /\ p \in Pass
        /\ p.at = "settling" /\ p.tick = pass[w].tick /\ p.last = pass[w].last
        /\ p.latch = pass[w].latch /\ p.task = pass[w].task
    BY <2>1 DEF Pass
  <2> HIDE DEF p
  <2>3. PassOK(w, p)
    BY <1>1, <1>3, <2>1, <2>2 DEF PassOK, Claimed
  <2> QED
    BY <1>1, <1>3, <2>3, AtKeeps DEF p
<1> QED
  BY <1>1, <1>2, <1>3 DEF AskAgain, IInv, LatchExclusive

LEMMA EnqueueKeeps ==
  ASSUME IInv, NEW w \in Workers, Enqueue(w)
  PROVE  IInv'
<1> DEFINE p == [pass[w] EXCEPT !.at = "settling", !.task = TRUE]
<1>1. /\ UNCHANGED <<clock, log, fired, anchored>> /\ failures' \in Nat
      /\ pass[w].at = "firing"
      /\ Goes(w, p)
  BY DEF Enqueue, IInv, TypeOK
<1>2. pass[w] \in Pass /\ PassOK(w, pass[w])
  BY PassIsOK DEF PassOK
<1>3. /\ p \in Pass
      /\ p.at = "settling" /\ p.tick = pass[w].tick /\ p.last = pass[w].last
      /\ p.latch = pass[w].latch /\ p.task = TRUE
  BY <1>2 DEF Pass
<1> HIDE DEF p
<1>4. PassOK(w, p)
  BY <1>1, <1>2, <1>3 DEF PassOK, Claimed
<1> QED
  BY <1>1, <1>4, PassMoves

-----------------------------------------------------------------------------
(* A tick is committed, time passes, a tick is pruned.                     *)

\* A tick about to be committed has not been used, and no other pass is about
\* to anchor.
LEMMA CommitTick ==
  ASSUME IInv, NEW w \in Workers, pass[w].at = "settling"
  PROVE  /\ pass[w].tick \in Ticks
         /\ pass[w].tick \notin Recorded
         /\ ~Used(pass[w].tick)
         /\ fired[pass[w].tick] = 0
         /\ pass[w].task <=> anchored # <<>>
         /\ \A u \in Workers :
              pass[u].at = "settling" /\ ~pass[u].task => ~pass[w].task /\ u = w
<1>1. pass[w].tick \in Ticks /\ pass[w].tick \in Nat
  BY DispatchAssumption DEF IInv, TypeOK
<1>2. pass[w].tick \notin Recorded
  BY DEF IInv, TicksExclusive, Claimed, Recorded
<1>3. ~PastCutoff(pass[w].tick)
  BY <1>1 DEF PastCutoff
<1>4. ~Used(pass[w].tick) /\ fired[pass[w].tick] = 0
  BY <1>1, <1>2, <1>3 DEF IInv, UsedStaysUsed, Used
<1>5. pass[w].task <=> anchored # <<>>
  BY DEF IInv, HistorySeen, AnchorStarts
<1>6. ASSUME NEW u \in Workers, pass[u].at = "settling", ~pass[u].task
      PROVE  ~pass[w].task /\ u = w
  <2>1. pass[u].latch /\ Recorded = {}
    BY <1>6 DEF IInv, HistorySeen
  <2>2. ~pass[w].task
    BY <2>1 DEF IInv, HistorySeen
  <2>3. pass[w].latch
    BY <2>2 DEF IInv, HistorySeen
  <2> QED
    BY <2>1, <2>2, <2>3 DEF IInv, LatchExclusive
<1> QED
  BY <1>1, <1>2, <1>4, <1>5, <1>6

LEMMA CommitKeeps ==
  ASSUME IInv, NEW w \in Workers, Commit(w)
  PROVE  IInv'
<1> DEFINE t == pass[w].tick
<1>1. /\ pass[w].at = "settling"
      /\ UNCHANGED <<clock, failures>>
      /\ pass' = [pass EXCEPT ![w] = Idle]
      /\ \E kind \in {"task", "anchor"} : log' = [log EXCEPT ![t] = kind]
  BY DEF Commit, Over, Goes
<1>2. /\ t \in Ticks /\ t \notin Recorded /\ ~Used(t) /\ fired[t] = 0
      /\ pass[w].task <=> anchored # <<>>
      /\ \A u \in Workers :
           pass[u].at = "settling" /\ ~pass[u].task => ~pass[w].task /\ u = w
  BY <1>1, CommitTick
<1>3. /\ TypeOK /\ TicksExclusive /\ LatchExclusive /\ HistorySeen
      /\ AnchorStarts /\ UsedStaysUsed
  BY DEF IInv
<1>4. /\ Idle \in Pass /\ Idle.at = "idle" /\ Idle.last = {}
      /\ ~Idle.latch /\ ~Idle.task
  BY DEF Idle, Pass
<1>5. /\ pass'[w] = Idle
      /\ \A u \in Workers : u # w => pass'[u] = pass[u]
      /\ pass' \in [Workers -> Pass]
  BY <1>1, <1>3, <1>4 DEF TypeOK
<1>6. /\ log'[t] # "absent"
      /\ \A v \in Ticks : v # t => log'[v] = log[v]
      /\ log' \in [Ticks -> {"absent", "anchor", "task"}]
  BY <1>1, <1>2, <1>3 DEF TypeOK
<1>7. Recorded' = Recorded \cup {t} /\ Recorded' # {}
  BY <1>2, <1>6 DEF Recorded
<1>8. \/ /\ pass[w].task
         /\ fired' = [fired EXCEPT ![t] = 1]
         /\ anchored' = anchored
      \/ /\ ~pass[w].task
         /\ fired' = fired
         /\ anchored' = <<t>>
  <2>1. CASE pass[w].task
    <3>1. fired' = [fired EXCEPT ![t] = fired[t] + 1] /\ anchored' = anchored
      BY <2>1 DEF Commit
    <3>2. fired[t] + 1 = 1
      BY <1>2
    <3> QED
      BY <2>1, <3>1, <3>2
  <2>2. CASE ~pass[w].task
    <3>1. fired' = fired /\ anchored' = Append(anchored, t)
      BY <2>2 DEF Commit
    <3>2. anchored = <<>>
      BY <1>2, <2>2
    <3>3. Append(<<>>, t) = <<t>>
      OBVIOUS
    <3> QED
      BY <2>2, <3>1, <3>2, <3>3
  <2> QED
    BY <2>1, <2>2
<1>9. TypeOK'
  <2>1. \/ fired' = [fired EXCEPT ![t] = 1] /\ anchored' = anchored
        \/ fired' = fired /\ anchored' = <<t>>
    BY <1>8
  <2>2. fired \in [Ticks -> Nat] /\ anchored \in Seq(Ticks) /\ t \in Ticks
    BY <1>2, <1>3 DEF TypeOK
  <2> HIDE DEF t
  <2>3. fired' \in [Ticks -> Nat] /\ anchored' \in Seq(Ticks)
    <3>1. [fired EXCEPT ![t] = 1] \in [Ticks -> Nat]
      BY <2>2
    <3>2. <<t>> \in Seq(Ticks)
      BY <2>2
    <3> QED
      BY <2>1, <2>2, <3>1, <3>2
  <2>4. failures' \in Nat /\ clock' \in [Workers -> Nat]
    BY <1>1, <1>3 DEF TypeOK
  <2>5. \A u \in Workers :
          /\ pass'[u].at # "idle" => pass'[u].tick \in Ticks
          /\ pass'[u].latch => pass'[u].at \in {"latched", "firing", "settling"}
          /\ pass'[u].task => pass'[u].at = "settling"
    BY <1>3, <1>4, <1>5 DEF TypeOK
  <2> QED
    BY <1>5, <1>6, <2>3, <2>4, <2>5 DEF TypeOK
<1>10. TicksExclusive'
  BY <1>1, <1>3, <1>4, <1>5, <1>6 DEF TicksExclusive, Claimed, TypeOK
<1>11. LatchExclusive'
  BY <1>3, <1>4, <1>5 DEF LatchExclusive
<1>12. HistorySeen'
  BY <1>2, <1>3, <1>4, <1>5, <1>7 DEF HistorySeen
<1>13. AnchorStarts'
  BY <1>2, <1>3, <1>7, <1>8 DEF AnchorStarts
<1>14. ASSUME NEW v \in Ticks
       PROVE  /\ Used(v)' <=> Used(v) \/ v = t
              /\ fired'[v] \in {0, 1}
  <2>1. fired[v] \in {0, 1} /\ v \in Nat
    BY <1>3, DispatchAssumption DEF UsedStaysUsed
  <2>2. CASE fired' = [fired EXCEPT ![t] = 1] /\ anchored' = anchored
    <3>1. fired'[v] = IF v = t THEN 1 ELSE fired[v]
      BY <1>2, <1>3, <2>2 DEF TypeOK
    <3> QED
      BY <2>1, <2>2, <3>1 DEF Used
  <2>3. CASE ~pass[w].task /\ fired' = fired /\ anchored' = <<t>>
    <3>1. anchored = <<>> /\ fired[v] = 0
      BY <1>2, <1>3, <2>3 DEF AnchorStarts
    <3>2. anchored'[1] = t /\ anchored' # <<>>
      BY <2>3
    <3> QED
      BY <2>1, <2>3, <3>1, <3>2 DEF Used
  <2> QED
    BY <1>8, <2>2, <2>3
<1>15. ASSUME NEW v \in Ticks, PastCutoff(v)
       PROVE  PastCutoff(v)'
  BY <1>1, <1>4, <1>5, <1>15 DEF PastCutoff, Due, Newest
<1>16. UsedStaysUsed'
  BY <1>3, <1>7, <1>14, <1>15 DEF UsedStaysUsed
<1> QED
  BY <1>9, <1>10, <1>11, <1>12, <1>13, <1>16 DEF IInv

LEMMA AdvanceKeeps ==
  ASSUME IInv, NEW w \in Workers, Advance(w)
  PROVE  IInv'
<1>1. /\ UNCHANGED <<pass, log, fired, anchored, failures>>
      /\ clock' = [clock EXCEPT ![w] = @ + 1]
      /\ clock \in [Workers -> Nat]
  BY DEF Advance, IInv, TypeOK
<1>2. ASSUME NEW u \in Workers, NEW d \in Due(clock[u])
      PROVE  \E e \in Due(clock'[u]) : d <= e
  <2>1. clock[u] \in Nat /\ clock'[u] \in {clock[u], clock[u] + 1} /\ d \in Nat
    BY <1>1, DispatchAssumption DEF Due, Newest
  <2>2. CASE clock'[u] \in Ticks
    BY <2>1, <2>2, DispatchAssumption DEF Due, Newest
  <2>3. CASE clock'[u] \notin Ticks
    <3>1. \A v \in Ticks : v <= clock'[u] => v <= clock[u]
      BY <2>1, <2>3, DispatchAssumption
    <3> QED
      BY <2>1, <3>1, DispatchAssumption DEF Due, Newest
  <2> QED
    BY <2>2, <2>3
<1>3. ASSUME NEW t \in Ticks, PastCutoff(t)
      PROVE  PastCutoff(t)'
  <2>1. \A u \in Workers : \E d \in Due(clock'[u]) : t < d
    <3> TAKE u \in Workers
    <3>1. PICK d \in Due(clock[u]) : t < d
      BY <1>3 DEF PastCutoff
    <3>2. PICK e \in Due(clock'[u]) : d <= e
      BY <1>2, <3>1
    <3> QED
      BY <3>1, <3>2, DispatchAssumption DEF Due, Newest
  <2> QED
    BY <1>1, <1>3, <2>1 DEF PastCutoff, Due, Newest
<1>4. Recorded' = Recorded
  BY <1>1 DEF Recorded
<1>5. TypeOK'
  BY <1>1 DEF IInv, TypeOK
<1>6. UsedStaysUsed'
  BY <1>1, <1>3, <1>4 DEF IInv, UsedStaysUsed, Used
<1> QED
  BY <1>1, <1>4, <1>5, <1>6
  DEF IInv, TicksExclusive, LatchExclusive, HistorySeen, AnchorStarts

LEMMA PruneKeeps ==
  ASSUME IInv, NEW t \in Ticks, Prune(t)
  PROVE  IInv'
<1>1. /\ UNCHANGED <<clock, pass, fired, anchored, failures>>
      /\ log' = [log EXCEPT ![t] = "absent"]
      /\ log \in [Ticks -> {"absent", "anchor", "task"}]
      /\ PastCutoff(t)
      /\ t \in Recorded \ Newest(Recorded)
  BY DEF Prune, IInv, TypeOK
<1>2. Recorded' = Recorded \ {t}
  BY <1>1 DEF Recorded
<1>3. Recorded' = {} <=> Recorded = {}
  BY <1>1, <1>2, DispatchAssumption DEF Newest, Recorded
<1>4. \A v \in Ticks : PastCutoff(v)' <=> PastCutoff(v)
  BY <1>1 DEF PastCutoff, Due, Newest
<1>5. TypeOK'
  BY <1>1 DEF IInv, TypeOK
<1>6. TicksExclusive'
  BY <1>1 DEF IInv, TicksExclusive, TypeOK, Claimed
<1>7. HistorySeen' /\ AnchorStarts' /\ LatchExclusive'
  BY <1>1, <1>3 DEF IInv, HistorySeen, AnchorStarts, LatchExclusive
<1>8. UsedStaysUsed'
  BY <1>1, <1>2, <1>4 DEF IInv, UsedStaysUsed, Used
<1> QED
  BY <1>5, <1>6, <1>7, <1>8 DEF IInv
-----------------------------------------------------------------------------
(* The invariant.                                                          *)

LEMMA Initially ==
  ASSUME Init
  PROVE  IInv
<1>1. Recorded = {} /\ anchored = <<>>
  BY DEF Init, Recorded
<1>2. Idle \in Pass
  BY DEF Idle, Pass
<1>3. TypeOK
  BY <1>2 DEF Init, TypeOK, Idle
<1>4. TicksExclusive /\ LatchExclusive /\ HistorySeen
  BY DEF Init, Idle, Claimed, TicksExclusive, LatchExclusive, HistorySeen
<1>5. AnchorStarts
  BY <1>1 DEF Init, AnchorStarts
<1>6. UsedStaysUsed
  BY <1>1 DEF Init, UsedStaysUsed, Used
<1> QED
  BY <1>3, <1>4, <1>5, <1>6 DEF IInv

LEMMA StepKeeps ==
  ASSUME IInv, NEW w \in Workers, Step(w)
  PROVE  IInv'
BY PlanKeeps, ReadLatestKeeps, AskInstantKeeps, ClaimKeeps, AskFirstKeeps,
     TakeLatchKeeps, AskAgainKeeps, EnqueueKeeps, CommitKeeps DEF Step

LEMMA FailKeeps ==
  ASSUME IInv, NEW w \in Workers, Fail(w)
  PROVE  IInv'
<1>1. failures' \in Nat
  BY DEF Fail, IInv, TypeOK
<1> QED
  BY <1>1, OverKeeps DEF Fail

LEMMA NextKeeps ==
  ASSUME IInv, [Next]_vars
  PROVE  IInv'
<1>1. CASE \E w \in Workers : Step(w) \/ Fail(w) \/ Advance(w)
  BY <1>1, StepKeeps, FailKeeps, AdvanceKeeps
<1>2. CASE \E t \in Ticks : Prune(t)
  BY <1>2, PruneKeeps
<1>3. CASE UNCHANGED vars
  <2>1. UNCHANGED <<clock, pass, log, fired, anchored, failures>>
    BY <1>3 DEF vars
  <2>2. Recorded' = Recorded /\ \A t \in Ticks : PastCutoff(t)' <=> PastCutoff(t)
    BY <2>1 DEF Recorded, PastCutoff, Due, Newest
  <2> QED
    BY <2>1, <2>2 DEF IInv, TypeOK, TicksExclusive, LatchExclusive, HistorySeen,
                      AnchorStarts, UsedStaysUsed, Used
<1> QED
  BY <1>1, <1>2, <1>3 DEF Next

\* The inductive invariant holds in every reachable state.
THEOREM DispatchInvariant == Spec => []IInv
<1>1. Init => IInv
  BY Initially
<1>2. IInv /\ [Next]_vars => IInv'
  BY NextKeeps
<1> QED
  BY <1>1, <1>2, PTL DEF Spec

\* Type correctness; a pass holds a tick row, a latch or a task only at the
\* steps of dispatch_schedules() that have them.
THEOREM DispatchTypeCorrect == Spec => []TypeOK
<1>1. IInv => TypeOK
  BY DEF IInv
<1> QED
  BY <1>1, DispatchInvariant, PTL
-----------------------------------------------------------------------------
(* The promise.                                                            *)

LEMMA CommitKeepsPromise ==
  ASSUME IInv, NEW w \in Workers, Commit(w)
  PROVE  Promise!Next
<1> DEFINE t == pass[w].tick
<1>1. /\ t \in Ticks
      /\ ~Used(t) /\ fired[t] = 0
      /\ pass[w].task <=> anchored # <<>>
  BY CommitTick DEF Commit
<1>2. CASE pass[w].task
  <2>1. fired' = [fired EXCEPT ![t] = fired[t] + 1] /\ anchored' = anchored
    BY <1>2 DEF Commit
  <2>2. fired[t] + 1 = 1
    BY <1>1
  <2>3. anchored # <<>> /\ t # anchored[1]
    BY <1>1, <1>2 DEF Used
  <2>4. Promise!Fire(t)
    BY <1>1, <2>1, <2>2, <2>3 DEF Promise!Fire
  <2> QED
    BY <1>1, <2>4 DEF Promise!Next
<1>3. CASE ~pass[w].task
  <2>1. fired' = fired /\ anchored' = Append(anchored, t)
    BY <1>3 DEF Commit
  <2>2. anchored = <<>>
    BY <1>1, <1>3
  <2>3. Append(<<>>, t) = <<t>>
    OBVIOUS
  <2>4. Promise!Anchor(t)
    BY <2>1, <2>2, <2>3 DEF Promise!Anchor
  <2> QED
    BY <1>1, <2>4 DEF Promise!Next
<1> QED
  BY <1>2, <1>3

\* The schedule is anchored once, nothing fires until it is, and no tick is
\* used twice, by any of the workers: the workers' passes, the unique index
\* and the latch implement the promise.
THEOREM DispatchKeepsItsPromise == Spec => KeepsItsPromise
<1>1. Init => Promise!Init
  BY DEF Init, Promise!Init
<1>2. IInv /\ [Next]_vars => [Promise!Next]_(Promise!vars)
  <2> SUFFICES ASSUME IInv, [Next]_vars
               PROVE  Promise!Next \/ UNCHANGED <<anchored, fired>>
    BY DEF Promise!vars
  <2>1. ASSUME NEW w \in Workers, Step(w) \/ Fail(w) \/ Advance(w)
        PROVE  Promise!Next \/ UNCHANGED <<anchored, fired>>
    <3>1. CASE Commit(w)
      BY <3>1, CommitKeepsPromise
    <3>2. CASE ~Commit(w)
      BY <2>1, <3>2 DEF Step, Fail, Advance, Plan, ReadLatest, AskInstant, Claim,
         AskFirst, TakeLatch, AskAgain, Enqueue
    <3> QED
      BY <3>1, <3>2
  <2>2. ASSUME NEW t \in Ticks, Prune(t)
        PROVE  UNCHANGED <<anchored, fired>>
    BY <2>2 DEF Prune
  <2>3. UNCHANGED vars => UNCHANGED <<anchored, fired>>
    BY DEF vars
  <2> QED
    BY <2>1, <2>2, <2>3 DEF Next
<1> QED
  BY <1>1, <1>2, DispatchInvariant, PTL DEF Spec, KeepsItsPromise, Promise!Spec

\* The same of the behaviours of the run's in which locked rows are waited for: the
\* other parts leave the dispatch alone.
THEOREM WaitingKeepsItsPromise == PartSpec => KeepsItsPromise
<1>1. PartInit => Init
  BY DEF PartInit
<1>2. [PartNext]_<<part, vars, batches, admission, outcome, backstop>> => [Next]_vars
  BY DEF PartNext
<1> QED
  BY <1>1, <1>2, DispatchKeepsItsPromise, PTL DEF PartSpec, Spec
-----------------------------------------------------------------------------
(* Waiting.                                                                *)

\* Where locked rows are skipped, whatever the workers wait for, some worker
\* of any group of them waits for nobody in the group: one waiting for a tick
\* row waits for a pass past its INSERT, one waiting for the latch waits for a
\* pass that holds it, and that one waits for nothing.
THEOREM DispatchNeverDeadlocks == Spec => []NoDeadlock
<1>1. IInv => NoDeadlock
  <2> SUFFICES ASSUME IInv, SkipLocked,
                      NEW ws \in SUBSET Workers, ws # {}, Deadlocked(ws)
               PROVE  FALSE
    BY DEF NoDeadlock
  <2>1. \A w \in ws : pass[w].at \in {"claiming", "latching"}
    BY DEF Deadlocked, BlockedBy
  <2>2. \A w \in ws : pass[w].at # "latching"
    <3> SUFFICES ASSUME NEW w \in ws, pass[w].at = "latching"
                 PROVE  FALSE
      OBVIOUS
    <3>1. PICK u \in ws : pass[u].latch
      BY DEF Deadlocked, BlockedBy
    <3> QED
      BY <2>1, <3>1 DEF IInv, TypeOK
  <2>3. PICK w \in ws : pass[w].at = "claiming"
    BY <2>1, <2>2
  <2>4. PICK u \in ws : pass[u].at \in Claimed
    BY <2>3 DEF Deadlocked, BlockedBy
  <2> QED
    BY <2>1, <2>2, <2>4 DEF Claimed
<1> QED
  BY <1>1, DispatchInvariant, PTL
-----------------------------------------------------------------------------
(* The anchor's boundary.                                                  *)

\* w is past its look at the history, with none found by the bounded read.
Unread(w) == (pass[w].at = "firing" \/ pass[w].task) /\ pass[w].last = {}

Heeds(w) == Unread(w) => anchored # <<>> /\ anchored[1] < pass[w].tick

\* While nothing has fired before the anchor, the anchor is the earliest tick
\* there has been, so a tick that is not before the earliest one recorded and
\* has not been used is after the anchor.
LEMMA AnchorIsEarliest ==
  ASSUME IInv, NothingBeforeTheAnchorFires, NEW w \in Workers, pass[w].at \in Claimed,
         NEW r \in Earliest(Recorded), ~(pass[w].tick < r)
  PROVE  anchored # <<>> /\ anchored[1] < pass[w].tick
<1>1. r \in Ticks /\ r \in Nat /\ r \in Recorded /\ Used(r)
  BY DispatchAssumption DEF Earliest, Recorded, IInv, UsedStaysUsed
<1>2. anchored # <<>>
  BY <1>1 DEF IInv, AnchorStarts
<1>3. anchored[1] \in Ticks /\ anchored[1] \in Nat
  <2>1. /\ Len(anchored) \in Nat /\ Len(anchored) # 0
        /\ \A i \in 1 .. Len(anchored) : anchored[i] \in Ticks
    BY <1>2 DEF IInv, TypeOK
  <2>2. 1 \in 1 .. Len(anchored)
    BY <2>1
  <2> QED
    BY <2>1, <2>2, DispatchAssumption
<1>4. anchored[1] <= r
  BY <1>1, <1>2, <1>3 DEF Used, NothingBeforeTheAnchorFires
<1>5. pass[w].tick \in Ticks /\ pass[w].tick \in Nat
  BY DispatchAssumption DEF IInv, TypeOK, Claimed
<1>6. ~Used(pass[w].tick)
  <2>1. pass[w].tick \notin Recorded
    BY DEF IInv, TicksExclusive, Recorded
  <2>2. ~PastCutoff(pass[w].tick)
    BY <1>5 DEF PastCutoff, Claimed
  <2> QED
    BY <1>5, <2>1, <2>2 DEF IInv, UsedStaysUsed
<1> QED
  BY <1>2, <1>3, <1>4, <1>5, <1>6, <1>1 DEF Used

\* What a step does to the anchor and to the passes that may fire unread.
LEMMA UnreadSteps ==
  ASSUME IInv, [Next]_vars
  PROVE  /\ anchored # <<>> => anchored' = anchored
         /\ NothingBeforeTheAnchorFires' => NothingBeforeTheAnchorFires
         /\ \A w \in Workers : Unread(w)' =>
              /\ pass'[w].tick = pass[w].tick
              /\ \/ Unread(w)
                 \/ /\ pass[w].at \in Claimed
                    /\ \E r \in Earliest(Recorded) : ~(pass[w].tick < r)
<1>1. Promise!Next \/ UNCHANGED <<anchored, fired>>
  <2>1. CASE \E w \in Workers : Commit(w)
    BY <2>1, CommitKeepsPromise
  <2>2. CASE ~\E w \in Workers : Commit(w)
    BY <2>2 DEF Next, vars, Step, Fail, Advance, Prune, Plan, ReadLatest, AskInstant,
       Claim, AskFirst, TakeLatch, AskAgain, Enqueue
  <2> QED
    BY <2>1, <2>2
<1>2. anchored # <<>> => anchored' = anchored
  BY <1>1 DEF Promise!Next, Promise!Anchor, Promise!Fire
<1>3. \A t \in Ticks : fired[t] > 0 => fired'[t] > 0
  <2>1. \/ fired' = fired
        \/ \E u \in Ticks : fired' = [fired EXCEPT ![u] = 1]
    BY <1>1 DEF Promise!Next, Promise!Anchor, Promise!Fire
  <2>2. fired \in [Ticks -> Nat]
    BY DEF IInv, TypeOK
  <2> QED
    BY <2>1, <2>2
<1>4. NothingBeforeTheAnchorFires' => NothingBeforeTheAnchorFires
  <2> SUFFICES ASSUME NothingBeforeTheAnchorFires', NEW t \in Ticks, fired[t] > 0
               PROVE  anchored # <<>> /\ anchored[1] < t
    BY DEF NothingBeforeTheAnchorFires
  <2>1. anchored # <<>>
    BY DEF IInv, AnchorStarts
  <2>2. anchored' # <<>> /\ anchored'[1] < t
    BY <1>3 DEF NothingBeforeTheAnchorFires
  <2> QED
    BY <1>2, <2>1, <2>2
<1>5. ASSUME NEW w \in Workers, Unread(w)'
      PROVE  /\ pass'[w].tick = pass[w].tick
             /\ \/ Unread(w)
                \/ /\ pass[w].at \in Claimed
                   /\ \E r \in Earliest(Recorded) : ~(pass[w].tick < r)
  <2> DEFINE Goal == /\ pass'[w].tick = pass[w].tick
                     /\ \/ Unread(w)
                        \/ /\ pass[w].at \in Claimed
                           /\ \E r \in Earliest(Recorded) : ~(pass[w].tick < r)
  <2>1. pass \in [Workers -> Pass] /\ pass[w] \in Pass
    BY DEF IInv, TypeOK
  <2>2. pass'[w] = pass[w] => Goal
    BY <1>5 DEF Unread
  <2>3. ASSUME NEW u \in Workers, NEW p, Goes(u, p), u # w
        PROVE  pass'[w] = pass[w]
    BY <2>1, <2>3 DEF Goes
  <2>4. ASSUME NEW p, Goes(w, p)
        PROVE  (p.at = "firing" \/ p.task) /\ p.last = {}
    BY <1>5, <2>1, <2>4 DEF Goes, Unread
  <2>5. ~Over(w)
    BY <2>4 DEF Over, Idle
  <2>6. ASSUME NEW step, At(w, step)
        PROVE  /\ (step = "firing" \/ pass[w].task) /\ pass[w].last = {}
               /\ pass'[w].tick = pass[w].tick
    <3> DEFINE p == [pass[w] EXCEPT !.at = step]
    <3>1. /\ p.at = step /\ p.task = pass[w].task /\ p.last = pass[w].last
          /\ p.tick = pass[w].tick
      BY <2>1 DEF Pass
    <3>2. Goes(w, p) /\ pass'[w] = p
      BY <2>1, <2>6 DEF At, Goes
    <3> QED
      BY <2>4, <3>1, <3>2
  <2>7. pass[w].task => pass[w].at = "settling"
    BY DEF IInv, TypeOK
  <2>8. ASSUME Step(w)
        PROVE  Goal
    <3>1. ~Plan(w)
      <4> SUFFICES ASSUME NEW t,
                          Goes(w, [Idle EXCEPT !.at = "planned", !.now = clock[w], !.tick = t])
                   PROVE  FALSE
        BY DEF Plan
      <4> DEFINE p == [Idle EXCEPT !.at = "planned", !.now = clock[w], !.tick = t]
      <4>1. p.at = "planned" /\ ~p.task
        BY DEF Idle
      <4> QED
        BY <2>4, <4>1
    <3>2. ~ReadLatest(w)
      <4> SUFFICES ASSUME ReadLatest(w)
                   PROVE  FALSE
        OBVIOUS
      <4>1. PICK from \in Ticks, step \in {"asking", "claiming"} :
              Goes(w, [pass[w] EXCEPT !.at = step, !.last = Latest(from)])
        BY <2>5 DEF ReadLatest
      <4> DEFINE p == [pass[w] EXCEPT !.at = step, !.last = Latest(from)]
      <4>2. p.at = step /\ p.task = pass[w].task
        BY <2>1 DEF Pass
      <4> QED
        BY <2>4, <2>7, <4>1, <4>2 DEF ReadLatest
    <3>3. ~AskInstant(w)
      BY <2>5, <2>6, <2>7 DEF AskInstant
    <3>4. ~Claim(w)
      BY <2>5, <2>6, <2>7 DEF Claim
    <3>5. ASSUME NEW r \in Earliest(Recorded), Boundary(w, r), pass[w].at \in Claimed
          PROVE  Goal
      BY <2>5, <2>6, <3>5 DEF Boundary
    <3>6. AskFirst(w) => Goal
      BY <2>6, <2>7, <3>5 DEF AskFirst, Claimed
    <3>7. ~TakeLatch(w)
      <4> SUFFICES ASSUME TakeLatch(w)
                   PROVE  FALSE
        OBVIOUS
      <4> DEFINE p == [pass[w] EXCEPT !.at = "latched", !.latch = TRUE]
      <4>1. p.at = "latched" /\ p.task = pass[w].task
        BY <2>1 DEF Pass
      <4>2. Goes(w, p)
        BY DEF TakeLatch
      <4> QED
        BY <2>4, <2>7, <4>1, <4>2 DEF TakeLatch
    <3>8. AskAgain(w) => Goal
      BY <2>6, <2>7, <3>5 DEF AskAgain, Claimed
    <3>9. Enqueue(w) => Goal
      <4> SUFFICES ASSUME Enqueue(w)
                   PROVE  Goal
        OBVIOUS
      <4> DEFINE p == [pass[w] EXCEPT !.at = "settling", !.task = TRUE]
      <4>1. p.last = pass[w].last /\ p.tick = pass[w].tick
        BY <2>1 DEF Pass
      <4>2. Goes(w, p) /\ pass'[w] = p
        BY <2>1 DEF Enqueue, Goes
      <4> QED
        BY <2>4, <4>1, <4>2 DEF Enqueue, Unread
    <3> QED
      BY <2>5, <2>8, <3>1, <3>2, <3>3, <3>4, <3>6, <3>7, <3>8, <3>9
      DEF Step, Commit
  <2>9. CASE Step(w) \/ Fail(w)
    BY <2>5, <2>8, <2>9 DEF Fail
  <2>10. CASE \E u \in Workers : u # w /\ (Step(u) \/ Fail(u))
    <3>1. PICK u \in Workers : u # w /\ (Step(u) \/ Fail(u))
      BY <2>10
    <3>2. \E p : Goes(u, p)
      BY <3>1 DEF Step, Fail, Plan, ReadLatest, AskInstant, Claim, AskFirst, Boundary,
         TakeLatch, AskAgain, Enqueue, Commit, At, Over
    <3> QED
      BY <2>2, <2>3, <3>1, <3>2
  <2>11. CASE UNCHANGED pass
    BY <2>2, <2>11
  <2> QED
    BY <2>9, <2>10, <2>11 DEF Next, Advance, Prune, vars
<1> QED
  BY <1>2, <1>4, <1>5

\* As long as nothing has fired before the anchor, a pass whose bounded read
\* found no history fires after it: only a pass that takes the anchor for a
\* tick ahead of its own clock can fire before it.
THEOREM FirstPassesDoHeedTheAnchor == Spec => []FirstPassesHeedTheAnchor
<1> DEFINE F == NothingBeforeTheAnchorFires => \A w \in Workers : Heeds(w)
<1>1. Init => F
  BY DEF Init, Idle, Heeds, Unread
<1>2. IInv /\ F /\ [Next]_vars => F'
  <2> SUFFICES ASSUME IInv, F, [Next]_vars, NothingBeforeTheAnchorFires',
                      NEW w \in Workers, Unread(w)'
               PROVE  anchored' # <<>> /\ anchored'[1] < pass'[w].tick
    BY DEF Heeds
  <2>1. NothingBeforeTheAnchorFires /\ pass'[w].tick = pass[w].tick
    BY UnreadSteps
  <2>2. anchored # <<>> /\ anchored[1] < pass[w].tick
    <3>1. CASE Unread(w)
      BY <2>1, <3>1 DEF Heeds
    <3>2. CASE /\ pass[w].at \in Claimed
               /\ \E r \in Earliest(Recorded) : ~(pass[w].tick < r)
      BY <2>1, <3>2, AnchorIsEarliest
    <3> QED
      BY <3>1, <3>2, UnreadSteps
  <2> QED
    BY <2>1, <2>2, UnreadSteps
<1>3. F => FirstPassesHeedTheAnchor
  BY DEF FirstPassesHeedTheAnchor, Heeds, Unread
<1> HIDE DEF F
<1> QED
  BY <1>1, <1>2, <1>3, DispatchInvariant, PTL DEF Spec
-----------------------------------------------------------------------------
(* The writes of an outcome.                                               *)

\* The bounds are numbers.
OutcomeBounds ==
  /\ LastEpoch \in Nat /\ OUTCOME_ATTEMPTS \in Nat /\ Delays \in Nat /\ MaxFaults \in Nat

\* The row takes the outcome of the attempt of this epoch.
RowOpen(e) == row.epoch = e /\ row.status \in Outcome!Writable

\* Told that it was not written: the row has another's outcome, or none.
Denied(v) == v.told \in {"lease lost", "unchanged"}

\* What an attempt's write may still do.
SentOK(e) ==
  LET v == writer[e]
  IN  /\ v.at = "none" => v.late = 0
      /\ v.at # "told" => v.told = ""
      /\ v.at \notin {"none", "told"} => v.epoch = e
      /\ v.at = "first" => v.late = 0 /\ applied[e] = 0
      /\ v.at \in {"waiting", "ask", "second"} => v.late <= 1
      /\ v.at = "second" \/ Denied(v) => v.unseen \/ (v.late = 0 /\ ~Outcome!Stands(e))
      /\ v.told = "written" => applied[e] = 1
      /\ v.told = "lease lost" => ~RowOpen(e)

\* How the row stands to the attempt of an epoch.
EpochOK(e) ==
  /\ applied[e] <= 1
  /\ writer[e].at # "none" \/ applied[e] = 1 => row.epoch >= e
  /\ RowOpen(e) => writer[e].at # "none" /\ applied[e] = 0
  /\ row.outcome = e =>
       /\ applied[e] = 1 /\ writer[e].at # "none"
       /\ Outcome!Stands(e) \/ row.epoch > Outcome!Left(e)

OutcomeHolds ==
  /\ Outcome!TypeOK
  /\ row.status \in Outcome!Writable => row.epoch \in Outcome!Epochs
  /\ \A e \in Outcome!Epochs : SentOK(e) /\ EpochOK(e)
-----------------------------------------------------------------------------
(* An attempt's write.                                                     *)

LEMMA WriterTypes ==
  ASSUME OutcomeBounds, Outcome!TypeOK, NEW e \in Outcome!Epochs
  PROVE  /\ e \in Int /\ e >= 1 /\ e \in 0 .. LastEpoch + 1 /\ e + 1 \in 0 .. LastEpoch + 1
         /\ Outcome!Left(e) \in 0 .. LastEpoch + 1 /\ Outcome!Left(e) \in {e, e + 1}
         /\ writer \in [Outcome!Epochs -> Outcome!Writer] /\ writer[e] \in Outcome!Writer
         /\ applied \in [Outcome!Epochs -> 0 .. 2] /\ applied[e] \in Int /\ applied[e] >= 0
         /\ writer[e].late \in 0 .. 2
         /\ row.epoch \in Int /\ row.outcome \in Int
<1>1. e \in Int /\ e >= 1 /\ e \in 0 .. LastEpoch + 1 /\ e + 1 \in 0 .. LastEpoch + 1
  BY DEF OutcomeBounds, Outcome!Epochs
<1>2. writer \in [Outcome!Epochs -> Outcome!Writer] /\ applied \in [Outcome!Epochs -> 0 .. 2]
  BY DEF Outcome!TypeOK
<1>3. writer[e] \in Outcome!Writer /\ applied[e] \in 0 .. 2
  BY <1>2
<1>4. writer[e].late \in 0 .. 2
  BY <1>3 DEF Outcome!Writer
<1>5. row.epoch \in Int /\ row.outcome \in Int
  BY DEF Outcome!TypeOK
<1> QED
  BY <1>1, <1>2, <1>3, <1>4, <1>5 DEF Outcome!Left

\* What it may do to the row.
Effect(e) == Outcome!Untouched \/ (RowOpen(e) /\ Outcome!TakesEffect(e))

\* The kinds of its steps: it is tried again as it was;
TriesAgain(e) ==
  LET v == writer[e]  n == writer'[e]
  IN  /\ v.at = "first" /\ n.at = "first" /\ n.epoch = e /\ n.late = v.late /\ n.told = ""
      /\ Outcome!Untouched

\* it is written, and its caller is told so;
IsWritten(e) ==
  LET v == writer[e]  n == writer'[e]
  IN  /\ v.at \in {"first", "second"} /\ n.at = "told" /\ n.told = "written"
      /\ RowOpen(e) /\ Outcome!TakesEffect(e)

\* its caller is told that it is not;
IsDenied(e) ==
  LET v == writer[e]  n == writer'[e]
  IN  /\ v.at \in {"first", "second"} /\ n.at = "told"
      /\ n.late = v.late /\ n.unseen = v.unseen /\ Outcome!Untouched
      /\ n.told = "unchanged" \/ (n.told = "lease lost" /\ ~RowOpen(e))

\* or neither;
IsNotTold(e) ==
  LET v == writer[e]  n == writer'[e]
  IN  /\ v.at \in {"first", "ask", "second"} /\ n.at = "told"
      /\ n.told \in {"raised", "unrecorded"}
      /\ Effect(e)

\* a connection is waited for;
Waits(e) ==
  LET v == writer[e]  n == writer'[e]
  IN  /\ v.at \in {"first", "waiting", "ask"} /\ n.at \in {"waiting", "ask"}
      /\ n.epoch = e /\ n.told = "" /\ n.late <= 1
      /\ Effect(e)

\* the row has the outcome;
Finds(e) ==
  LET v == writer[e]  n == writer'[e]
  IN  /\ v.at = "ask" /\ Outcome!Stands(e) /\ n.at = "told" /\ n.told = "written"
      /\ Outcome!Untouched

\* it has not;
FindsNot(e) ==
  LET v == writer[e]  n == writer'[e]
  IN  /\ v.at = "ask" /\ ~Outcome!Stands(e) /\ n.at = "second" /\ n.epoch = e /\ n.told = ""
      /\ n.late = v.late /\ n.unseen = (v.late > 0) /\ Outcome!Untouched

\* the server carries out one that has no client.
IsLate(e) ==
  LET v == writer[e]  n == writer'[e]
  IN  /\ v.late > 0 /\ n.late = v.late - 1
      /\ n.at = v.at /\ n.epoch = v.epoch /\ n.told = v.told /\ n.unseen = v.unseen
      /\ Effect(e)

Sends(e) ==
  /\ writer' \in [Outcome!Epochs -> Outcome!Writer]
  /\ \A f \in Outcome!Epochs \ {e} : writer'[f] = writer[f]
  /\ writer'[e].status = writer[e].status /\ writer'[e].stuck = writer[e].stuck
  /\ \/ TriesAgain(e) \/ IsWritten(e) \/ IsDenied(e) \/ IsNotTold(e)
     \/ Waits(e) \/ Finds(e) \/ FindsNot(e) \/ IsLate(e)

LEMMA BecomesIs ==
  ASSUME OutcomeBounds, Outcome!TypeOK, NEW e \in Outcome!Epochs, NEW n \in Outcome!Writer,
         writer' = [writer EXCEPT ![e] = n]
  PROVE  /\ writer' \in [Outcome!Epochs -> Outcome!Writer] /\ writer'[e] = n
         /\ \A f \in Outcome!Epochs \ {e} : writer'[f] = writer[f]
BY WriterTypes

LEMMA TellFields ==
  ASSUME NEW v \in Outcome!Writer,
         NEW what \in {"written", "lease lost", "unrecorded", "unchanged", "raised"}
  PROVE  /\ Outcome!Tell(v, what) \in Outcome!Writer
         /\ Outcome!Tell(v, what).at = "told" /\ Outcome!Tell(v, what).told = what
         /\ Outcome!Tell(v, what).status = v.status /\ Outcome!Tell(v, what).stuck = v.stuck
         /\ Outcome!Tell(v, what).late = v.late /\ Outcome!Tell(v, what).unseen = v.unseen
BY DEF Outcome!Tell, Outcome!Writer

\* Mirrored and put back, the instance is as it was, but for the epoch it had.
LEMMA BackIs ==
  ASSUME OutcomeBounds, Outcome!TypeOK, NEW e \in Outcome!Epochs, writer[e].epoch = e
  PROVE  Outcome!PutBack(e, Outcome!Mirrored(e)) = writer[e]
BY WriterTypes DEF Outcome!PutBack, Outcome!Mirrored, Outcome!Writer

LEMMA LandsIs ==
  ASSUME OutcomeBounds, Outcome!TypeOK, NEW e \in Outcome!Epochs,
         writer[e].at \in {"first", "second"},
         writer[e].epoch = e, Outcome!Lands(e)
  PROVE  Sends(e)
<1>1. writer[e] \in Outcome!Writer /\ Outcome!Left(e) \in 0 .. LastEpoch + 1
  BY WriterTypes
<1>2. Outcome!Fence(writer[e].epoch) <=> RowOpen(e)
  BY DEF Outcome!Fence, RowOpen
<1> DEFINE m == [writer[e] EXCEPT !.epoch = Outcome!Left(e)]
<1>3. m \in Outcome!Writer /\ m.status = writer[e].status /\ m.stuck = writer[e].stuck
  BY <1>1 DEF Outcome!Writer
<1>4. CASE RowOpen(e) /\ Outcome!TakesEffect(e) /\ Outcome!Becomes(e, Outcome!Tell(m, "written"))
  <2> HIDE DEF m
  <2>1. writer' = [writer EXCEPT ![e] = Outcome!Tell(m, "written")]
    BY <1>4 DEF Outcome!Becomes
  <2>2. LET n == Outcome!Tell(m, "written")
        IN  /\ n \in Outcome!Writer /\ n.at = "told" /\ n.told = "written"
            /\ n.status = m.status /\ n.stuck = m.stuck
            /\ n.late = m.late /\ n.unseen = m.unseen
    BY <1>3, TellFields
  <2>3. /\ writer' \in [Outcome!Epochs -> Outcome!Writer]
        /\ writer'[e] = Outcome!Tell(m, "written")
        /\ \A f \in Outcome!Epochs \ {e} : writer'[f] = writer[f]
    BY <2>1, <2>2, BecomesIs
  <2> QED
    BY <1>3, <1>4, <2>2, <2>3 DEF Sends, IsWritten
<1>5. CASE /\ ~RowOpen(e) /\ Outcome!Untouched
           /\ Outcome!Becomes(e, Outcome!Tell(writer[e], "lease lost"))
  <2>1. writer' = [writer EXCEPT ![e] = Outcome!Tell(writer[e], "lease lost")]
    BY <1>5 DEF Outcome!Becomes
  <2>2. LET n == Outcome!Tell(writer[e], "lease lost")
        IN  /\ n \in Outcome!Writer /\ n.at = "told" /\ n.told = "lease lost"
            /\ n.status = writer[e].status /\ n.stuck = writer[e].stuck
            /\ n.late = writer[e].late /\ n.unseen = writer[e].unseen
    BY <1>1, TellFields
  <2>3. /\ writer' \in [Outcome!Epochs -> Outcome!Writer]
        /\ writer'[e] = Outcome!Tell(writer[e], "lease lost")
        /\ \A f \in Outcome!Epochs \ {e} : writer'[f] = writer[f]
    BY <2>1, <2>2, BecomesIs
  <2> QED
    BY <1>1, <1>5, <2>2, <2>3 DEF Sends, IsDenied
<1> QED
  BY <1>2, <1>4, <1>5 DEF Outcome!Lands

\* The connection goes: the effect is unknown, and the write may be carried out yet.
LEMMA GoesIs ==
  ASSUME OutcomeBounds, Outcome!TypeOK, NEW e \in Outcome!Epochs, writer[e].epoch = e,
         NEW next \in Outcome!Writer, next.late <= 1, Outcome!Goes(e, next)
  PROVE  /\ Effect(e)
         /\ writer' \in [Outcome!Epochs -> Outcome!Writer]
         /\ \A f \in Outcome!Epochs \ {e} : writer'[f] = writer[f]
         /\ LET n == writer'[e]
            IN  /\ n.at = next.at /\ n.status = next.status /\ n.stuck = next.stuck
                /\ n.epoch = next.epoch /\ n.told = next.told
                /\ next.late = 0 => n.late \in {0, 1}
<1>1. Effect(e)
  BY DEF Outcome!Fence, RowOpen, Outcome!Goes, Effect
<1>2. CASE Outcome!Becomes(e, next)
  BY <1>1, <1>2, BecomesIs DEF Outcome!Becomes
<1>3. CASE Outcome!Becomes(e, [next EXCEPT !.late = @ + 1])
  <2>1. next.late + 1 \in 0 .. 2
    <3>1. next.late \in 0 .. 2
      BY DEF Outcome!Writer
    <3> QED
      BY <3>1
  <2> DEFINE n == [next EXCEPT !.late = next.late + 1]
  <2>2. writer' = [writer EXCEPT ![e] = n]
    BY <1>3 DEF Outcome!Becomes
  <2>3. /\ n \in Outcome!Writer
        /\ n.at = next.at /\ n.status = next.status /\ n.stuck = next.stuck
        /\ n.epoch = next.epoch /\ n.told = next.told /\ n.late = next.late + 1
    BY <2>1 DEF Outcome!Writer
  <2> HIDE DEF n
  <2>4. next.late = 0 => n.late \in {0, 1}
    <3>1. next.late = 0 => next.late + 1 = 1
      OBVIOUS
    <3> QED
      BY <2>3, <3>1
  <2> QED
    BY <1>1, <2>2, <2>3, <2>4, BecomesIs
<1> QED
  BY <1>2, <1>3 DEF Outcome!Goes

\* A step that tells the caller something, and nothing more.
LEMMA TellsIs ==
  ASSUME OutcomeBounds, Outcome!TypeOK, NEW e \in Outcome!Epochs, Outcome!Untouched,
         writer[e].at \in {"first", "ask", "second"},
         NEW what \in {"unrecorded", "unchanged", "raised"},
         what = "unchanged" => writer[e].at # "ask",
         Outcome!Becomes(e, Outcome!Tell(writer[e], what))
  PROVE  Sends(e)
<1>1. writer[e] \in Outcome!Writer
  BY WriterTypes
<1>2. LET n == Outcome!Tell(writer[e], what)
      IN  /\ n \in Outcome!Writer /\ n.at = "told" /\ n.told = what
          /\ n.status = writer[e].status /\ n.stuck = writer[e].stuck
          /\ n.late = writer[e].late /\ n.unseen = writer[e].unseen
  <2>1. what \in {"written", "lease lost", "unrecorded", "unchanged", "raised"}
    OBVIOUS
  <2> QED
    BY <1>1, <2>1, TellFields
<1>3. /\ writer' \in [Outcome!Epochs -> Outcome!Writer]
      /\ writer'[e] = Outcome!Tell(writer[e], what)
      /\ \A f \in Outcome!Epochs \ {e} : writer'[f] = writer[f]
  BY <1>2, BecomesIs DEF Outcome!Becomes
<1> QED
  BY <1>2, <1>3 DEF Sends, IsDenied, IsNotTold, Effect

\* A step that waits for a connection, or asks next.
LEMMA WaitsIs ==
  ASSUME OutcomeBounds, Outcome!TypeOK, NEW e \in Outcome!Epochs, Outcome!Untouched,
         writer[e].at \in {"first", "waiting", "ask"},
         writer[e].epoch = e, writer[e].told = "", writer[e].late <= 1,
         NEW step \in {"waiting", "ask"}, NEW d \in 0 .. Delays,
         Outcome!Becomes(e, [writer[e] EXCEPT !.at = step, !.delays = d])
  PROVE  Sends(e)
<1> DEFINE n == [writer[e] EXCEPT !.at = step, !.delays = d]
<1>1. /\ n \in Outcome!Writer /\ n.at = step /\ n.epoch = e /\ n.told = ""
      /\ n.late = writer[e].late
      /\ n.status = writer[e].status /\ n.stuck = writer[e].stuck
  BY WriterTypes DEF Outcome!Writer
<1>2. writer' = [writer EXCEPT ![e] = n]
  BY DEF Outcome!Becomes
<1> HIDE DEF n
<1>3. /\ writer' \in [Outcome!Epochs -> Outcome!Writer] /\ writer'[e] = n
      /\ \A f \in Outcome!Epochs \ {e} : writer'[f] = writer[f]
  BY <1>1, <1>2, BecomesIs
<1> QED
  BY <1>1, <1>3 DEF Sends, Waits, Effect

LEMMA AtMostOne ==
  ASSUME NEW x \in {0, 1}
  PROVE  x <= 1
OBVIOUS

LEMMA FirstSteps ==
  ASSUME OutcomeBounds, Outcome!TypeOK, NEW e \in Outcome!Epochs, SentOK(e),
         \/ Outcome!WriteOutcome(e) \/ Outcome!LosesConflict(e) \/ Outcome!Refuses(e)
         \/ Outcome!LosesConnection(e)
         \/ Outcome!ConnectRefused(e)
  PROVE  Sends(e)
<1>1. /\ writer[e].at = "first" /\ writer[e].epoch = e /\ writer[e].told = ""
      /\ writer[e].late = 0 /\ writer[e].late <= 1 /\ writer[e] \in Outcome!Writer
  <2>1. /\ writer[e].at = "first" /\ writer[e].epoch = e /\ writer[e].told = ""
        /\ writer[e].late = 0 /\ writer[e] \in Outcome!Writer
    BY WriterTypes
    DEF SentOK, Outcome!At, Outcome!WriteOutcome, Outcome!LosesConflict, Outcome!Refuses,
        Outcome!LosesConnection, Outcome!ConnectRefused
  <2>2. 0 <= 1
    OBVIOUS
  <2> QED
    BY <2>1, <2>2
<1>2. Outcome!PutBack(e, Outcome!Mirrored(e)) = writer[e]
  BY <1>1, BackIs
<1>3. CASE Outcome!WriteOutcome(e)
  BY <1>1, <1>3, LandsIs DEF Outcome!WriteOutcome
<1>4. CASE Outcome!LosesConflict(e)
  <2>1. Outcome!Untouched
    BY <1>4 DEF Outcome!LosesConflict
  <2>2. CASE Outcome!Becomes(e, Outcome!Tell(writer[e], "unchanged"))
    BY <1>1, <2>1, <2>2, TellsIs
  <2>3. CASE /\ writer[e].tries + 1 < OUTCOME_ATTEMPTS
             /\ Outcome!Becomes(e, [writer[e] EXCEPT !.tries = @ + 1])
    <3> DEFINE n == [writer[e] EXCEPT !.tries = writer[e].tries + 1]
    <3>1. writer[e].tries + 1 \in 0 .. OUTCOME_ATTEMPTS
      <4>1. writer[e].tries \in 0 .. OUTCOME_ATTEMPTS
        BY <1>1 DEF Outcome!Writer
      <4> QED
        BY <2>3, <4>1 DEF OutcomeBounds
    <3>2. /\ n \in Outcome!Writer /\ n.at = "first" /\ n.epoch = e /\ n.told = ""
          /\ n.late = writer[e].late
          /\ n.status = writer[e].status /\ n.stuck = writer[e].stuck
      BY <1>1, <3>1 DEF Outcome!Writer
    <3>3. writer' = [writer EXCEPT ![e] = n]
      BY <2>3 DEF Outcome!Becomes
    <3> HIDE DEF n
    <3>4. /\ writer' \in [Outcome!Epochs -> Outcome!Writer] /\ writer'[e] = n
          /\ \A f \in Outcome!Epochs \ {e} : writer'[f] = writer[f]
      BY <3>2, <3>3, BecomesIs
    <3> QED
      BY <1>1, <2>1, <3>2, <3>4 DEF Sends, TriesAgain
  <2> QED
    BY <1>2, <1>4, <2>2, <2>3 DEF Outcome!LosesConflict
<1>5. CASE Outcome!Refuses(e)
  <2>1. /\ Outcome!Untouched
        /\ \/ Outcome!Becomes(e, Outcome!Tell(writer[e], "unchanged"))
           \/ Outcome!Becomes(e, Outcome!Tell(writer[e], "raised"))
    BY <1>2, <1>5 DEF Outcome!Refuses
  <2> QED
    BY <1>1, <2>1, TellsIs
<1>6. CASE Outcome!LosesConnection(e)
  <2>1. CASE Outcome!Goes(e, Outcome!Tell(writer[e], "raised"))
    <3>1. LET n == Outcome!Tell(writer[e], "raised")
          IN  /\ n \in Outcome!Writer /\ n.at = "told" /\ n.told = "raised" /\ n.late <= 1
              /\ n.status = writer[e].status /\ n.stuck = writer[e].stuck
      BY <1>1, TellFields
    <3>2. /\ Effect(e)
          /\ writer' \in [Outcome!Epochs -> Outcome!Writer]
          /\ \A f \in Outcome!Epochs \ {e} : writer'[f] = writer[f]
          /\ LET n == writer'[e]
             IN  /\ n.at = "told" /\ n.told = "raised"
                 /\ n.status = writer[e].status /\ n.stuck = writer[e].stuck
      BY <1>1, <2>1, <3>1, GoesIs
    <3> QED
      BY <1>1, <3>2 DEF Sends, IsNotTold
  <2>2. CASE Outcome!Goes(e, [writer[e] EXCEPT !.at = "ask"])
    <3> DEFINE m == [writer[e] EXCEPT !.at = "ask"]
    <3>1. /\ m \in Outcome!Writer /\ m.at = "ask" /\ m.told = "" /\ m.late = 0 /\ m.late <= 1
          /\ m.epoch = e
          /\ m.status = writer[e].status /\ m.stuck = writer[e].stuck
      BY <1>1 DEF Outcome!Writer
    <3> HIDE DEF m
    <3>2. Outcome!Goes(e, m)
      BY <2>2 DEF m
    <3>3. /\ Effect(e)
          /\ writer' \in [Outcome!Epochs -> Outcome!Writer]
          /\ \A f \in Outcome!Epochs \ {e} : writer'[f] = writer[f]
          /\ LET n == writer'[e]
             IN  /\ n.at = "ask" /\ n.told = "" /\ n.epoch = e /\ n.late \in {0, 1}
                 /\ n.status = writer[e].status /\ n.stuck = writer[e].stuck
      BY <1>1, <3>1, <3>2, GoesIs
    <3>4. writer'[e].late <= 1
      BY <3>3, AtMostOne
    <3> QED
      BY <1>1, <3>3, <3>4 DEF Sends, Waits
  <2> QED
    BY <1>2, <1>6, <2>1, <2>2 DEF Outcome!LosesConnection, Outcome!AfterTheFirst
<1>7. CASE Outcome!ConnectRefused(e)
  <2>1. CASE Outcome!Becomes(e, Outcome!Tell(writer[e], "raised"))
    BY <1>1, <1>7, <2>1, TellsIs DEF Outcome!ConnectRefused
  <2>2. CASE Outcome!Becomes(e, [writer[e] EXCEPT !.at = "waiting"])
    <3>1. /\ [writer[e] EXCEPT !.at = "waiting"]
               = [writer[e] EXCEPT !.at = "waiting", !.delays = writer[e].delays]
          /\ writer[e].delays \in 0 .. Delays
      BY <1>1 DEF Outcome!Writer
    <3> QED
      BY <1>1, <1>7, <2>2, <3>1, WaitsIs DEF Outcome!ConnectRefused
  <2> QED
    BY <1>2, <1>7, <2>1, <2>2 DEF Outcome!ConnectRefused
<1> QED
  BY <1>3, <1>4, <1>5, <1>6, <1>7

LEMMA OneMoreDelay ==
  ASSUME OutcomeBounds, NEW d \in 0 .. Delays
  PROVE  (IF d < Delays THEN d + 1 ELSE d) \in 0 .. Delays
BY DEF OutcomeBounds

LEMMA SecondSteps ==
  ASSUME OutcomeBounds, Outcome!TypeOK, NEW e \in Outcome!Epochs, SentOK(e),
         \/ Outcome!Pause(e) \/ Outcome!Ask(e) \/ Outcome!AskFails(e) \/ Outcome!WriteAgain(e)
         \/ Outcome!WriteAgainFails(e)
  PROVE  Sends(e)
<1>1. /\ writer[e].at \in {"waiting", "ask", "second"} /\ writer[e].epoch = e
      /\ writer[e].told = "" /\ writer[e].late <= 1 /\ writer[e] \in Outcome!Writer
      /\ writer[e].delays \in 0 .. Delays
  BY WriterTypes DEF SentOK, Outcome!At, Outcome!Pause, Outcome!Ask, Outcome!AskFails,
     Outcome!WriteAgain, Outcome!WriteAgainFails, Outcome!Writer
<1>2. CASE Outcome!Pause(e)
  <2>1. PICK d \in 0 .. Delays : d = IF writer[e].delays < Delays THEN writer[e].delays + 1
                                     ELSE writer[e].delays
    BY <1>1, OneMoreDelay
  <2>2. /\ writer[e].at = "waiting" /\ Outcome!Untouched
        /\ Outcome!Becomes(e, [writer[e] EXCEPT !.at = "ask", !.delays = d])
    BY <1>1, <1>2, <2>1 DEF Outcome!Pause, Outcome!At, Outcome!Untouched
  <2> QED
    BY <1>1, <2>2, WaitsIs
<1>3. CASE Outcome!Ask(e)
  <2> DEFINE late == writer[e].late > 0
  <2> HIDE DEF late
  <2>0. PICK u \in BOOLEAN : u = late
    <3>1. CASE late
      <4>1. late = TRUE
        BY <3>1, Zenon
      <4> QED
        BY <4>1
    <3>2. CASE ~late
      <4>1. late = FALSE
        BY <3>2
      <4> QED
        BY <4>1
    <3> QED
      BY <3>1, <3>2
  <2> DEFINE v == [writer[e] EXCEPT !.unseen = u]
             s == [v EXCEPT !.at = "second"]
  <2>1. /\ writer[e].at = "ask" /\ Outcome!Untouched
        /\ (Outcome!AlreadyWritten(e) <=> Outcome!Stands(e))
        /\ writer' = [writer EXCEPT ![e] =
                        IF Outcome!AlreadyWritten(e) THEN Outcome!Tell(v, "written") ELSE s]
    BY <1>3, <2>0 DEF Outcome!Ask, Outcome!At, Outcome!Untouched, Outcome!AlreadyWritten,
       Outcome!Stands, Outcome!Becomes, late
  <2>2. /\ v \in Outcome!Writer /\ v.status = writer[e].status /\ v.stuck = writer[e].stuck
        /\ s \in Outcome!Writer /\ s.status = writer[e].status /\ s.stuck = writer[e].stuck
        /\ s.at = "second" /\ s.epoch = e /\ s.told = "" /\ s.late = writer[e].late
        /\ s.unseen = (writer[e].late > 0)
    BY <1>1, <2>0 DEF Outcome!Writer, late
  <2> HIDE DEF v, s
  <2>3. LET n == Outcome!Tell(v, "written")
        IN  /\ n \in Outcome!Writer /\ n.at = "told" /\ n.told = "written"
            /\ n.status = writer[e].status /\ n.stuck = writer[e].stuck
    BY <2>2, TellFields
  <2>4. CASE Outcome!Stands(e)
    <3>1. /\ writer' \in [Outcome!Epochs -> Outcome!Writer]
          /\ writer'[e] = Outcome!Tell(v, "written")
          /\ \A f \in Outcome!Epochs \ {e} : writer'[f] = writer[f]
      BY <2>1, <2>3, <2>4, BecomesIs
    <3> QED
      BY <2>1, <2>3, <2>4, <3>1 DEF Sends, Finds
  <2>5. CASE ~Outcome!Stands(e)
    <3>1. /\ writer' \in [Outcome!Epochs -> Outcome!Writer] /\ writer'[e] = s
          /\ \A f \in Outcome!Epochs \ {e} : writer'[f] = writer[f]
      BY <2>1, <2>2, <2>5, BecomesIs
    <3> QED
      BY <2>1, <2>2, <2>5, <3>1 DEF Sends, FindsNot
  <2> QED
    BY <2>4, <2>5
<1>4. CASE Outcome!AskFails(e)
  <2>1. writer[e].at = "ask" /\ Outcome!Untouched
    BY <1>4 DEF Outcome!AskFails, Outcome!At
  <2>2. CASE Outcome!Becomes(e, [writer[e] EXCEPT !.at = "waiting"])
    <3>1. [writer[e] EXCEPT !.at = "waiting"]
            = [writer[e] EXCEPT !.at = "waiting", !.delays = writer[e].delays]
      BY <1>1 DEF Outcome!Writer
    <3> QED
      BY <1>1, <2>1, <2>2, <3>1, WaitsIs
  <2>3. CASE Outcome!Becomes(e, Outcome!Tell(writer[e], "unrecorded"))
    BY <2>1, <2>3, TellsIs
  <2> QED
    BY <1>4, <2>2, <2>3 DEF Outcome!AskFails
<1>5. CASE Outcome!WriteAgain(e)
  BY <1>1, <1>5, LandsIs DEF Outcome!WriteAgain, Outcome!At
<1>6. CASE Outcome!WriteAgainFails(e)
  <2>1. writer[e].at = "second"
    BY <1>6 DEF Outcome!WriteAgainFails, Outcome!At
  <2>2. CASE Outcome!Goes(e, Outcome!Tell(writer[e], "unrecorded"))
    <3>1. LET n == Outcome!Tell(writer[e], "unrecorded")
          IN  /\ n \in Outcome!Writer /\ n.at = "told" /\ n.told = "unrecorded" /\ n.late <= 1
              /\ n.status = writer[e].status /\ n.stuck = writer[e].stuck
      BY <1>1, TellFields
    <3>2. /\ Effect(e)
          /\ writer' \in [Outcome!Epochs -> Outcome!Writer]
          /\ \A f \in Outcome!Epochs \ {e} : writer'[f] = writer[f]
          /\ LET n == writer'[e]
             IN  /\ n.at = "told" /\ n.told = "unrecorded"
                 /\ n.status = writer[e].status /\ n.stuck = writer[e].stuck
      BY <1>1, <2>2, <3>1, GoesIs
    <3> QED
      BY <2>1, <3>2 DEF Sends, IsNotTold
  <2>3. CASE Outcome!Untouched /\ Outcome!Becomes(e, Outcome!Tell(writer[e], "unchanged"))
    BY <2>1, <2>3, TellsIs
  <2> QED
    BY <1>6, <2>2, <2>3 DEF Outcome!WriteAgainFails
<1> QED
  BY <1>2, <1>3, <1>4, <1>5, <1>6

LEMMA LateSteps ==
  ASSUME OutcomeBounds, Outcome!TypeOK, NEW e \in Outcome!Epochs, Outcome!ServerCarriesOut(e)
  PROVE  Sends(e)
<1> DEFINE n == [writer[e] EXCEPT !.late = writer[e].late - 1]
<1>1. /\ writer[e].late > 0 /\ writer' = [writer EXCEPT ![e] = n]
  BY DEF Outcome!ServerCarriesOut, Outcome!Becomes
<1>2. Effect(e)
  BY DEF Outcome!ServerCarriesOut, Effect, Outcome!Fence, RowOpen
<1>3. writer[e] \in Outcome!Writer /\ writer[e].late - 1 \in 0 .. 2
  BY <1>1, WriterTypes
<1>4. /\ n \in Outcome!Writer /\ n.late = writer[e].late - 1
      /\ n.at = writer[e].at /\ n.epoch = writer[e].epoch /\ n.told = writer[e].told
      /\ n.unseen = writer[e].unseen
      /\ n.status = writer[e].status /\ n.stuck = writer[e].stuck
  BY <1>3 DEF Outcome!Writer
<1> HIDE DEF n
<1>5. /\ writer' \in [Outcome!Epochs -> Outcome!Writer] /\ writer'[e] = n
      /\ \A f \in Outcome!Epochs \ {e} : writer'[f] = writer[f]
  BY <1>1, <1>4, BecomesIs
<1> QED
  BY <1>1, <1>2, <1>4, <1>5 DEF Sends, IsLate
-----------------------------------------------------------------------------
(* The row.                                                                *)

\* What a claim, the reaper or an operator makes of it: its outcome stays, and it is
\* not given one.
MovesOn ==
  /\ row'.outcome = row.outcome /\ applied' = applied
  /\ \/ /\ row.status \notin Outcome!Writable /\ row'.status \in {"READY", "RUNNING"}
        /\ row'.epoch = row.epoch + 1
     \/ row.status = "RUNNING" /\ row'.status = "READY" /\ row'.epoch = row.epoch + 1
     \/ row.status = "RUNNING" /\ row'.status = "LOST" /\ row'.epoch = row.epoch
     \/ row.status = "LOST" /\ row'.status = "READY" /\ row'.epoch = row.epoch + 1

\* The write of another attempt, or none.
Elsewhere(e) ==
  \/ Outcome!Untouched
  \/ \E f \in Outcome!Epochs \ {e} : RowOpen(f) /\ Outcome!TakesEffect(f)

LEMMA TakesEffectIs ==
  ASSUME OutcomeBounds, Outcome!TypeOK, NEW f \in Outcome!Epochs, RowOpen(f),
         Outcome!TakesEffect(f)
  PROVE  /\ row'.status = writer[f].status /\ row'.status \notin Outcome!Writable
         /\ row'.epoch = Outcome!Left(f) /\ row'.outcome = f
         /\ row.epoch = f
         /\ applied'[f] = applied[f] + 1
         /\ \A e \in Outcome!Epochs \ {f} : applied'[e] = applied[e]
<1>1. /\ writer[f].status \in {"SUCCESSFUL", "FAILED", "READY"}
      /\ applied \in [Outcome!Epochs -> 0 .. 2]
  BY WriterTypes DEF Outcome!Writer
<1> QED
  BY <1>1 DEF RowOpen, Outcome!TakesEffect, Outcome!Writable

\* An attempt whose own write does nothing keeps what is said of it, whatever the
\* others do to the row.
LEMMA EpochKeepsTo ==
  ASSUME OutcomeBounds, Outcome!TypeOK, NEW e \in Outcome!Epochs, SentOK(e), EpochOK(e),
         writer'[e] = writer[e], Elsewhere(e)
  PROVE  SentOK(e)' /\ EpochOK(e)'
<1>1. CASE Outcome!Untouched
  BY <1>1 DEF Outcome!Untouched, SentOK, EpochOK, RowOpen, Outcome!Stands, Outcome!Left, Denied
<1>2. ASSUME NEW f \in Outcome!Epochs \ {e}, RowOpen(f), Outcome!TakesEffect(f)
      PROVE  SentOK(e)' /\ EpochOK(e)'
  <2>1. /\ row'.status \notin Outcome!Writable /\ row'.epoch = Outcome!Left(f) /\ row'.outcome = f
        /\ row.epoch = f /\ applied'[e] = applied[e] /\ f # e
    BY <1>2, TakesEffectIs
  <2>2. row'.epoch >= row.epoch /\ row.epoch \in Int /\ row'.epoch \in Int /\ e \in Int
    BY <2>1, WriterTypes
  <2>3. ~RowOpen(e)' /\ ~Outcome!Stands(e)' /\ row'.outcome # e
    BY <2>1 DEF RowOpen, Outcome!Stands
  <2>4. SentOK(e)'
    BY <1>2, <2>1, <2>3 DEF SentOK, Denied
  <2>5. EpochOK(e)'
    BY <2>1, <2>2, <2>3 DEF EpochOK
  <2> QED
    BY <2>4, <2>5
<1> QED
  BY <1>1, <1>2 DEF Elsewhere

\* A claim, the reaper or an operator: no attempt's outcome is given to the row, and
\* the one that it has is not as its write left it any more.
LEMMA EpochKeepsOn ==
  ASSUME OutcomeBounds, Outcome!TypeOK, NEW e \in Outcome!Epochs, SentOK(e), EpochOK(e),
         writer'[e] = writer[e], MovesOn,
         e # row.epoch + 1 \/ row'.status # "RUNNING"
  PROVE  SentOK(e)' /\ EpochOK(e)'
<1>1. /\ row.epoch \in Int /\ e \in Int /\ Outcome!Left(e) \in Int
      /\ writer[e].status \notin Outcome!Writable
      /\ row'.outcome = row.outcome /\ applied'[e] = applied[e]
      /\ Outcome!Left(e)' = Outcome!Left(e)
  <2>1. /\ row.epoch \in Int /\ e \in Int /\ Outcome!Left(e) \in {e, e + 1}
        /\ writer[e] \in Outcome!Writer
    BY WriterTypes
  <2>2. writer[e].status \notin Outcome!Writable
    BY <2>1 DEF Outcome!Writer, Outcome!Writable
  <2>3. /\ row'.outcome = row.outcome /\ applied'[e] = applied[e]
        /\ Outcome!Left(e)' = Outcome!Left(e)
    BY DEF MovesOn, Outcome!Left
  <2>4. Outcome!Left(e) \in Int
    BY <2>1
  <2> QED
    BY <2>1, <2>2, <2>3, <2>4
<1>2. row'.epoch \in {row.epoch, row.epoch + 1}
  BY DEF MovesOn
<1>3. row'.epoch \in Int /\ row'.epoch >= row.epoch
  BY <1>1, <1>2
<1>4. RowOpen(e)' => RowOpen(e)
  <2>1. ASSUME RowOpen(e)'
        PROVE  row.status = "RUNNING" /\ row'.epoch = row.epoch
    BY <1>1, <2>1 DEF MovesOn, RowOpen, Outcome!Writable
  <2> QED
    BY <2>1 DEF RowOpen, Outcome!Writable
<1>5. row.outcome = e => row'.epoch > Outcome!Left(e)
  <2>1. CASE row.outcome = e /\ Outcome!Stands(e)
    <3>1. row.epoch = Outcome!Left(e) /\ row.status \notin Outcome!Writable
      BY <1>1, <2>1 DEF Outcome!Stands
    <3>2. row'.epoch = row.epoch + 1
      BY <3>1 DEF MovesOn, Outcome!Writable
    <3> QED
      BY <1>1, <3>1, <3>2
  <2>2. CASE row.outcome = e /\ row.epoch > Outcome!Left(e)
    BY <1>1, <1>3, <2>2
  <2> QED
    BY <2>1, <2>2 DEF EpochOK
<1>6. ~Outcome!Stands(e)'
  BY <1>1, <1>3, <1>5 DEF Outcome!Stands
<1>7. SentOK(e)'
  BY <1>1, <1>4, <1>6 DEF SentOK, Denied
<1>8. EpochOK(e)'
  BY <1>1, <1>3, <1>4, <1>5 DEF EpochOK
<1> QED
  BY <1>7, <1>8

\* The attempt whose write it is.
LEMMA EffectOn ==
  ASSUME OutcomeBounds, Outcome!TypeOK, NEW e \in Outcome!Epochs, EpochOK(e), RowOpen(e),
         Outcome!TakesEffect(e),
         writer'[e].status = writer[e].status, writer'[e].stuck = writer[e].stuck,
         writer'[e].at # "none"
  PROVE  /\ EpochOK(e)' /\ applied'[e] = 1 /\ ~RowOpen(e)' /\ writer[e].at # "none"
<1>1. /\ row'.status = writer[e].status /\ row'.status \notin Outcome!Writable
      /\ row'.epoch = Outcome!Left(e) /\ row'.outcome = e
      /\ applied'[e] = applied[e] + 1
  BY TakesEffectIs
<1>2. applied[e] = 0 /\ writer[e].at # "none"
  BY DEF EpochOK
<1>3. applied'[e] = 1 /\ ~RowOpen(e)' /\ Outcome!Left(e)' = Outcome!Left(e)
  BY <1>1, <1>2 DEF RowOpen, Outcome!Left
<1>4. Outcome!Stands(e)'
  BY <1>1, <1>3 DEF Outcome!Stands
<1>5. row'.epoch >= e
  BY <1>1, WriterTypes
<1>6. applied'[e] <= 1
  BY <1>3
<1> QED
  BY <1>1, <1>2, <1>3, <1>4, <1>5, <1>6 DEF EpochOK

LEMMA NoEffectOn ==
  ASSUME OutcomeBounds, Outcome!TypeOK, NEW e \in Outcome!Epochs, EpochOK(e), Outcome!Untouched,
         writer'[e].status = writer[e].status, writer'[e].stuck = writer[e].stuck,
         writer'[e].at # "none", writer[e].at # "none"
  PROVE  /\ EpochOK(e)' /\ applied'[e] = applied[e] /\ (RowOpen(e)' <=> RowOpen(e))
         /\ (Outcome!Stands(e)' <=> Outcome!Stands(e))
BY DEF EpochOK, Outcome!Untouched, RowOpen, Outcome!Stands, Outcome!Left

\* What numbers it takes.
LEMMA ZeroIsNotOne == 0 # 1
OBVIOUS

LEMMA SomeOrNone ==
  ASSUME NEW x \in 0 .. 2
  PROVE  x > 0 \/ x = 0
OBVIOUS

LEMMA OneLess ==
  ASSUME NEW x \in 0 .. 2, x > 0, NEW y, y = x - 1
  PROVE  x # 0 /\ (x <= 1 => y <= 1)
OBVIOUS

LEMMA EpochKeepsOwn ==
  ASSUME OutcomeBounds, Outcome!TypeOK, NEW e \in Outcome!Epochs, SentOK(e), EpochOK(e), Sends(e)
  PROVE  /\ SentOK(e)' /\ EpochOK(e)'
         /\ Outcome!Untouched \/ (RowOpen(e) /\ Outcome!TakesEffect(e))
<1>1. /\ writer'[e].status = writer[e].status /\ writer'[e].stuck = writer[e].stuck
      /\ writer[e].at # "none" /\ writer'[e].at # "none"
      /\ writer[e].late \in 0 .. 2
  <2>1. writer[e].late \in 0 .. 2
    BY WriterTypes
  <2>2. writer[e].at = "none" => ~(writer[e].late > 0)
    <3>1. writer[e].at = "none" => writer[e].late = 0
      BY DEF SentOK
    <3> HIDE <2>1
    <3>2. ~(0 > 0)
      OBVIOUS
    <3> QED
      BY <3>1, <3>2
  <2> QED
    BY <2>1, <2>2 DEF Sends, TriesAgain, IsWritten, IsDenied, IsNotTold, Waits, Finds, FindsNot,
                      IsLate
<1>2. Outcome!Untouched \/ (RowOpen(e) /\ Outcome!TakesEffect(e))
  BY DEF Sends, TriesAgain, IsWritten, IsDenied, IsNotTold, Waits, Finds, FindsNot, IsLate,
     Effect
<1>3. /\ EpochOK(e)'
      /\ \/ /\ applied'[e] = applied[e] /\ (RowOpen(e)' <=> RowOpen(e))
            /\ (Outcome!Stands(e)' <=> Outcome!Stands(e))
            /\ Outcome!Untouched
         \/ applied'[e] = 1 /\ ~RowOpen(e)' /\ RowOpen(e)
  <2>1. CASE Outcome!Untouched
    BY <1>1, <2>1, NoEffectOn
  <2>2. CASE RowOpen(e) /\ Outcome!TakesEffect(e)
    BY <1>1, <2>2, EffectOn
  <2> QED
    BY <1>2, <2>1, <2>2
<1>4. CASE TriesAgain(e)
  <2>1. applied'[e] = applied[e]
    BY <1>1, <1>4, NoEffectOn DEF TriesAgain
  <2> QED
    BY <1>1, <1>2, <1>3, <1>4, <2>1 DEF TriesAgain, SentOK, Denied
<1>5. CASE IsWritten(e)
  <2>1. applied'[e] = 1
    BY <1>1, <1>5, EffectOn DEF IsWritten
  <2> QED
    BY <1>2, <1>3, <1>5, <2>1 DEF IsWritten, SentOK, Denied
<1>6. CASE IsDenied(e)
  <2>1. /\ applied'[e] = applied[e] /\ (RowOpen(e)' <=> RowOpen(e))
        /\ (Outcome!Stands(e)' <=> Outcome!Stands(e))
    BY <1>1, <1>6, NoEffectOn DEF IsDenied
  <2>2. writer[e].at = "first" => ~Outcome!Stands(e) /\ writer[e].late = 0
    <3>1. writer[e].at = "first" => applied[e] = 0 /\ writer[e].late = 0
      BY DEF SentOK
    <3>2. applied[e] = 0 => ~Outcome!Stands(e)
      BY ZeroIsNotOne DEF EpochOK, Outcome!Stands
    <3> QED
      BY <3>1, <3>2
  <2>3. writer[e].unseen \/ (writer[e].late = 0 /\ ~Outcome!Stands(e))
    BY <1>6, <2>2 DEF IsDenied, SentOK
  <2> QED
    BY <1>2, <1>3, <1>6, <2>1, <2>3 DEF IsDenied, SentOK, Denied
<1>7. CASE IsNotTold(e)
  BY <1>2, <1>3, <1>7 DEF IsNotTold, SentOK, Denied
<1>8. CASE Waits(e)
  BY <1>2, <1>3, <1>8 DEF Waits, SentOK, Denied
<1>9. CASE Finds(e)
  <2>1. applied'[e] = 1
    BY <1>1, <1>9, NoEffectOn DEF Finds, Outcome!Stands, EpochOK
  <2> QED
    BY <1>2, <1>3, <1>9, <2>1 DEF Finds, SentOK, Denied
<1>10. CASE FindsNot(e)
  <2>1. (Outcome!Stands(e)' <=> Outcome!Stands(e)) /\ writer[e].late <= 1
    BY <1>1, <1>10, NoEffectOn DEF FindsNot, SentOK
  <2>2. writer'[e].unseen \/ writer'[e].late = 0
    <3>1. writer'[e].unseen = (writer[e].late > 0) /\ writer'[e].late = writer[e].late
      BY <1>10 DEF FindsNot
    <3>2. writer[e].late > 0 \/ writer[e].late = 0
      BY <1>1, SomeOrNone
    <3> QED
      BY <3>1, <3>2
  <2> QED
    BY <1>2, <1>3, <1>10, <2>1, <2>2 DEF FindsNot, SentOK, Denied
<1>11. CASE IsLate(e)
  <2>1. /\ writer'[e].at = writer[e].at /\ writer'[e].epoch = writer[e].epoch
        /\ writer'[e].told = writer[e].told /\ writer'[e].unseen = writer[e].unseen
    BY <1>11 DEF IsLate
  <2>2. /\ writer[e].late # 0 /\ (writer[e].late <= 1 => writer'[e].late <= 1)
    BY <1>1, <1>11, OneLess DEF IsLate
  <2>3. /\ writer[e].at # "first"
        /\ writer[e].at = "second" \/ Denied(writer[e]) => writer[e].unseen
    BY <2>2 DEF SentOK
  <2> QED
    BY <1>1, <1>2, <1>3, <2>1, <2>2, <2>3 DEF SentOK, Denied
<1> QED
  BY <1>2, <1>3, <1>4, <1>5, <1>6, <1>7, <1>8, <1>9, <1>10, <1>11 DEF Sends
-----------------------------------------------------------------------------
(* The invariant.                                                          *)

RowOK == row.status \in Outcome!Writable => row.epoch \in Outcome!Epochs

LEMMA RowTypes ==
  ASSUME OutcomeBounds, Outcome!TypeOK
  PROVE  /\ row.epoch \in 0 .. LastEpoch + 1 /\ row.outcome \in 0 .. LastEpoch
         /\ row.status \in {"READY", "RUNNING", "LOST", "SUCCESSFUL", "FAILED"}
         /\ row = [status |-> row.status, epoch |-> row.epoch, outcome |-> row.outcome]
         /\ LastEpoch \in Nat /\ row.epoch \in Int
BY DEF OutcomeBounds, Outcome!TypeOK

LEMMA OthersKeep ==
  ASSUME OutcomeBounds, OutcomeHolds, Outcome!Claim \/ Outcome!Reap \/ Outcome!Retry
  PROVE  OutcomeHolds'
<1>1. Outcome!TypeOK /\ RowOK /\ \A e \in Outcome!Epochs : SentOK(e) /\ EpochOK(e)
  BY DEF OutcomeHolds, RowOK
<1>2. /\ row.epoch \in 0 .. LastEpoch + 1 /\ row.outcome \in 0 .. LastEpoch
      /\ row.status \in {"READY", "RUNNING", "LOST", "SUCCESSFUL", "FAILED"}
      /\ row = [status |-> row.status, epoch |-> row.epoch, outcome |-> row.outcome]
      /\ LastEpoch \in Nat /\ row.epoch \in Int
  BY <1>1, RowTypes
<1>3. faults' \in 0 .. MaxFaults /\ applied' = applied
  BY <1>1 DEF Outcome!TypeOK, Outcome!Claim, Outcome!Reap, Outcome!Retry
<1>4. CASE Outcome!Reap \/ Outcome!Retry
  <2>1. PICK s \in {"READY", "LOST"}, epoch \in {row.epoch, row.epoch + 1} :
          /\ row' = [status |-> s, epoch |-> epoch, outcome |-> row.outcome]
          /\ \/ row.status \notin Outcome!Writable /\ epoch = row.epoch + 1 /\ s = "READY"
             \/ row.status \in {"RUNNING", "LOST"} /\ s = "READY" /\ epoch = row.epoch + 1
             \/ row.status = "RUNNING" /\ s = "LOST" /\ epoch = row.epoch
          /\ epoch \in 0 .. LastEpoch + 1
    <3>1. CASE Outcome!Reap
      <4>1. row.epoch \in Outcome!Epochs /\ row.status = "RUNNING"
        BY <1>1, <3>1 DEF Outcome!Reap, RowOK, Outcome!Writable
      <4>2. row.epoch + 1 \in 0 .. LastEpoch + 1
        BY <1>2, <4>1 DEF Outcome!Epochs
      <4>3. CASE row' = [row EXCEPT !.status = "READY", !.epoch = @ + 1]
        <5>1. row' = [status |-> "READY", epoch |-> row.epoch + 1, outcome |-> row.outcome]
          BY <1>2, <4>3
        <5> QED
          BY <1>2, <4>1, <4>2, <5>1 DEF Outcome!Writable
      <4>4. CASE row' = [row EXCEPT !.status = "LOST"]
        <5>1. row' = [status |-> "LOST", epoch |-> row.epoch, outcome |-> row.outcome]
          BY <1>2, <4>4
        <5> QED
          BY <1>2, <4>1, <5>1 DEF Outcome!Writable
      <4> QED
        BY <3>1, <4>3, <4>4 DEF Outcome!Reap
    <3>2. CASE Outcome!Retry
      <4>1. /\ row.status \in {"FAILED", "LOST"}
            /\ row' = [row EXCEPT !.status = "READY", !.epoch = @ + 1]
        BY <3>2 DEF Outcome!Retry
      <4>2. row.epoch + 1 \in 0 .. LastEpoch + 1
        BY <1>2, <3>2 DEF Outcome!Retry
      <4>3. row' = [status |-> "READY", epoch |-> row.epoch + 1, outcome |-> row.outcome]
        BY <1>2, <4>1
      <4> QED
        BY <4>1, <4>2, <4>3 DEF Outcome!Writable
    <3> QED
      BY <1>4, <3>1, <3>2
  <2>2. writer' = writer /\ row'.status = s /\ row'.epoch = epoch /\ row'.outcome = row.outcome
    BY <1>4, <2>1 DEF Outcome!Reap, Outcome!Retry
  <2>3. Outcome!TypeOK'
    BY <1>1, <1>2, <1>3, <2>1, <2>2 DEF Outcome!TypeOK
  <2>4. RowOK'
    BY <1>1, <2>1, <2>2 DEF RowOK, Outcome!Writable
  <2>5. MovesOn
    BY <1>3, <2>1, <2>2 DEF MovesOn, Outcome!Writable
  <2>6. row'.status # "RUNNING"
    BY <2>2
  <2>7. ASSUME NEW e \in Outcome!Epochs
        PROVE  SentOK(e)' /\ EpochOK(e)'
    BY <1>1, <2>2, <2>5, <2>6, EpochKeepsOn
  <2> QED
    BY <2>3, <2>4, <2>7 DEF OutcomeHolds, RowOK
<1>5. CASE Outcome!Claim
  <2>1. PICK s \in {"SUCCESSFUL", "FAILED", "READY"}, node \in BOOLEAN, stuck \in BOOLEAN :
          writer' = [writer EXCEPT ![row.epoch + 1] =
            [Outcome!NoWriter EXCEPT !.at = "first", !.status = s, !.node = node,
                             !.stuck = stuck, !.epoch = row.epoch + 1]]
    BY <1>5 DEF Outcome!Claim
  <2>2. /\ row.status = "READY" /\ row.epoch < LastEpoch
        /\ row' = [row EXCEPT !.status = "RUNNING", !.epoch = @ + 1]
    BY <1>5 DEF Outcome!Claim
  <2>3. row' = [status |-> "RUNNING", epoch |-> row.epoch + 1, outcome |-> row.outcome]
    BY <1>2, <2>2
  <2>4. PICK k \in Outcome!Epochs : k = row.epoch + 1
    BY <1>2, <2>2 DEF Outcome!Epochs
  <2>5. k \in 0 .. LastEpoch + 1
    BY <1>1, WriterTypes
  <2> DEFINE n == [Outcome!NoWriter EXCEPT !.at = "first", !.status = s, !.node = node,
                                   !.stuck = stuck, !.epoch = k]
  <2>6. /\ n \in Outcome!Writer /\ n.at = "first" /\ n.late = 0 /\ n.told = "" /\ n.epoch = k
        /\ ~n.unseen
    <3>1. /\ 0 \in 0 .. 2 /\ 0 \in 0 .. OUTCOME_ATTEMPTS /\ 0 \in 0 .. Delays
      BY DEF OutcomeBounds
    <3> QED
      BY <2>5, <3>1 DEF Outcome!NoWriter, Outcome!Writer
  <2>7. writer' = [writer EXCEPT ![k] = n]
    BY <2>1, <2>4
  <2> HIDE DEF n
  <2>8. /\ writer' \in [Outcome!Epochs -> Outcome!Writer] /\ writer'[k] = n
        /\ \A e \in Outcome!Epochs \ {k} : writer'[e] = writer[e]
    BY <1>1, <2>6, <2>7, BecomesIs
  <2>9. /\ row'.status = "RUNNING" /\ row'.epoch = k /\ row'.outcome = row.outcome
        /\ applied' = applied
    BY <1>3, <2>3, <2>4
  <2>10. Outcome!TypeOK'
    BY <1>1, <1>2, <1>3, <2>3, <2>4, <2>5, <2>8 DEF Outcome!TypeOK
  <2>11. RowOK'
    BY <2>9 DEF RowOK
  <2>12. MovesOn
    BY <2>2, <2>4, <2>9 DEF MovesOn, Outcome!Writable
  <2>13. ASSUME NEW e \in Outcome!Epochs \ {k}
         PROVE  SentOK(e)' /\ EpochOK(e)'
    BY <1>1, <2>4, <2>8, <2>12, <2>13, EpochKeepsOn
  <2>14. applied[k] = 0 /\ row.outcome # k
    <3>1. k \in Int /\ applied[k] \in Int /\ applied[k] >= 0 /\ applied[k] <= 1
      BY <1>1, WriterTypes DEF EpochOK
    <3>2. ~(row.epoch >= k)
      BY <1>2, <2>4
    <3>3. applied[k] # 1 /\ row.outcome # k
      BY <1>1, <3>2 DEF EpochOK
    <3> QED
      BY <3>1, <3>3
  <2>15. SentOK(k)'
    BY <2>6, <2>8, <2>9, <2>14 DEF SentOK, Denied
  <2>16. EpochOK(k)'
    <3>1. row'.epoch >= k /\ applied'[k] <= 1
      BY <2>9, <2>14, <1>1, WriterTypes
    <3> QED
      BY <2>6, <2>8, <2>9, <2>14, <3>1 DEF EpochOK
  <2> QED
    BY <2>10, <2>11, <2>13, <2>15, <2>16 DEF OutcomeHolds, RowOK
<1> QED
  BY <1>4, <1>5

LEMMA Writes ==
  ASSUME OutcomeBounds, OutcomeHolds, NEW e \in Outcome!Epochs, Sends(e),
         faults' \in 0 .. MaxFaults
  PROVE  OutcomeHolds'
<1>1. Outcome!TypeOK /\ RowOK /\ \A f \in Outcome!Epochs : SentOK(f) /\ EpochOK(f)
  BY DEF OutcomeHolds, RowOK
<1>2. SentOK(e)' /\ EpochOK(e)' /\ (Outcome!Untouched \/ (RowOpen(e) /\ Outcome!TakesEffect(e)))
  BY <1>1, EpochKeepsOwn
<1>3. \A f \in Outcome!Epochs \ {e} : Elsewhere(f)
  BY <1>2 DEF Elsewhere
<1>4. \A f \in Outcome!Epochs \ {e} : SentOK(f)' /\ EpochOK(f)'
  BY <1>1, <1>3, EpochKeepsTo DEF Sends
<1>5. writer' \in [Outcome!Epochs -> Outcome!Writer]
  BY DEF Sends
<1>6. CASE Outcome!Untouched
  BY <1>1, <1>2, <1>4, <1>5, <1>6 DEF Outcome!Untouched, OutcomeHolds, RowOK, Outcome!TypeOK
<1>7. CASE RowOpen(e) /\ Outcome!TakesEffect(e)
  <2>1. /\ writer[e].status \in {"SUCCESSFUL", "FAILED", "READY"}
        /\ Outcome!Left(e) \in 0 .. LastEpoch + 1 /\ e \in 0 .. LastEpoch
    <3>1. writer[e] \in Outcome!Writer /\ Outcome!Left(e) \in 0 .. LastEpoch + 1
      BY <1>1, WriterTypes
    <3>2. e \in 0 .. LastEpoch
      BY DEF OutcomeBounds, Outcome!Epochs
    <3> QED
      BY <3>1, <3>2 DEF Outcome!Writer
  <2>2. row' \in [status : {"READY", "RUNNING", "LOST", "SUCCESSFUL", "FAILED"},
                  epoch : 0 .. LastEpoch + 1, outcome : 0 .. LastEpoch]
    BY <1>7, <2>1 DEF Outcome!TakesEffect
  <2>3. applied' \in [Outcome!Epochs -> 0 .. 2]
    <3>1. applied[e] = 0 /\ applied \in [Outcome!Epochs -> 0 .. 2]
      BY <1>1, <1>7 DEF EpochOK, Outcome!TypeOK
    <3>2. applied' = [applied EXCEPT ![e] = 1]
      BY <1>7, <3>1 DEF Outcome!TakesEffect
    <3> QED
      BY <3>1, <3>2
  <2>4. row'.status \notin Outcome!Writable
    BY <1>1, <1>7, TakesEffectIs
  <2> QED
    BY <1>2, <1>4, <1>5, <2>2, <2>3, <2>4 DEF OutcomeHolds, RowOK, Outcome!TypeOK
<1> QED
  BY <1>2, <1>6, <1>7

LEMMA OutcomeNext ==
  ASSUME OutcomeBounds, OutcomeHolds, [Outcome!Next]_outcome
  PROVE  OutcomeHolds'
<1>1. CASE UNCHANGED outcome
  BY <1>1 DEF outcome, OutcomeHolds, Outcome!TypeOK, SentOK, EpochOK, Denied, RowOpen,
     Outcome!Stands, Outcome!Left
<1>2. CASE Outcome!Claim \/ Outcome!Reap \/ Outcome!Retry
  BY <1>2, OthersKeep
<1>3. ASSUME NEW e \in Outcome!Epochs,
             \/ Outcome!WriteOutcome(e) \/ Outcome!LosesConflict(e) \/ Outcome!Refuses(e)
             \/ Outcome!LosesConnection(e)
             \/ Outcome!ConnectRefused(e) \/ Outcome!Pause(e) \/ Outcome!Ask(e)
             \/ Outcome!AskFails(e)
             \/ Outcome!WriteAgain(e) \/ Outcome!WriteAgainFails(e) \/ Outcome!ServerCarriesOut(e)
      PROVE  OutcomeHolds'
  <2>1. Outcome!TypeOK /\ SentOK(e)
    BY DEF OutcomeHolds
  <2>2. Sends(e)
    BY <1>3, <2>1, FirstSteps, SecondSteps, LateSteps
  <2>3. faults' = faults \/ Outcome!Fault
    BY <1>3 DEF Outcome!WriteOutcome, Outcome!LosesConflict, Outcome!Refuses,
       Outcome!LosesConnection, Outcome!ConnectRefused, Outcome!Pause, Outcome!Ask,
                Outcome!AskFails, Outcome!WriteAgain, Outcome!WriteAgainFails,
                Outcome!ServerCarriesOut
  <2>4. faults' \in 0 .. MaxFaults
    BY <2>1, <2>3 DEF Outcome!Fault, Outcome!TypeOK, OutcomeBounds
  <2> QED
    BY <2>2, <2>4, Writes
<1> QED
  BY <1>1, <1>2, <1>3 DEF Outcome!Next

LEMMA OutcomeInit ==
  ASSUME OutcomeBounds, Outcome!Init
  PROVE  OutcomeHolds
<1>1. /\ row = [status |-> "READY", epoch |-> 0, outcome |-> 0]
      /\ applied = [e \in Outcome!Epochs |-> 0] /\ faults = 0
      /\ writer = [e \in Outcome!Epochs |-> Outcome!NoWriter]
  BY DEF Outcome!Init
<1>2. 0 \in 0 .. LastEpoch + 1 /\ 0 \in 0 .. LastEpoch /\ 0 \in 0 .. 2 /\ 0 \in 0 .. MaxFaults
      /\ 0 \in 0 .. OUTCOME_ATTEMPTS /\ 0 \in 0 .. Delays
  BY DEF OutcomeBounds
<1>3. /\ Outcome!NoWriter \in Outcome!Writer /\ Outcome!NoWriter.at = "none"
      /\ Outcome!NoWriter.late = 0 /\ Outcome!NoWriter.told = ""
  BY <1>2 DEF Outcome!NoWriter, Outcome!Writer
<1>4. Outcome!TypeOK
  BY <1>1, <1>2, <1>3 DEF Outcome!TypeOK
<1>5. ASSUME NEW e \in Outcome!Epochs
      PROVE  SentOK(e) /\ EpochOK(e)
  <2>1. e \in Int /\ e >= 1 /\ ~(row.outcome = e) /\ row.status \notin Outcome!Writable
    <3>1. e \in Int /\ e >= 1
      BY <1>4, WriterTypes
    <3>2. row.outcome = 0 /\ row.status = "READY"
      BY <1>1
    <3>3. 0 # e
      BY <3>1
    <3> QED
      BY <3>1, <3>2, <3>3 DEF Outcome!Writable
  <2>2. writer[e].at = "none" /\ writer[e].late = 0 /\ writer[e].told = "" /\ applied[e] = 0
    BY <1>1, <1>3
  <2>3. applied[e] <= 1 /\ applied[e] # 1
    <3>1. 0 <= 1 /\ 0 # 1
      OBVIOUS
    <3> QED
      BY <2>2, <3>1
  <2> QED
    BY <2>1, <2>2, <2>3 DEF SentOK, EpochOK, RowOpen, Denied
<1> QED
  BY <1>1, <1>4, <1>5 DEF OutcomeHolds, Outcome!Writable

\* The inductive invariant, over the behaviours of the run's that write outcomes: the
\* parts do not meet.
THEOREM OutcomeInvariant ==
  ASSUME OutcomeBounds
  PROVE  PartSpec => [](part = "outcome" => OutcomeHolds)
<1>1. PartInit => (part = "outcome" => OutcomeHolds)
  BY OutcomeInit DEF PartInit
<1>2. ASSUME part = "outcome" => OutcomeHolds,
             [PartNext]_<<part, vars, batches, admission, outcome, backstop>>
      PROVE  (part = "outcome" => OutcomeHolds)'
  <2>1. part' = part
    BY <1>2 DEF PartNext
  <2>2. CASE part = "outcome"
    <3>1. OutcomeHolds /\ [Outcome!Next]_outcome
      BY <1>2, <2>2 DEF PartNext
    <3> QED
      BY <3>1, OutcomeNext
  <2> QED
    BY <2>1, <2>2
<1> QED
  BY <1>1, <1>2, PTL DEF PartSpec

\* Every variable of the part keeps its type.
THEOREM OutcomeTypeCorrect ==
  ASSUME OutcomeBounds
  PROVE  PartSpec => [](part = "outcome" => Outcome!TypeOK)
<1>1. OutcomeHolds => Outcome!TypeOK
  BY DEF OutcomeHolds
<1> QED
  BY <1>1, OutcomeInvariant, PTL

\* However often an outcome is sent, it takes effect once at most, and what the caller
\* is told of it is so, but for the case that _write_outcome_reconnecting documents.
THEOREM OutcomesAreTold ==
  ASSUME OutcomeBounds
  PROVE  PartSpec => []OutcomesAreToldTruly
<1>1. ASSUME part = "outcome" => OutcomeHolds
      PROVE  OutcomesAreToldTruly
  <2>1. SUFFICES ASSUME part = "outcome"
                 PROVE  Outcome!OutcomesAreToldTruly
    BY DEF OutcomesAreToldTruly
  <2>2. ASSUME NEW e \in Outcome!Epochs
        PROVE  LET told == writer[e].told
               IN  /\ applied[e] <= 1
                   /\ told = "written" => applied[e] = 1
                   /\ told = "lease lost" => ~(row.epoch = e /\ row.status \in Outcome!Writable)
                   /\ told \in {"lease lost", "unchanged"} /\ Outcome!Stands(e) =>
                        writer[e].unseen
    <3>1. SentOK(e) /\ EpochOK(e)
      BY <1>1, <2>1 DEF OutcomeHolds
    <3> QED
      BY <3>1 DEF SentOK, EpochOK, RowOpen, Denied
  <2> QED
    BY <2>2 DEF Outcome!OutcomesAreToldTruly
<1> QED
  BY <1>1, OutcomeInvariant, PTL

-----------------------------------------------------------------------------
(* A batch: what is known of a process, of the rows and of a report.       *)

\* A batch's process holds the batch row as r.
BatchRowOK(p) ==
  \A r \in tx[p].row :
    /\ tx[p].row = {r} /\ ~tx[p].changed
    /\ r.completes = 0 /\ r.successes = 0
    /\ r.total # None =>
         r.status # "open" /\ r.total = Cardinality((members \cup tx[p].members) \ r.unseen)
    /\ r.unseen # {} => engine = "manual" /\ r.total # None
    /\ IF p \in Callers THEN batch.status = "open" /\ r.status \in {"open", "sealed"}
       ELSE batch.status = "sealed" /\ r.status = "complete"
    /\ call[p].at = "inserting" => r.status = "open"
    /\ call[p].at = "counting" => r.status = "sealed"

\* As a completion takes a tally over n members.
Clean(tally, n) ==
  ~tally.pending /\ ~tally.failed /\ Batches!Shortfall(n, tally.counted) = 0

\* What a snapshot is behind on is in changed; what it said of successes stays so.
ViewOK(p) ==
  \A db \in tx[p].view :
    /\ tx[p].view = {db} /\ db.members \subseteq members
    /\ engine = "refuses" /\ ~tx[p].changed => db.batch = batch /\ db.members = members
    /\ p \in Reconcilers =>
         /\ engine = "refuses" /\ call[p].at \in {"winning", "recounting"}
         /\ \A k \in Nat : Clean(db.tally, k) => k <= Cardinality(db.members \cap succeeded)
         /\ ~tx[p].changed /\ ~db.tally.pending => Batches!Pending \subseteq reopened[p]

\* Where a process is, and what its transaction has.
CallOK(p) ==
  /\ p \in Callers => call[p].at \notin {"asking", "winning", "recounting", "enqueueing"}
  /\ p \in Reconcilers =>
       /\ call[p].at \in {"idle", "asking", "winning", "recounting", "enqueueing"}
       /\ tx[p].row # {} <=> call[p].at \in {"recounting", "enqueueing"}
       /\ tx[p].tasks = {}
  /\ call[p].at \in {"inserting", "counting"} => tx[p].row # {}
  /\ p \notin Ambient \/ tx[p].row = {} => tx[p].members = {}
  /\ call[p].at \in {"claiming", "inserting"} =>
       /\ call[p].member \in Tasks
       /\ task[call[p].member] = "absent" => call[p].member \in tx[p].tasks
       /\ call[p].fresh => call[p].member \notin tx[p].members
  /\ \A t \in tx[p].tasks : task[t] = "absent"
  /\ \A t \in tx[p].members : task[t] = "absent" => t \in tx[p].tasks
  /\ call[p].at = "enqueueing" =>
       /\ Batches!Pending \subseteq reopened[p]
       /\ call[p].clean =>
            \A r \in tx[p].row :
              r.total # None /\ r.total <= Cardinality(members \cap succeeded)

ProcessOK(p) == BatchRowOK(p) /\ ViewOK(p) /\ CallOK(p)

\* Row locks exclude one another, and so do new tasks.
Excludes ==
  \A p, q \in Batches!Processes :
    p # q => (tx[p].row = {} \/ tx[q].row = {}) /\ tx[p].tasks \cap tx[q].tasks = {}

\* The members' rows, and what is remembered of them.
MembersOK ==
  /\ \A t \in members : task[t] # "absent"
  /\ \A t \in Tasks : task[t] = "successful" => t \in succeeded
  /\ watched => \A t \in Tasks : task[t] \in Batches!Settled \cup {"gone"} => t \in settledOnce

\* A report in the making.
ReportOK ==
  /\ report.at # "idle" => watched
  /\ report.at = "members" => report.total = None
  /\ report.at = "tasks" =>
       /\ report.total # None => report.total <= Cardinality(members)
       /\ report.members <= Cardinality(members)
  /\ Batches!ProgressNeverRunsAhead

\* What a sealer did not see, it counted in a snapshot.
UnseenOK == batch.unseen # {} => engine = "manual" /\ batch.total # None

BatchHolds ==
  /\ Batches!TypeOK /\ UnseenOK
  /\ Batches!TotalIsTheMembership /\ Batches!CallbacksAreEnqueuedOnce
  /\ \A p \in Batches!Processes : ProcessOK(p)
  /\ Excludes /\ MembersOK /\ ReportOK
-----------------------------------------------------------------------------
\* Batch takes Cardinality from the same module, under its own name.
LEMMA SameCounts ==
  ASSUME NEW S
  PROVE  Batches!Cardinality(S) = Cardinality(S)
BY DEF Cardinality, Batches!Cardinality

LEMMA SameFinite ==
  ASSUME NEW S
  PROVE  Batches!IsFiniteSet(S) <=> IsFiniteSet(S)
BY DEF IsFiniteSet, Batches!IsFiniteSet

\* A set of tasks can be counted.
LEMMA CountsAre ==
  ASSUME NEW S \in SUBSET Tasks
  PROVE  IsFiniteSet(S) /\ Cardinality(S) \in Nat /\ Cardinality(S) \in Batches!Counts
<1>1. IsFiniteSet(Tasks)
  BY BatchAssumption, SameFinite DEF Batches!Parameters
<1>2. IsFiniteSet(S) /\ Cardinality(S) \in Nat /\ Cardinality(Tasks) \in Nat
      /\ Cardinality(S) <= Cardinality(Tasks)
  BY <1>1, FS_Subset, FS_CardinalityType
<1> QED
  BY <1>2, SameCounts DEF Batches!Counts

\* A set of tasks that grows has no fewer.
LEMMA Grows ==
  ASSUME NEW S \in SUBSET Tasks, NEW T \in SUBSET Tasks, S \subseteq T
  PROVE  Cardinality(S) <= Cardinality(T) /\ Cardinality(S) \in Nat /\ Cardinality(T) \in Nat
BY CountsAre, FS_Subset

LEMMA AtMost ==
  ASSUME NEW a \in Nat, NEW b \in Nat, NEW c \in Nat, b <= c
  PROVE  a <= b => a <= c
OBVIOUS

\* Where at least as many have succeeded as were counted, no more are missing than were
\* not counted.
LEMMA MissingAre ==
  ASSUME NEW S \in SUBSET Tasks, NEW T, NEW U \in SUBSET Tasks,
         Cardinality(S \ U) <= Cardinality(S \cap T)
  PROVE  Cardinality(S \ T) <= Cardinality(U)
<1>1. /\ IsFiniteSet(S) /\ S \cap U \in SUBSET Tasks /\ S \cap T \in SUBSET Tasks
      /\ Cardinality(S) \in Nat /\ Cardinality(S \cap U) \in Nat
      /\ Cardinality(S \cap T) \in Nat /\ Cardinality(U) \in Nat
  BY CountsAre
<1>2. Cardinality(S \cap U) <= Cardinality(U)
  BY <1>1, Grows
<1>3. /\ Cardinality(S \ U) = Cardinality(S) - Cardinality(S \cap U)
      /\ Cardinality(S \ T) = Cardinality(S) - Cardinality(S \cap T)
  BY <1>1, FS_Difference
<1> QED
  BY <1>1, <1>2, <1>3

-----------------------------------------------------------------------------
\* The types, as the steps below use them.
LEMMA BatchFacts ==
  ASSUME Batches!TypeOK
  PROVE  /\ tx \in [Batches!Processes -> Batches!Transaction]
         /\ call \in [Batches!Processes -> Batches!Call]
         /\ batch \in Batches!BatchRow /\ members \in SUBSET Tasks
         /\ IsFiniteSet(members) /\ IsFiniteSet(Tasks)
         /\ \A p \in Batches!Processes :
              /\ tx[p] \in Batches!Transaction /\ call[p] \in Batches!Call
              /\ tx[p].members \in SUBSET Tasks /\ tx[p].tasks \in SUBSET Tasks
              /\ tx[p].row \in SUBSET Batches!BatchRow
              /\ tx[p].view \in SUBSET Batches!Database
              /\ tx[p].changed \in BOOLEAN
         /\ \A p \in Callers : p \in Batches!Processes /\ p \notin Reconcilers
         /\ \A p \in Reconcilers : p \in Batches!Processes /\ p \notin Callers /\ p \notin Ambient
         /\ \A p \in Batches!Processes : p \in Callers \/ p \in Reconcilers
         /\ Ambient \subseteq Callers
<1>1. members \in SUBSET Tasks /\ IsFiniteSet(Tasks)
  BY BatchAssumption, SameFinite DEF Batches!TypeOK, Batches!Parameters
<1>2. IsFiniteSet(members)
  BY <1>1, FS_Subset
<1>3. /\ tx \in [Batches!Processes -> Batches!Transaction]
      /\ call \in [Batches!Processes -> Batches!Call]
      /\ batch \in Batches!BatchRow
  BY DEF Batches!TypeOK
<1>4. \A p \in Batches!Processes :
              /\ tx[p] \in Batches!Transaction /\ call[p] \in Batches!Call
              /\ tx[p].members \in SUBSET Tasks /\ tx[p].tasks \in SUBSET Tasks
              /\ tx[p].row \in SUBSET Batches!BatchRow
              /\ tx[p].view \in SUBSET Batches!Database
              /\ tx[p].changed \in BOOLEAN
  BY <1>3 DEF Batches!Transaction
<1> QED
  BY <1>1, <1>2, <1>3, <1>4, BatchAssumption DEF Batches!Processes, Batches!Parameters

\* Another's commit changes nothing of a transaction but changed.
LEMMA BehindIs ==
  ASSUME Batches!TypeOK, NEW q \in Batches!Processes
  PROVE  LET b == Batches!Behind(q)
         IN  /\ b \in Batches!Transaction
             /\ b.open = tx[q].open /\ b.row = tx[q].row /\ b.members = tx[q].members
             /\ b.tasks = tx[q].tasks /\ b.view = tx[q].view
             /\ b.changed = (tx[q].changed \/ (engine = "refuses" /\ tx[q].view # {}))
<1>1. tx[q] \in Batches!Transaction
  BY BatchFacts
<1> QED
  BY <1>1 DEF Batches!Behind, Batches!Transaction

\* What a step of others, or of the members' rows, is to a process.
Leaves(q) ==
  /\ engine' = engine /\ call'[q] = call[q] /\ succeeded \subseteq succeeded'
  /\ members \subseteq members'
  /\ \/ tx'[q] = tx[q] /\ batch' = batch /\ members' = members
     \/ tx'[q] = Batches!Behind(q) /\ tx[q].row = {}
  /\ \A t \in Tasks :
       /\ task'[t] = "absent" => task[t] = "absent"
       /\ t \in tx[q].tasks /\ task[t] = "absent" => task'[t] = "absent"
  /\ /\ q \in Reconcilers /\ call[q].at \in {"winning", "recounting", "enqueueing"}
     /\ members' = members /\ Batches!Pending \subseteq reopened[q]
     => Batches!Pending' \subseteq reopened'[q]

\* It keeps what is known of the process.
LEMMA LeavesHolds ==
  ASSUME Batches!TypeOK, NEW q \in Batches!Processes, ProcessOK(q), Leaves(q)
  PROVE  ProcessOK(q)'
<1>1. /\ tx'[q].row = tx[q].row /\ tx'[q].members = tx[q].members /\ tx'[q].tasks = tx[q].tasks
      /\ tx'[q].view = tx[q].view /\ call'[q] = call[q] /\ engine' = engine
      /\ \/ tx'[q].changed = tx[q].changed /\ tx'[q] = tx[q]
         \/ /\ tx'[q] # tx[q]
            /\ tx'[q].changed <=> tx[q].changed \/ (engine = "refuses" /\ tx[q].view # {})
      /\ \/ batch' = batch /\ members' = members
         \/ tx[q].row = {} /\ (engine = "refuses" /\ tx[q].view # {} => tx'[q].changed)
  BY BehindIs, BatchFacts DEF Leaves
<1>2. BatchRowOK(q)'
  <2>1. CASE tx[q].row = {}
    BY <1>1, <2>1 DEF BatchRowOK
  <2>2. CASE tx[q].row # {}
    <3>1. batch' = batch /\ members' = members /\ tx'[q] = tx[q]
      BY <2>2 DEF Leaves
    <3> QED
      BY <1>1, <3>1 DEF BatchRowOK, ProcessOK
  <2> QED
    BY <2>1, <2>2
<1>3. ViewOK(q)'
  <2>1. ASSUME NEW db \in tx[q].view, NEW k \in Nat,
               k <= Cardinality(db.members \cap succeeded)
        PROVE  k <= Cardinality(db.members \cap succeeded')
    <3>1. /\ db.members \cap succeeded \in SUBSET Tasks
          /\ db.members \cap succeeded' \in SUBSET Tasks
          /\ db.members \cap succeeded \subseteq db.members \cap succeeded'
      BY BatchFacts DEF Batches!Database, Leaves
    <3> QED
      BY <2>1, <3>1, Grows
  <2> QED
    BY <1>1, <2>1 DEF ViewOK, ProcessOK, Leaves
<1>4. CallOK(q)'
  <2>1. ASSUME call[q].at = "enqueueing", call[q].clean, NEW r \in tx[q].row
        PROVE  r.total # None /\ r.total <= Cardinality(members' \cap succeeded')
    <3>1. r.total # None /\ r.total <= Cardinality(members \cap succeeded)
      BY <2>1 DEF ProcessOK, CallOK
    <3>2. members' = members
      BY <2>1 DEF Leaves
    <3>3. /\ members \cap succeeded \in SUBSET Tasks /\ members \cap succeeded' \in SUBSET Tasks
          /\ members \cap succeeded \subseteq members \cap succeeded'
      BY BatchFacts DEF Leaves
    <3>4. r.total \in Nat
      BY <3>1, BatchFacts DEF Batches!BatchRow, Batches!Counts
    <3> QED
      BY <3>1, <3>2, <3>3, <3>4, Grows
  <2> QED
    BY <1>1, <2>1, BatchFacts DEF CallOK, ProcessOK, Leaves
<1> QED
  BY <1>2, <1>3, <1>4 DEF ProcessOK

-----------------------------------------------------------------------------
(* Steps of a process that commit nothing.                                 *)

Local(p, c, n) ==
  /\ c \in Batches!Call /\ n \in Batches!Transaction
  /\ call' = [call EXCEPT ![p] = c] /\ tx' = [tx EXCEPT ![p] = n]
  /\ UNCHANGED <<engine, watched, batch, members, task, report, settledOnce, succeeded>>
  /\ mishaps' \in 0 .. MaxMishaps[engine]
  /\ reopened' \in [Reconcilers -> SUBSET Tasks]
  /\ \A q \in Reconcilers \ {p} : reopened'[q] = reopened[q]

\* What a local step changes, and what it does not.
LEMMA LocalIs ==
  ASSUME Batches!TypeOK, NEW p \in Batches!Processes, NEW c, NEW n, Local(p, c, n)
  PROVE  /\ tx' \in [Batches!Processes -> Batches!Transaction]
         /\ call' \in [Batches!Processes -> Batches!Call]
         /\ tx'[p] = n /\ call'[p] = c
         /\ \A q \in Batches!Processes \ {p} : tx'[q] = tx[q] /\ call'[q] = call[q]
         /\ engine' = engine /\ batch' = batch /\ members' = members /\ task' = task
         /\ succeeded' = succeeded /\ Batches!Pending' = Batches!Pending
         /\ Batches!TypeOK'
<1>1. /\ tx' \in [Batches!Processes -> Batches!Transaction]
      /\ call' \in [Batches!Processes -> Batches!Call]
      /\ tx'[p] = n /\ call'[p] = c
      /\ \A q \in Batches!Processes \ {p} : tx'[q] = tx[q] /\ call'[q] = call[q]
  BY BatchFacts DEF Local
<1>2. /\ engine' = engine /\ batch' = batch /\ members' = members /\ task' = task
      /\ succeeded' = succeeded
  BY DEF Local
<1>3. Batches!Pending' = Batches!Pending
  BY <1>2 DEF Batches!Pending, Batches!Holding
<1>4. Batches!TypeOK'
  BY <1>1 DEF Local, Batches!TypeOK
<1> QED
  BY <1>1, <1>2, <1>3, <1>4

\* It keeps the invariant if it does so for the process that takes it.
LEMMA LocalHolds ==
  ASSUME BatchHolds, NEW p \in Batches!Processes, NEW c, NEW n, Local(p, c, n),
         n.row = {} \/ tx[p].row # {} \/ Batches!Free(p),
         \A t \in n.tasks : t \in tx[p].tasks \/ \A q \in Batches!Processes : t \notin tx[q].tasks,
         ProcessOK(p)'
  PROVE  BatchHolds'
<1>1. Batches!TypeOK
  BY DEF BatchHolds
<1>2. /\ tx'[p] = n /\ call'[p] = c
      /\ \A q \in Batches!Processes \ {p} : tx'[q] = tx[q] /\ call'[q] = call[q]
      /\ engine' = engine /\ batch' = batch /\ members' = members /\ task' = task
      /\ succeeded' = succeeded /\ Batches!Pending' = Batches!Pending
      /\ Batches!TypeOK'
  BY <1>1, LocalIs
<1>3. ASSUME NEW q \in Batches!Processes
      PROVE  ProcessOK(q)'
  <2>1. CASE q # p
    <3>1. Leaves(q)
      BY <1>2, <2>1 DEF Leaves, Local
    <3>2. ProcessOK(q)
      BY DEF BatchHolds
    <3> QED
      BY <1>1, <3>1, <3>2, LeavesHolds
  <2> QED
    BY <2>1
<1>4. Excludes'
  BY <1>2 DEF BatchHolds, Excludes, Batches!Free
<1>5. /\ MembersOK' /\ ReportOK' /\ UnseenOK'
      /\ Batches!TotalIsTheMembership' /\ Batches!CallbacksAreEnqueuedOnce'
  BY <1>2 DEF Local, BatchHolds, MembersOK, ReportOK, UnseenOK, Batches!TotalIsTheMembership,
     Batches!CallbacksAreEnqueuedOnce,
     Batches!ProgressNeverRunsAhead, Batches!Finished
<1> QED
  BY <1>2, <1>3, <1>4, <1>5, Zenon DEF BatchHolds

LEMMA Alone ==
  ASSUME NEW x
  PROVE  (CHOOSE r \in {x} : TRUE) = x
OBVIOUS

\* _member_task_counts returns a tally.
LEMMA TallyIs ==
  ASSUME Batches!TypeOK
  PROVE  /\ Batches!MemberTaskCounts \in Batches!Tally
         /\ Batches!NoTally \in Batches!Tally
<1>1. 0 \in Batches!Counts
  <2>1. {} \in SUBSET Tasks /\ Cardinality({}) = 0
    BY FS_EmptySet
  <2> QED
    BY <2>1, CountsAre
<1>2. Batches!NoTally \in Batches!Tally
  BY <1>1 DEF Batches!NoTally, Batches!Tally
<1> DEFINE won == Batches!Holding(Batches!Settled \ Batches!Unattributed)
           pending == Batches!Pending # {}
           failed == Batches!Holding({"failed"}) # {}
<1>3. Batches!Cardinality(won) \in Batches!Counts
  BY CountsAre, SameCounts, BatchFacts DEF Batches!Holding
<1> DEFINE k == Batches!Cardinality(won)
<1>4. Batches!MemberTaskCounts = IF pending THEN [Batches!NoTally EXCEPT !.pending = TRUE]
                                 ELSE [Batches!NoTally EXCEPT !.failed = failed, !.counted = k]
  BY DEF Batches!MemberTaskCounts
<1>5. failed \in BOOLEAN /\ k \in Batches!Counts
  BY <1>3
<1> HIDE DEF k, failed, pending, won
<1> QED
  BY <1>2, <1>4, <1>5 DEF Batches!NoTally, Batches!Tally

\* A snapshot of now is a database, and of now.
LEMMA CommittedIs ==
  ASSUME Batches!TypeOK, NEW p \in Batches!Processes
  PROVE  /\ Batches!Committed(p) \in Batches!Database
         /\ Batches!Committed(p).batch = batch /\ Batches!Committed(p).members = members
         /\ p \in Reconcilers => Batches!Committed(p).tally = Batches!MemberTaskCounts
BY TallyIs, BatchFacts DEF Batches!Committed, Batches!Database

\* A transaction reads its snapshot if it has one.
LEMMA SeesIs ==
  ASSUME BatchHolds, NEW p \in Batches!Processes
  PROVE  /\ \A db \in tx[p].view : Batches!Sees(p) = db
         /\ tx[p].view = {} => Batches!Sees(p) = Batches!Committed(p)
         /\ Batches!Sees(p) \in Batches!Database
<1>1. \A db \in tx[p].view : tx[p].view = {db} /\ db \in Batches!Database
  BY BatchFacts DEF BatchHolds, ProcessOK, ViewOK
<1>2. \A db \in tx[p].view : Batches!Sees(p) = db
  BY <1>1, Alone DEF Batches!Sees
<1>3. tx[p].view = {} => Batches!Sees(p) = Batches!Committed(p)
  BY DEF Batches!Sees
<1> QED
  BY <1>1, <1>2, <1>3, CommittedIs DEF BatchHolds

\* An UPDATE finds the transaction's own row, or the committed one if it is not refused.
LEMMA RowForIs ==
  ASSUME BatchHolds, NEW p \in Batches!Processes
  PROVE  /\ \A r \in tx[p].row : Batches!RowFor(p) = r /\ tx[p].row = {r}
         /\ tx[p].row = {} /\ ~Batches!Refused(p) => Batches!RowFor(p) = batch
         /\ Batches!RowFor(p) \in Batches!BatchRow
<1>1. \A r \in tx[p].row : tx[p].row = {r} /\ r \in Batches!BatchRow
  BY BatchFacts DEF BatchHolds, ProcessOK, BatchRowOK
<1>2. \A r \in tx[p].row : Batches!RowFor(p) = r
  BY <1>1, Alone DEF Batches!RowFor
<1>3. /\ Batches!Sees(p).batch \in Batches!BatchRow /\ batch \in Batches!BatchRow
      /\ Batches!Committed(p).batch = batch
  BY SeesIs, CommittedIs, BatchFacts DEF BatchHolds, Batches!Database
<1>4. ASSUME tx[p].row = {}, ~Batches!Refused(p)
      PROVE  Batches!RowFor(p) = batch
  <2>1. ViewOK(p)
    BY DEF BatchHolds, ProcessOK
  <2>2. ASSUME engine = "refuses", NEW db \in tx[p].view
        PROVE  Batches!Sees(p).batch = batch
    <3>1. Batches!Sees(p) = db /\ ~tx[p].changed
      BY <1>4, <2>2, SeesIs DEF Batches!Refused
    <3> QED
      BY <2>1, <2>2, <3>1 DEF ViewOK
  <2>3. tx[p].view = {} => Batches!Sees(p).batch = batch
    BY <1>3, SeesIs
  <2> QED
    BY <1>4, <2>2, <2>3 DEF Batches!RowFor
<1> QED
  BY <1>1, <1>2, <1>3, <1>4 DEF Batches!RowFor

\* The transaction and the call of a process that rests.
LEMMA NothingIs ==
  ASSUME Batches!TypeOK
  PROVE  /\ Batches!NoTx \in Batches!Transaction /\ Batches!NoTx.row = {}
         /\ Batches!NoTx.members = {}
         /\ Batches!NoTx.tasks = {} /\ Batches!NoTx.view = {} /\ ~Batches!NoTx.changed
         /\ ~Batches!NoTx.open
         /\ Batches!NoCall \in Batches!Call /\ Batches!NoCall.at = "idle"
<1>1. 0 \in 0 .. MAX_SERIALIZATION_ATTEMPTS - 1
  BY BatchAssumption DEF Batches!Parameters
<1> QED
  BY <1>1 DEF Batches!NoTx, Batches!Transaction, Batches!NoCall, Batches!Call

\* A process that starts over, or is done.
LEMMA StartsOver ==
  ASSUME BatchHolds, NEW p \in Batches!Processes, NEW c, Local(p, c, Batches!NoTx),
         \/ c.at = "idle"
         \/ p \in Callers /\ c.at = "retrying"
         \/ p \in Reconcilers /\ c.at = "asking"
  PROVE  BatchHolds'
<1>1. Batches!TypeOK
  BY DEF BatchHolds
<1>2. tx'[p] = Batches!NoTx /\ call'[p] = c
  BY <1>1, LocalIs
<1>3. ProcessOK(p)'
  BY <1>1, <1>2, NothingIs, BatchFacts DEF ProcessOK, BatchRowOK, ViewOK, CallOK
<1> QED
  BY <1>1, <1>3, NothingIs, LocalHolds

\* What a snapshot is when it is taken.
LEMMA SnapshotIs ==
  ASSUME Batches!TypeOK, NEW p \in Batches!Processes
  PROVE  /\ Batches!Snapshot(p) \in SUBSET Batches!Database
         /\ engine = "refuses" => Batches!Snapshot(p) = {Batches!Committed(p)}
         /\ engine # "refuses" => Batches!Snapshot(p) = {}
BY CommittedIs DEF Batches!Snapshot

\* A caller's own transaction starts from what is committed.
LEMMA BeginHolds ==
  ASSUME BatchHolds, NEW c \in Callers, Batches!Begin(c)
  PROVE  BatchHolds'
<1>1. Batches!TypeOK /\ c \in Batches!Processes /\ c \notin Reconcilers
  BY BatchFacts DEF BatchHolds
<1> DEFINE view == IF Batches!InSnapshot THEN {Batches!Committed(c)} ELSE {}
           n == [tx[c] EXCEPT !.open = TRUE, !.view = view]
<1>2. view \in SUBSET Batches!Database
  BY <1>1, CommittedIs
<1>3. tx' = [tx EXCEPT ![c] = n] /\ call' = [call EXCEPT ![c] = call[c]]
  BY <1>1, BatchFacts DEF Batches!Begin
<1>4. /\ n \in Batches!Transaction /\ n.row = tx[c].row /\ n.members = tx[c].members
      /\ n.tasks = tx[c].tasks /\ n.view = view /\ n.changed = tx[c].changed
  BY <1>1, <1>2, BatchFacts DEF Batches!Transaction
<1>5. Local(c, call[c], n)
  <2> HIDE DEF n
  <2> QED
    BY <1>1, <1>3, <1>4, BatchFacts
    DEF Local, Batches!Begin, Batches!rows, Batches!ghosts, Batches!TypeOK
<1> HIDE DEF n
<1>6. /\ tx'[c] = n /\ call'[c] = call[c] /\ engine' = engine /\ batch' = batch
      /\ members' = members /\ task' = task /\ succeeded' = succeeded
      /\ Batches!Pending' = Batches!Pending
  BY <1>1, <1>5, LocalIs
<1>7. ProcessOK(c)
  BY <1>1 DEF BatchHolds
<1>8. BatchRowOK(c)' /\ CallOK(c)'
  BY <1>1, <1>4, <1>6, <1>7 DEF ProcessOK, BatchRowOK, CallOK
<1>9. ViewOK(c)'
  BY <1>1, <1>4, <1>6, CommittedIs DEF ViewOK
<1> QED
  BY <1>1, <1>4, <1>5, <1>8, <1>9, LocalHolds DEF ProcessOK

\* A task that add() creates is in nobody else's transaction.
LEMMA EnqueueHolds ==
  ASSUME BatchHolds, NEW c \in Callers, NEW t \in Tasks, Batches!Enqueue(c, t)
  PROVE  BatchHolds'
<1>1. Batches!TypeOK /\ c \in Batches!Processes /\ c \notin Reconcilers
  BY BatchFacts DEF BatchHolds
<1> DEFINE fresh == task[t] = "absent" /\ t \notin tx[c].tasks
           view == IF tx[c].view = {} THEN Batches!Snapshot(c) ELSE tx[c].view
           tasks == IF fresh THEN tx[c].tasks \cup {t} ELSE tx[c].tasks
           n == [tx[c] EXCEPT !.open = TRUE, !.tasks = tasks, !.view = view]
           m == [call[c] EXCEPT !.at = "claiming", !.member = t, !.fresh = fresh]
<1>2. view \in SUBSET Batches!Database /\ fresh \in BOOLEAN /\ tasks \in SUBSET Tasks
  BY <1>1, SnapshotIs, BatchFacts
<1>3. tx' = [tx EXCEPT ![c] = n] /\ call' = [call EXCEPT ![c] = m]
  BY <1>1, BatchFacts DEF Batches!Enqueue
<1>4. /\ n \in Batches!Transaction /\ n.row = tx[c].row /\ n.members = tx[c].members
      /\ n.tasks = tasks /\ n.view = view /\ n.changed = tx[c].changed
  <2> HIDE DEF view, tasks
  <2> QED
    BY <1>1, <1>2, BatchFacts DEF Batches!Transaction
<1>5. m \in Batches!Call /\ m.at = "claiming" /\ m.member = t /\ m.fresh = fresh
  <2> HIDE DEF fresh
  <2> QED
    BY <1>1, <1>2, BatchFacts DEF Batches!Call
<1>6. Local(c, m, n)
  <2> HIDE DEF n, m
  <2> QED
    BY <1>1, <1>3, <1>4, <1>5, BatchFacts
    DEF Local, Batches!Enqueue, Batches!rows, Batches!ghosts, Batches!TypeOK
<1> HIDE DEF n, m
<1>7. /\ tx'[c] = n /\ call'[c] = m /\ engine' = engine /\ batch' = batch
      /\ members' = members /\ task' = task /\ succeeded' = succeeded
      /\ Batches!Pending' = Batches!Pending
  BY <1>1, <1>6, LocalIs
<1>8. ProcessOK(c)
  BY <1>1 DEF BatchHolds
<1>9. BatchRowOK(c)'
  BY <1>1, <1>4, <1>5, <1>7, <1>8 DEF ProcessOK, BatchRowOK
<1>10. ViewOK(c)'
  BY <1>1, <1>4, <1>7, <1>8, CommittedIs, SnapshotIs DEF ProcessOK, ViewOK
<1>11. CallOK(c)'
  BY <1>1, <1>4, <1>5, <1>7, <1>8 DEF ProcessOK, CallOK
<1>12. \A u \in tasks : u \in tx[c].tasks \/ \A q \in Batches!Processes : u \notin tx[q].tasks
  <2>1. \A q \in Batches!Processes : q \in Callers \/ tx[q].tasks = {}
    BY BatchFacts, <1>1 DEF BatchHolds, ProcessOK, CallOK
  <2> QED
    BY <2>1 DEF Batches!Enqueue
<1> QED
  BY <1>1, <1>4, <1>6, <1>9, <1>10, <1>11, <1>12, LocalHolds DEF ProcessOK

LEMMA SealHolds ==
  ASSUME BatchHolds, NEW c \in Callers, Batches!Seal(c)
  PROVE  BatchHolds'
<1>1. Batches!TypeOK /\ c \in Batches!Processes /\ c \notin Reconcilers
  BY BatchFacts DEF BatchHolds
<1> DEFINE view == IF tx[c].view = {} THEN Batches!Snapshot(c) ELSE tx[c].view
           n == [tx[c] EXCEPT !.open = TRUE, !.view = view]
           m == [call[c] EXCEPT !.at = "sealing"]
<1>2. view \in SUBSET Batches!Database
  BY <1>1, SnapshotIs, BatchFacts
<1>3. tx' = [tx EXCEPT ![c] = n] /\ call' = [call EXCEPT ![c] = m]
  BY <1>1, BatchFacts DEF Batches!Seal, Batches!Goes
<1>4. /\ n \in Batches!Transaction /\ n.row = tx[c].row /\ n.members = tx[c].members
      /\ n.tasks = tx[c].tasks /\ n.view = view /\ n.changed = tx[c].changed
  <2> HIDE DEF view
  <2> QED
    BY <1>1, <1>2, BatchFacts DEF Batches!Transaction
<1>5. m \in Batches!Call /\ m.at = "sealing"
  BY <1>1, BatchFacts DEF Batches!Call
<1>6. Local(c, m, n)
  <2> HIDE DEF n, m
  <2> QED
    BY <1>1, <1>3, <1>4, <1>5, BatchFacts
    DEF Local, Batches!Seal, Batches!rows, Batches!ghosts, Batches!TypeOK
<1> HIDE DEF n, m
<1>7. /\ tx'[c] = n /\ call'[c] = m /\ engine' = engine /\ batch' = batch
      /\ members' = members /\ task' = task /\ succeeded' = succeeded
      /\ Batches!Pending' = Batches!Pending
  BY <1>1, <1>6, LocalIs
<1>8. ProcessOK(c)
  BY <1>1 DEF BatchHolds
<1>9. BatchRowOK(c)' /\ CallOK(c)'
  BY <1>1, <1>4, <1>5, <1>7, <1>8 DEF ProcessOK, BatchRowOK, CallOK
<1>10. ViewOK(c)'
  BY <1>1, <1>4, <1>7, <1>8, CommittedIs, SnapshotIs DEF ProcessOK, ViewOK
<1> QED
  BY <1>1, <1>4, <1>6, <1>9, <1>10, LocalHolds DEF ProcessOK

\* A process that dies leaves nothing.
LEMMA DiesHolds ==
  ASSUME BatchHolds, NEW p \in Batches!Processes, Batches!Dies(p)
  PROVE  BatchHolds'
<1>1. Batches!TypeOK
  BY DEF BatchHolds
<1>2. mishaps' \in 0 .. MaxMishaps[engine]
  <2>1. engine \in Engines /\ MaxMishaps[engine] \in Nat /\ mishaps \in 0 .. MaxMishaps[engine]
    BY <1>1, BatchAssumption DEF Batches!Parameters, Batches!TypeOK
  <2> QED
    BY <2>1 DEF Batches!Dies
<1>3. Local(p, Batches!NoCall, Batches!NoTx)
  BY <1>1, <1>2, NothingIs
  DEF Local, Batches!Dies, Batches!RollsBack, Batches!Ends, Batches!rows, Batches!ghosts,
      Batches!TypeOK
<1> QED
  BY <1>3, <1>1, NothingIs, StartsOver

\* What no local step changes of the rest.
Rest ==
  /\ UNCHANGED <<engine, watched, batch, members, task, report, settledOnce, succeeded>>
  /\ mishaps' = mishaps

\* _reissue starts over, or gives up.
LEMMA ReissueHolds ==
  ASSUME BatchHolds, NEW p \in Batches!Processes, NEW step, Batches!Reissue(p, step),
         (p \in Callers /\ step = "retrying") \/ (p \in Reconcilers /\ step = "asking"),
         Rest, UNCHANGED reopened
  PROVE  BatchHolds'
<1>1. Batches!TypeOK
  BY DEF BatchHolds
<1> DEFINE m == [call[p] EXCEPT !.at = step, !.tries = call[p].tries + 1]
<1>2. tx' = [tx EXCEPT ![p] = Batches!NoTx]
  BY DEF Batches!Reissue, Batches!RollsBack
<1>3. CASE Batches!Owned(p) /\ Batches!AttemptsLeft(p)
  <2>1. call[p].tries + 1 \in 0 .. MAX_SERIALIZATION_ATTEMPTS - 1
    <3>1. call[p].tries \in 0 .. MAX_SERIALIZATION_ATTEMPTS - 1
      BY <1>1, BatchFacts DEF Batches!Call
    <3> QED
      BY <1>3, <3>1, BatchAssumption DEF Batches!AttemptsLeft, Batches!Parameters
  <2>2. m \in Batches!Call /\ m.at = step
    BY <1>1, <2>1, BatchFacts DEF Batches!Call
  <2>3. call' = [call EXCEPT ![p] = m]
    BY <1>1, <1>3, BatchFacts DEF Batches!Reissue
  <2>4. Local(p, m, Batches!NoTx)
    <3> HIDE DEF m
    <3> QED
      BY <1>1, <1>2, <2>2, <2>3, NothingIs DEF Local, Rest, Batches!TypeOK
  <2> HIDE DEF m
  <2> QED
    BY <2>2, <2>4, StartsOver
<1>4. CASE ~(Batches!Owned(p) /\ Batches!AttemptsLeft(p))
  <2>1. call' = [call EXCEPT ![p] = Batches!NoCall]
    BY <1>4 DEF Batches!Reissue, Batches!Ends
  <2>2. Local(p, Batches!NoCall, Batches!NoTx)
    BY <1>1, <1>2, <2>1, NothingIs DEF Local, Rest, Batches!TypeOK
  <2> QED
    BY <1>1, <2>2, NothingIs, StartsOver
<1> QED
  BY <1>3, <1>4

\* A call that ends with its transaction rolled back.
LEMMA EndsHolds ==
  ASSUME BatchHolds, NEW p \in Batches!Processes, Batches!RollsBack(p), Batches!Ends(p), Rest,
         UNCHANGED reopened
  PROVE  BatchHolds'
<1>1. Batches!TypeOK
  BY DEF BatchHolds
<1>2. Local(p, Batches!NoCall, Batches!NoTx)
  BY <1>1, NothingIs DEF Local, Rest, Batches!TypeOK, Batches!RollsBack, Batches!Ends
<1> QED
  BY <1>1, <1>2, NothingIs, StartsOver

\* add() takes back the task it created, if any.
LEMMA AddRaisesHolds ==
  ASSUME BatchHolds, NEW c \in Callers, Batches!AddRaises(c), Rest, UNCHANGED reopened,
         call[c].at \in {"claiming", "inserting"}
  PROVE  BatchHolds'
<1>1. Batches!TypeOK /\ c \in Batches!Processes /\ c \notin Reconcilers
  BY BatchFacts DEF BatchHolds
<1>2. CASE Batches!Owned(c)
  BY <1>1, <1>2, EndsHolds DEF Batches!AddRaises
<1>3. CASE ~Batches!Owned(c)
  <2> DEFINE tasks == IF call[c].fresh THEN tx[c].tasks \ {call[c].member} ELSE tx[c].tasks
             n == [tx[c] EXCEPT !.tasks = tasks]
             m == Batches!NoCall
  <2>1. tx' = [tx EXCEPT ![c] = n] /\ call' = [call EXCEPT ![c] = m]
    BY <1>1, <1>3, BatchFacts DEF Batches!AddRaises, Batches!Ends
  <2>2. /\ n \in Batches!Transaction /\ n.row = tx[c].row /\ n.members = tx[c].members
        /\ n.tasks = tasks /\ n.view = tx[c].view /\ n.changed = tx[c].changed
    <3>1. tasks \in SUBSET Tasks
      BY <1>1, BatchFacts
    <3> HIDE DEF tasks
    <3> QED
      BY <1>1, <3>1, BatchFacts DEF Batches!Transaction
  <2>3. m \in Batches!Call /\ m.at = "idle"
    BY <1>1, NothingIs
  <2> HIDE DEF m
  <2>4. Local(c, m, n)
    <3> HIDE DEF n
    <3> QED
      BY <1>1, <2>1, <2>2, <2>3 DEF Local, Rest, Batches!TypeOK
  <2> HIDE DEF n
  <2>5. /\ tx'[c] = n /\ call'[c] = m /\ engine' = engine /\ batch' = batch
        /\ members' = members /\ task' = task /\ succeeded' = succeeded
        /\ Batches!Pending' = Batches!Pending
    BY <1>1, <2>4, LocalIs
  <2>6. ProcessOK(c)
    BY <1>1 DEF BatchHolds
  <2> HIDE DEF tasks
  <2>7. BatchRowOK(c)' /\ ViewOK(c)'
    <3>1. BatchRowOK(c)'
      BY <1>1, <2>2, <2>3, <2>5, <2>6 DEF ProcessOK, BatchRowOK
    <3>2. ViewOK(c)'
      BY <1>1, <2>2, <2>3, <2>5, <2>6 DEF ProcessOK, ViewOK
    <3> QED
      BY <3>1, <3>2
  <2> USE DEF tasks
  <2>8. CallOK(c)'
    BY <1>1, <2>2, <2>3, <2>5, <2>6 DEF ProcessOK, CallOK
  <2> QED
    BY <1>1, <2>2, <2>4, <2>7, <2>8, LocalHolds DEF ProcessOK
<1> QED
  BY <1>2, <1>3

\* The batch row is written, as r, and not committed.
LEMMA WritesIs ==
  ASSUME BatchHolds, NEW p \in Batches!Processes, NEW r \in Batches!BatchRow,
         NEW m \in Batches!Call, call' = [call EXCEPT ![p] = m],
         Batches!Writes(p, r), Rest, UNCHANGED reopened
  PROVE  LET n == [tx[p] EXCEPT !.row = {r}, !.changed = FALSE]
         IN  /\ Local(p, m, n) /\ tx'[p] = n /\ n.row = {r} /\ ~n.changed
             /\ n.members = tx[p].members
             /\ n.tasks = tx[p].tasks /\ n.view = tx[p].view
<1>1. Batches!TypeOK
  BY DEF BatchHolds
<1> DEFINE n == [tx[p] EXCEPT !.row = {r}, !.changed = FALSE]
<1>2. tx' = [tx EXCEPT ![p] = n]
  BY <1>1, BatchFacts DEF Batches!Writes
<1>3. /\ n \in Batches!Transaction /\ n.row = {r} /\ ~n.changed /\ n.members = tx[p].members
      /\ n.tasks = tx[p].tasks /\ n.view = tx[p].view
  BY <1>1, BatchFacts DEF Batches!Transaction
<1>4. Local(p, m, n)
  <2> HIDE DEF n
  <2> QED
    BY <1>1, <1>2, <1>3 DEF Local, Rest, Batches!TypeOK
<1>5. tx'[p] = n
  BY <1>1, <1>4, LocalIs
<1> QED
  BY <1>3, <1>4, <1>5

\* A caller writes the row, of a batch that is open.
LEMMA CallerWrites ==
  ASSUME BatchHolds, NEW c \in Callers, NEW r \in Batches!BatchRow,
         NEW m \in Batches!Call, call' = [call EXCEPT ![c] = m],
         Batches!Writes(c, r), Rest, UNCHANGED reopened,
         tx[c].row # {} \/ (Batches!Free(c) /\ ~Batches!Refused(c)),
         batch.status = "open", r.completes = 0, r.successes = 0, r.status \in {"open", "sealed"},
         r.total # None =>
           /\ r.status = "sealed"
           /\ r.total = Cardinality((members \cup tx[c].members) \ r.unseen),
         r.unseen # {} => engine = "manual" /\ r.total # None,
         m.at \in {"idle", "inserting", "counting"},
         m.at = "inserting" =>
           /\ r.status = "open" /\ call[c].at = "claiming"
           /\ m.member = call[c].member /\ m.fresh = call[c].fresh,
         m.at = "counting" => r.status = "sealed"
  PROVE  BatchHolds'
<1>1. Batches!TypeOK /\ c \in Batches!Processes /\ c \notin Reconcilers
  BY BatchFacts DEF BatchHolds
<1> DEFINE n == [tx[c] EXCEPT !.row = {r}, !.changed = FALSE]
<1>2.          /\ Local(c, m, n) /\ tx'[c] = n /\ n.row = {r} /\ ~n.changed
               /\ n.members = tx[c].members /\ n.tasks = tx[c].tasks /\ n.view = tx[c].view
  BY <1>1, WritesIs
<1> HIDE DEF n
<1>3. /\ call'[c] = m /\ engine' = engine /\ batch' = batch
      /\ members' = members /\ task' = task /\ succeeded' = succeeded
      /\ Batches!Pending' = Batches!Pending
  BY <1>1, <1>2, LocalIs
<1>4. ProcessOK(c)
  BY <1>1 DEF BatchHolds
<1>5. BatchRowOK(c)'
  BY <1>1, <1>2, <1>3 DEF BatchRowOK
<1>6. ViewOK(c)'
  <2>1. engine = "refuses" => ~tx[c].changed \/ tx[c].view = {}
    BY <1>4 DEF ProcessOK, BatchRowOK, Batches!Refused
  <2> QED
    BY <1>1, <1>2, <1>3, <1>4, <2>1 DEF ProcessOK, ViewOK
<1>7. CallOK(c)'
  BY <1>1, <1>2, <1>3, <1>4 DEF ProcessOK, CallOK
<1> QED
  BY <1>1, <1>2, <1>4, <1>5, <1>6, <1>7, LocalHolds DEF ProcessOK

\* No callback is out before the batch is COMPLETE, and no total before it is sealed.
LEMMA OpenIs ==
  ASSUME BatchHolds, batch.status # "complete"
  PROVE  /\ batch.completes = 0 /\ batch.successes = 0
         /\ batch.status = "open" => batch.total = None /\ batch.unseen = {}
<1>1. batch.completes = 0 /\ batch.successes <= 0 /\ batch.successes \in 0 .. 2
  BY BatchFacts DEF BatchHolds, Batches!CallbacksAreEnqueuedOnce, Batches!BatchRow
<1>2. batch.successes = 0
  BY <1>1
<1> QED
  BY <1>1, <1>2 DEF BatchHolds, UnseenOK, Batches!TotalIsTheMembership

\* _claim_open: the row that add() locks is open, and has no total.
LEMMA ClaimOpenHolds ==
  ASSUME BatchHolds, NEW c \in Callers, Batches!ClaimOpen(c)
  PROVE  BatchHolds'
<1>1. Batches!TypeOK /\ c \in Batches!Processes /\ c \notin Reconcilers
  BY BatchFacts DEF BatchHolds
<1>2. Rest /\ UNCHANGED reopened /\ call[c].at = "claiming" /\ Batches!Free(c)
  BY DEF Batches!ClaimOpen, Batches!rows, Batches!ghosts, Rest
<1> DEFINE open == Batches!RowFor(c).status = "open"
<1>3. CASE open /\ Batches!Refused(c)
  <2>1. Batches!Reissue(c, "retrying")
    BY <1>3 DEF Batches!ClaimOpen
  <2> QED
    BY <1>1, <1>2, <2>1, ReissueHolds
<1>4. CASE open /\ ~Batches!Refused(c)
  <2> DEFINE r == Batches!RowFor(c)
             m == [call[c] EXCEPT !.at = "inserting", !.tries = 0]
  <2>1. Batches!Writes(c, r) /\ call' = [call EXCEPT ![c] = m]
    BY <1>1, <1>4, BatchFacts DEF Batches!ClaimOpen
  <2>2. 0 \in 0 .. MAX_SERIALIZATION_ATTEMPTS - 1
    BY BatchAssumption DEF Batches!Parameters
  <2>3. /\ m \in Batches!Call /\ m.at = "inserting" /\ m.member = call[c].member
        /\ m.fresh = call[c].fresh
    BY <1>1, <2>2, BatchFacts DEF Batches!Call
  <2>4. r \in Batches!BatchRow /\ r.status = "open"
    BY <1>1, <1>4, RowForIs
  <2>5. /\ batch.status = "open" /\ r.completes = 0 /\ r.successes = 0 /\ r.total = None
        /\ r.unseen = {}
    <3>1. CASE tx[c].row = {}
      BY <1>1, <1>4, <2>4, <3>1, RowForIs, OpenIs
    <3>2. CASE tx[c].row # {}
      <4>1. r \in tx[c].row
        BY <1>1, <3>2, RowForIs
      <4> QED
        BY <1>1, <2>4, <4>1 DEF BatchHolds, ProcessOK, BatchRowOK
    <3> QED
      BY <3>1, <3>2
  <2> HIDE DEF r, m
  <2> QED
    BY <1>1, <1>2, <1>4, <2>1, <2>3, <2>4, <2>5, CallerWrites
<1>5. CASE ~open
  <2>1. Batches!AddRaises(c)
    BY <1>5 DEF Batches!ClaimOpen
  <2> QED
    BY <1>2, <2>1, AddRaisesHolds
<1> QED
  BY <1>3, <1>4, <1>5

\* seal() writes the status first, and the total when it has counted.
LEMMA WriteSealedHolds ==
  ASSUME BatchHolds, NEW c \in Callers, Batches!WriteSealed(c)
  PROVE  BatchHolds'
<1>1. Batches!TypeOK /\ c \in Batches!Processes /\ c \notin Reconcilers
  BY BatchFacts DEF BatchHolds
<1>2. Rest /\ UNCHANGED reopened /\ call[c].at = "sealing" /\ Batches!Free(c)
  BY DEF Batches!WriteSealed, Batches!rows, Batches!ghosts, Rest
<1>3. CASE /\ Batches!RowFor(c).status = "open" /\ ~Batches!Refused(c)
           /\ Batches!Writes(c, [Batches!RowFor(c) EXCEPT !.status = "sealed"])
           /\ Batches!Goes(c, "counting")
  <2> DEFINE o == Batches!RowFor(c)
             r == [o EXCEPT !.status = "sealed"]
             m == [call[c] EXCEPT !.at = "counting"]
  <2>1. Batches!Writes(c, r) /\ call' = [call EXCEPT ![c] = m]
    BY <1>1, <1>3, BatchFacts DEF Batches!Goes
  <2>2. m \in Batches!Call /\ m.at = "counting"
    BY <1>1, BatchFacts DEF Batches!Call
  <2>3. o \in Batches!BatchRow /\ o.status = "open"
    BY <1>1, <1>3, RowForIs
  <2>4. /\ batch.status = "open" /\ o.completes = 0 /\ o.successes = 0 /\ o.total = None
        /\ o.unseen = {}
    <3>1. CASE tx[c].row = {}
      BY <1>1, <1>3, <2>3, <3>1, RowForIs, OpenIs
    <3>2. CASE tx[c].row # {}
      <4>1. o \in tx[c].row
        BY <1>1, <3>2, RowForIs
      <4> QED
        BY <1>1, <2>3, <4>1 DEF BatchHolds, ProcessOK, BatchRowOK
    <3> QED
      BY <3>1, <3>2
  <2> HIDE DEF o
  <2>5. /\ r \in Batches!BatchRow /\ r.status = "sealed" /\ r.completes = 0 /\ r.successes = 0
        /\ r.total = None /\ r.unseen = {}
    BY <2>3, <2>4 DEF Batches!BatchRow
  <2> HIDE DEF r, m
  <2> QED
    BY <1>1, <1>2, <1>3, <2>1, <2>2, <2>4, <2>5, CallerWrites
<1>4. CASE Batches!RollsBack(c) /\ Batches!Ends(c)
  BY <1>1, <1>2, <1>4, EndsHolds
<1>5. CASE UNCHANGED tx /\ Batches!Ends(c)
  <2> DEFINE m == Batches!NoCall
  <2>1. Local(c, m, tx[c])
    BY <1>1, <1>2, <1>5, NothingIs, BatchFacts DEF Local, Rest, Batches!TypeOK, Batches!Ends
  <2>2. m.at = "idle"
    BY <1>1, NothingIs
  <2> HIDE DEF m
  <2>3. /\ tx'[c] = tx[c] /\ call'[c] = m /\ engine' = engine /\ batch' = batch
        /\ members' = members /\ task' = task /\ succeeded' = succeeded
        /\ Batches!Pending' = Batches!Pending
    BY <1>1, <2>1, LocalIs
  <2>4. ProcessOK(c)
    BY <1>1 DEF BatchHolds
  <2>5. BatchRowOK(c)'
    BY <1>1, <2>2, <2>3, <2>4 DEF ProcessOK, BatchRowOK
  <2>6. ViewOK(c)'
    BY <1>1, <2>2, <2>3, <2>4 DEF ProcessOK, ViewOK
  <2>7. CallOK(c)'
    BY <1>1, <2>2, <2>3, <2>4 DEF ProcessOK, CallOK
  <2>8. \A t \in tx[c].tasks :
          t \in tx[c].tasks \/ \A q \in Batches!Processes : t \notin tx[q].tasks
    OBVIOUS
  <2> QED
    BY <1>1, <1>2, <2>1, <2>5, <2>6, <2>7, <2>8, LocalHolds DEF ProcessOK
<1> QED
  BY <1>3, <1>4, <1>5 DEF Batches!WriteSealed

\* A caller's own transaction takes the member in; it commits when its caller says so.
LEMMA InsertsHolds ==
  ASSUME BatchHolds, NEW c \in Callers, Batches!Insert(c), ~Batches!Owned(c),
         call[c].member \notin members \cup tx[c].members
  PROVE  BatchHolds'
<1>1. Batches!TypeOK /\ c \in Batches!Processes /\ c \notin Reconcilers /\ c \in Ambient
  BY BatchFacts DEF BatchHolds, Batches!Owned
<1>2. Rest /\ UNCHANGED reopened /\ call[c].at = "inserting"
  BY DEF Batches!Insert, Batches!rows, Batches!ghosts, Rest
<1> DEFINE t == call[c].member
           n == [tx[c] EXCEPT !.members = tx[c].members \cup {t}]
           m == Batches!NoCall
<1>3. tx' = [tx EXCEPT ![c] = n] /\ call' = [call EXCEPT ![c] = m]
  BY <1>1, BatchFacts DEF Batches!Insert, Batches!Ends
<1>4. ProcessOK(c)
  BY <1>1 DEF BatchHolds
<1>5. t \in Tasks /\ (task[t] = "absent" => t \in tx[c].tasks) /\ tx[c].row # {}
  BY <1>2, <1>4 DEF ProcessOK, CallOK
<1>6. /\ n \in Batches!Transaction /\ n.row = tx[c].row /\ n.members = tx[c].members \cup {t}
      /\ n.tasks = tx[c].tasks /\ n.view = tx[c].view /\ n.changed = tx[c].changed
  <2> HIDE DEF t
  <2> QED
    BY <1>1, <1>5, BatchFacts DEF Batches!Transaction
<1>7. m \in Batches!Call /\ m.at = "idle"
  BY <1>1, NothingIs
<1> HIDE DEF m
<1>8. Local(c, m, n)
  <2> HIDE DEF n
  <2> QED
    BY <1>1, <1>2, <1>3, <1>6, <1>7 DEF Local, Rest, Batches!TypeOK
<1> HIDE DEF n
<1>9. /\ tx'[c] = n /\ call'[c] = m /\ engine' = engine /\ batch' = batch
      /\ members' = members /\ task' = task /\ succeeded' = succeeded
      /\ Batches!Pending' = Batches!Pending
  BY <1>1, <1>8, LocalIs
<1>10. BatchRowOK(c)'
  <2>1. \A r \in tx[c].row : r.total = None
    BY <1>2, <1>4 DEF ProcessOK, BatchRowOK
  <2> QED
    BY <1>1, <1>4, <1>6, <1>7, <1>9, <2>1 DEF ProcessOK, BatchRowOK
<1>11. ViewOK(c)'
  BY <1>1, <1>4, <1>6, <1>7, <1>9 DEF ProcessOK, ViewOK
<1>12. CallOK(c)'
  BY <1>1, <1>4, <1>5, <1>6, <1>7, <1>9 DEF ProcessOK, CallOK
<1> QED
  BY <1>1, <1>5, <1>6, <1>8, <1>10, <1>11, <1>12, LocalHolds DEF ProcessOK

-----------------------------------------------------------------------------
(* Commits.                                                                *)

LEMMA FinishedIs ==
  ASSUME Batches!TypeOK, report.at = "answered"
  PROVE  Batches!Finished \in Int
<1>1. /\ report.total \in Batches!Counts \cup {None} /\ report.members \in Batches!Counts
      /\ report.pending \in Batches!Counts /\ report.rows \in Batches!Counts
  BY DEF Batches!TypeOK
<1>2. Batches!Counts \subseteq Int
  BY DEF Batches!Counts
<1>3. Batches!Denominator(report) \in Int /\ report.pending \in Int
  BY <1>1, <1>2 DEF Batches!Denominator
<1> QED
  BY <1>3 DEF Batches!Finished

\* What progress() has read stays below what has been settled.
LEMMA ReportKeeps ==
  ASSUME Batches!TypeOK, ReportOK, report' = report, watched' = watched,
         members \subseteq members', members' \in SUBSET Tasks,
         settledOnce \subseteq settledOnce'
  PROVE  ReportOK'
<1>1. members \in SUBSET Tasks
  BY DEF Batches!TypeOK
<1>2. /\ Cardinality(members) <= Cardinality(members')
      /\ Cardinality(members) \in Nat /\ Cardinality(members') \in Nat
  BY <1>1, Grows
<1>3. ASSUME report.at = "tasks"
      PROVE  /\ report.total # None => report.total <= Cardinality(members')
             /\ report.members <= Cardinality(members')
  <2>1. /\ report.total # None => report.total \in Nat
        /\ report.members \in Nat
    BY DEF Batches!TypeOK, Batches!Counts
  <2>2. /\ report.total # None => report.total <= Cardinality(members)
        /\ report.members <= Cardinality(members)
    BY <1>3 DEF ReportOK
  <2> QED
    BY <1>2, <2>1, <2>2, AtMost
<1>4. ASSUME report.at = "answered"
      PROVE  Batches!Finished <= Cardinality(settledOnce' \cap members')
  <2>1. Batches!Finished <= Cardinality(settledOnce \cap members) /\ Batches!Finished \in Int
    BY <1>4, FinishedIs, SameCounts DEF ReportOK, Batches!ProgressNeverRunsAhead
  <2>2. /\ Cardinality(settledOnce \cap members) <= Cardinality(settledOnce' \cap members')
        /\ Cardinality(settledOnce \cap members) \in Nat
        /\ Cardinality(settledOnce' \cap members') \in Nat
    BY <1>1, Grows
  <2> QED
    BY <2>1, <2>2
<1>5. Batches!Finished' = Batches!Finished
  BY DEF Batches!Finished
<1>6. Batches!ProgressNeverRunsAhead'
  BY <1>4, <1>5, SameCounts DEF Batches!ProgressNeverRunsAhead
<1> QED
  BY <1>3, <1>6 DEF ReportOK

\* p's transaction commits: r, if it has written the batch row, and the new tasks.
Ended(p, r, new) ==
  /\ call' = [call EXCEPT ![p] = Batches!NoCall] \/ call' = call
  /\ \/ /\ tx[p].row # {} /\ batch' = r
        /\ tx' = [q \in Batches!Processes |-> IF q = p THEN Batches!NoTx ELSE Batches!Behind(q)]
     \/ /\ batch' = batch /\ members' = members
        /\ tx' = [tx EXCEPT ![p] = Batches!NoTx]
  /\ task' = [t \in Tasks |-> IF t \in new THEN "pending" ELSE task[t]]
  /\ UNCHANGED <<engine, watched, report, mishaps, settledOnce, succeeded, reopened>>

\* What a commit changes, and what it does not.
LEMMA EndedTypes ==
  ASSUME BatchHolds, NEW p \in Batches!Processes, NEW r \in Batches!BatchRow,
         NEW new \in SUBSET Tasks, Ended(p, r, new), members' \in SUBSET Tasks
  PROVE  /\ Batches!TypeOK'
         /\ tx'[p] = Batches!NoTx
         /\ call'[p] = Batches!NoCall \/ call'[p] = call[p]
         /\ \A q \in Batches!Processes \ {p} :
              /\ call'[q] = call[q]
              /\ tx'[q] = tx[q] \/ (tx'[q] = Batches!Behind(q) /\ tx[p].row # {})
              /\ \/ tx'[q] = tx[q] /\ batch' = batch /\ members' = members
                 \/ tx'[q] = Batches!Behind(q) /\ tx[p].row # {}
<1>1. Batches!TypeOK
  BY DEF BatchHolds
<1>2. /\ tx' \in [Batches!Processes -> Batches!Transaction]
      /\ tx'[p] = Batches!NoTx
      /\ \A q \in Batches!Processes \ {p} :
              /\ tx'[q] = tx[q] \/ (tx'[q] = Batches!Behind(q) /\ tx[p].row # {})
              /\ \/ tx'[q] = tx[q] /\ batch' = batch /\ members' = members
                 \/ tx'[q] = Batches!Behind(q) /\ tx[p].row # {}
  <2>1. \A q \in Batches!Processes : Batches!Behind(q) \in Batches!Transaction
    BY <1>1, BehindIs
  <2>2. Batches!NoTx \in Batches!Transaction
    BY <1>1, NothingIs
  <2> QED
    BY <1>1, <2>1, <2>2, BatchFacts DEF Ended
<1>3. /\ call' \in [Batches!Processes -> Batches!Call]
      /\ call'[p] = Batches!NoCall \/ call'[p] = call[p]
      /\ \A q \in Batches!Processes \ {p} : call'[q] = call[q]
  BY <1>1, NothingIs, BatchFacts DEF Ended
<1>4. task' \in [Tasks -> Batches!TaskStatuses]
  BY <1>1 DEF Ended, Batches!TypeOK, Batches!TaskStatuses
<1>5. batch' \in Batches!BatchRow
  BY <1>1 DEF Ended, Batches!TypeOK
<1>6. Batches!TypeOK'
  BY <1>1, <1>2, <1>3, <1>4, <1>5 DEF Ended, Batches!TypeOK
<1> QED
  BY <1>2, <1>3, <1>6

\* A commit keeps the invariant, given what the new row says.
LEMMA CommitHolds ==
  ASSUME BatchHolds, NEW p \in Batches!Processes, NEW r \in Batches!BatchRow,
         NEW new \in SUBSET tx[p].tasks, Ended(p, r, new),
         members' \in SUBSET Tasks, members \subseteq members',
         \A t \in members' : task'[t] # "absent",
         call'[p].at = "idle",
         UnseenOK', Batches!TotalIsTheMembership', Batches!CallbacksAreEnqueuedOnce'
  PROVE  BatchHolds'
<1>1. Batches!TypeOK /\ \A q \in Batches!Processes : ProcessOK(q)
  BY DEF BatchHolds
<1>2. new \in SUBSET Tasks /\ \A t \in new : task[t] = "absent"
  BY <1>1, BatchFacts DEF ProcessOK, CallOK
<1>3. /\ Batches!TypeOK'
      /\ tx'[p] = Batches!NoTx
      /\ \A q \in Batches!Processes \ {p} :
              /\ call'[q] = call[q]
              /\ \/ tx'[q] = tx[q] /\ batch' = batch /\ members' = members
                 \/ tx'[q] = Batches!Behind(q) /\ tx[p].row # {}
  BY <1>2, EndedTypes
<1>4. /\ task' = [t \in Tasks |-> IF t \in new THEN "pending" ELSE task[t]]
      /\ engine' = engine /\ watched' = watched /\ report' = report /\ settledOnce' = settledOnce
      /\ succeeded' = succeeded /\ reopened' = reopened
  BY DEF Ended
<1>5. ASSUME members' = members
      PROVE  Batches!Pending' = Batches!Pending
  <2>1. \A t \in members : t \in Tasks /\ task'[t] = task[t]
    BY <1>1, <1>2, <1>4, BatchFacts DEF BatchHolds, MembersOK
  <2> QED
    BY <1>5, <2>1 DEF Batches!Pending, Batches!Holding
<1>6. ASSUME NEW q \in Batches!Processes
      PROVE  ProcessOK(q)'
  <2>1. CASE q = p
    BY <1>1, <1>3, <2>1, NothingIs, BatchFacts DEF ProcessOK, BatchRowOK, ViewOK, CallOK
  <2>2. CASE q # p
    <3>1. tx[q].tasks \cap tx[p].tasks = {} /\ (tx[p].row # {} => tx[q].row = {})
      BY <2>2 DEF BatchHolds, Excludes
    <3>2. \A t \in Tasks :
            /\ task'[t] = "absent" => task[t] = "absent"
            /\ t \in tx[q].tasks /\ task[t] = "absent" => task'[t] = "absent"
      BY <1>2, <1>4, <3>1
    <3>3. Leaves(q)
      BY <1>3, <1>4, <1>5, <2>2, <3>1, <3>2 DEF Leaves
    <3> QED
      BY <1>1, <3>3, LeavesHolds
  <2> QED
    BY <2>1, <2>2
<1>7. Excludes'
  <2>1. \A q \in Batches!Processes :
          Batches!Behind(q).row = tx[q].row /\ Batches!Behind(q).tasks = tx[q].tasks
    BY <1>1, BehindIs
  <2>2. \A q \in Batches!Processes :
          tx'[q].row \subseteq tx[q].row /\ tx'[q].tasks \subseteq tx[q].tasks
    BY <1>1, <1>3, <2>1, NothingIs
  <2> QED
    BY <2>2 DEF BatchHolds, Excludes
<1>8. MembersOK'
  <2>1. MembersOK
    BY DEF BatchHolds
  <2>2. \A t \in Tasks : task'[t] = task[t] \/ task'[t] = "pending"
    BY <1>4
  <2> QED
    BY <1>4, <2>1, <2>2 DEF MembersOK, Batches!Settled
<1>9. ReportOK'
  BY <1>1, <1>4, ReportKeeps DEF BatchHolds
<1> QED
  BY <1>3, <1>6, <1>7, <1>8, <1>9 DEF BatchHolds

\* A task that is not committed is no committed member.
LEMMA NewTasksAre ==
  ASSUME BatchHolds, NEW p \in Batches!Processes
  PROVE  /\ \A t \in members : t \notin tx[p].tasks /\ task[t] # "absent"
         /\ tx[p].tasks \in SUBSET Tasks
<1>1. Batches!TypeOK /\ ProcessOK(p)
  BY DEF BatchHolds
<1> QED
  BY <1>1, BatchFacts DEF BatchHolds, ProcessOK, CallOK, MembersOK

\* add() of a caller that opened no transaction: the member and its task commit.
LEMMA AddCommits ==
  ASSUME BatchHolds, NEW c \in Callers, Batches!Insert(c), Batches!Owned(c),
         call[c].member \notin members \cup tx[c].members
  PROVE  BatchHolds'
<1>1. Batches!TypeOK /\ c \in Batches!Processes /\ ProcessOK(c)
  BY BatchFacts DEF BatchHolds
<1>2. /\ call[c].at = "inserting" /\ tx[c].row # {} /\ call[c].member \in Tasks
      /\ task[call[c].member] = "absent" => call[c].member \in tx[c].tasks
  BY <1>1 DEF Batches!Insert, ProcessOK, CallOK
<1> DEFINE r == Batches!RowFor(c)
<1>3. r \in tx[c].row /\ r \in Batches!BatchRow
  BY <1>1, <1>2, RowForIs
<1>4. r.status = "open" /\ r.total = None /\ r.completes = 0 /\ r.successes = 0 /\ r.unseen = {}
  BY <1>1, <1>2, <1>3 DEF ProcessOK, BatchRowOK
<1>5. Ended(c, r, tx[c].tasks) /\ members' = members \cup {call[c].member} /\ batch' = r
  BY <1>1, <1>2 DEF Ended, Batches!Insert, Batches!Commit, Batches!CommitRow, Batches!Ends,
     Batches!ghosts
<1> HIDE DEF r
<1>6. call'[c].at = "idle"
  BY <1>1, <1>5, EndedTypes, NothingIs, BatchFacts DEF Batches!Insert, Batches!Ends
<1>7. members' \in SUBSET Tasks /\ members \subseteq members'
  BY <1>1, <1>2, <1>5, BatchFacts
<1>8. \A t \in members' : task'[t] # "absent"
  BY <1>1, <1>2, <1>5, <1>7, NewTasksAre DEF Ended
<1>9. UnseenOK' /\ Batches!TotalIsTheMembership' /\ Batches!CallbacksAreEnqueuedOnce'
  <2>1. 0 <= 0
    OBVIOUS
  <2> QED
    BY <1>4, <1>5, <2>1 DEF UnseenOK, Batches!TotalIsTheMembership, Batches!CallbacksAreEnqueuedOnce
<1> QED
  BY <1>1, <1>3, <1>5, <1>6, <1>7, <1>8, <1>9, CommitHolds

LEMMA InsertHolds ==
  ASSUME BatchHolds, NEW c \in Callers, Batches!Insert(c)
  PROVE  BatchHolds'
<1>1. CASE call[c].member \in members \cup tx[c].members
  <2>1. Batches!AddRaises(c) /\ Rest /\ UNCHANGED reopened /\ call[c].at = "inserting"
    BY <1>1 DEF Batches!Insert, Batches!rows, Batches!ghosts, Rest
  <2> QED
    BY <2>1, AddRaisesHolds
<1>2. CASE call[c].member \notin members \cup tx[c].members
  BY <1>2, AddCommits, InsertsHolds
<1> QED
  BY <1>1, <1>2

\* All but what is missing is what is there.
LEMMA AllButTheMissing ==
  ASSUME NEW M, NEW A, NEW X, A \subseteq M
  PROVE  A \cup X = (M \cup X) \ (M \ (A \cup X))
OBVIOUS

\* What a caller that holds the row counts is the membership, but for what it cannot see.
LEMMA MembersSeenAre ==
  ASSUME BatchHolds, NEW c \in Callers, tx[c].row # {}
  PROVE  /\ Batches!MembersSeen(c) \cup tx[c].members =
              (members \cup tx[c].members) \ Batches!Unseen(c)
         /\ Batches!Unseen(c) \in SUBSET Tasks
         /\ Batches!Unseen(c) # {} => engine = "manual" /\ ~Batches!Owned(c)
<1>1. Batches!TypeOK /\ c \in Batches!Processes /\ ProcessOK(c)
  BY BatchFacts DEF BatchHolds
<1>2. ~tx[c].changed
  BY <1>1 DEF ProcessOK, BatchRowOK
<1>3. /\ engine = "refuses" => Batches!Sees(c).members = members
      /\ Batches!Sees(c).members \subseteq members
  <2>1. CASE tx[c].view = {}
    BY <1>1, <2>1, SeesIs, CommittedIs
  <2>2. CASE tx[c].view # {}
    <3>1. PICK db \in tx[c].view : TRUE
      BY <2>2
    <3>2. db.members \subseteq members /\ (engine = "refuses" => db.members = members)
      BY <1>1, <1>2, <3>1 DEF ProcessOK, ViewOK
    <3> QED
      BY <1>1, <3>1, <3>2, SeesIs
  <2> QED
    BY <2>1, <2>2
<1>4. Batches!Unseen(c) \in SUBSET Tasks
      /\ (Batches!Unseen(c) # {} => engine = "manual" /\ ~Batches!Owned(c))
  BY <1>1, BatchFacts DEF Batches!Unseen, Batches!Manual, Batches!Owned
<1>5. CASE Batches!Manual(c)
  <2>1. /\ Batches!MembersSeen(c) = Batches!Sees(c).members
        /\ Batches!Unseen(c) = members \ (Batches!Sees(c).members \cup tx[c].members)
    BY <1>5 DEF Batches!MembersSeen, Batches!Unseen
  <2>2. Batches!Sees(c).members \subseteq members
    BY <1>3
  <2> QED
    BY <1>4, <2>1, <2>2, AllButTheMissing
<1>6. CASE ~Batches!Manual(c)
  BY <1>3, <1>6 DEF Batches!MembersSeen, Batches!Unseen
<1> QED
  BY <1>4, <1>5, <1>6

\* The total that seal() stores is what it sees of the membership at its commit: the row
\* is locked.
LEMMA CountMembersHolds ==
  ASSUME BatchHolds, NEW c \in Callers, Batches!CountMembers(c)
  PROVE  BatchHolds'
<1>1. Batches!TypeOK /\ c \in Batches!Processes /\ ProcessOK(c)
  BY BatchFacts DEF BatchHolds
<1> DEFINE u == Batches!Unseen(c)
           all == (members \cup tx[c].members) \ u
           k == Batches!Cardinality(all)
           o == Batches!RowFor(c)
           r == [o EXCEPT !.total = k, !.unseen = u]
<1>2. tx[c].row # {} /\ call[c].at = "counting"
  BY <1>1 DEF Batches!CountMembers, ProcessOK, CallOK
<1>3. /\ IF Batches!Owned(c) THEN Batches!CommitRow(c, r)
         ELSE Batches!Writes(c, r) /\ UNCHANGED batch
      /\ Batches!Ends(c)
      /\ UNCHANGED <<engine, watched, members, task, report, mishaps, settledOnce, succeeded,
                     reopened>>
  BY <1>2, MembersSeenAre DEF Batches!CountMembers, Batches!ghosts
<1>4. /\ all \in SUBSET Tasks /\ u \in SUBSET Tasks
      /\ u # {} => engine = "manual" /\ ~Batches!Owned(c)
  BY <1>1, <1>2, MembersSeenAre, BatchFacts
<1> HIDE DEF all, u
<1>5. k \in Batches!Counts /\ k = Cardinality(all) /\ k \in Nat
  BY <1>4, CountsAre, SameCounts
<1> HIDE DEF k
<1>6. o \in tx[c].row /\ o \in Batches!BatchRow
  BY <1>1, <1>2, RowForIs
<1> HIDE DEF o
<1>7. o.status = "sealed" /\ o.completes = 0 /\ o.successes = 0 /\ batch.status = "open"
  BY <1>1, <1>2, <1>6 DEF ProcessOK, BatchRowOK
<1>8. /\ r \in Batches!BatchRow /\ r.status = "sealed" /\ r.total = k /\ r.completes = 0
      /\ r.successes = 0 /\ r.unseen = u
  BY <1>4, <1>5, <1>6, <1>7 DEF Batches!BatchRow
<1> HIDE DEF r
<1>9. CASE Batches!Owned(c)
  <2>1. tx[c].members = {} /\ all = members /\ u = {}
    BY <1>1, <1>4, <1>9 DEF ProcessOK, CallOK, Batches!Owned, all
  <2>2. Ended(c, r, {}) /\ batch' = r
    <3>1. task' = [t \in Tasks |-> IF t \in {} THEN "pending" ELSE task[t]]
      BY <1>1, <1>3 DEF Batches!TypeOK
    <3>2. /\ batch' = r
          /\ tx' = [q \in Batches!Processes |->
                     IF q = c THEN Batches!NoTx ELSE Batches!Behind(q)]
      BY <1>3, <1>9 DEF Batches!CommitRow
    <3> QED
      BY <1>2, <1>3, <3>1, <3>2 DEF Ended, Batches!Ends
  <2>3. call'[c].at = "idle"
    BY <1>1, <1>3, NothingIs, BatchFacts DEF Batches!Ends
  <2>4. members' = members /\ task' = task /\ members \in SUBSET Tasks
    BY <1>1, <1>3, BatchFacts
  <2>5. \A t \in members' : task'[t] # "absent"
    BY <2>4, <1>1, NewTasksAre
  <2>6. UnseenOK' /\ Batches!TotalIsTheMembership' /\ Batches!CallbacksAreEnqueuedOnce'
    <3>1. 0 <= 0 /\ Batches!Cardinality(members' \ {}) = k
      <4>1. members' \ {} = members
        BY <2>4
      <4> QED
        BY <2>1, <4>1 DEF k
    <3> QED
      BY <1>8, <2>1, <2>2, <2>4, <3>1 DEF UnseenOK, Batches!TotalIsTheMembership,
         Batches!CallbacksAreEnqueuedOnce
  <2>7. {} \in SUBSET tx[c].tasks
    OBVIOUS
  <2> QED
    BY <1>1, <1>8, <2>2, <2>3, <2>4, <2>5, <2>6, <2>7, CommitHolds
<1>10. CASE ~Batches!Owned(c)
  <2> DEFINE m == Batches!NoCall
  <2>1. call' = [call EXCEPT ![c] = m] /\ Batches!Writes(c, r) /\ Rest /\ UNCHANGED reopened
    BY <1>3, <1>10 DEF Batches!Ends, Rest
  <2>2. m \in Batches!Call /\ m.at = "idle"
    BY <1>1, NothingIs
  <2>3. /\ r.total = Cardinality((members \cup tx[c].members) \ r.unseen)
        /\ r.unseen # {} => engine = "manual" /\ r.total # None
    <3>1. k # None
      BY <1>5, BatchAssumption DEF Batches!Parameters
    <3> QED
      BY <1>4, <1>5, <1>8, <3>1 DEF all
  <2> HIDE DEF m
  <2> QED
    BY <1>2, <1>7, <1>8, <2>1, <2>2, <2>3, CallerWrites
<1> QED
  BY <1>9, <1>10

\* A caller's own commit, of whatever its add()s and its seal() wrote.
LEMMA CallerCommitsHolds ==
  ASSUME BatchHolds, NEW c \in Callers, Batches!CallerCommits(c)
  PROVE  BatchHolds'
<1>1. Batches!TypeOK /\ c \in Batches!Processes /\ ProcessOK(c)
  BY BatchFacts DEF BatchHolds
<1>2. /\ Batches!Commit(c) /\ members' = members \cup tx[c].members /\ call[c].at = "idle"
      /\ UNCHANGED <<engine, watched, call, report, mishaps, settledOnce, succeeded, reopened>>
  BY DEF Batches!CallerCommits, Batches!ghosts
<1> DEFINE r == Batches!RowFor(c)
<1>3. r \in Batches!BatchRow
  BY <1>1, RowForIs
<1>4. tx[c].row = {} => members' = members
  BY <1>1, <1>2 DEF ProcessOK, CallOK
<1>5. Ended(c, r, tx[c].tasks)
  BY <1>2, <1>4 DEF Ended, Batches!Commit, Batches!CommitRow
<1>6. members' \in SUBSET Tasks /\ members \subseteq members'
  BY <1>1, <1>2, BatchFacts
<1>7. \A t \in members' : task'[t] # "absent"
  <2>1. \A t \in tx[c].members : t \in Tasks /\ (task[t] = "absent" => t \in tx[c].tasks)
    BY <1>1, BatchFacts DEF ProcessOK, CallOK
  <2> QED
    BY <1>1, <1>2, <1>5, <1>6, <2>1, NewTasksAre DEF Ended
<1>8. UnseenOK' /\ Batches!TotalIsTheMembership' /\ Batches!CallbacksAreEnqueuedOnce'
  <2>1. CASE tx[c].row = {}
    <3>1. batch' = batch /\ members' = members /\ engine' = engine
      BY <1>2, <1>4, <2>1 DEF Batches!Commit
    <3> QED
      BY <3>1 DEF BatchHolds, UnseenOK, Batches!TotalIsTheMembership, Batches!CallbacksAreEnqueuedOnce
  <2>2. CASE tx[c].row # {}
    <3>1. batch' = r /\ r \in tx[c].row
      BY <1>1, <1>2, <2>2, RowForIs DEF Batches!Commit, Batches!CommitRow
    <3>2. /\ r.completes = 0 /\ r.successes = 0 /\ r.status \in {"open", "sealed"}
          /\ r.total # None => r.status # "open" /\ r.total = Cardinality(members' \ r.unseen)
          /\ r.unseen # {} => engine' = "manual" /\ r.total # None
      BY <1>1, <1>2, <3>1 DEF ProcessOK, BatchRowOK
    <3>3. 0 <= 0 /\ Batches!Cardinality(members' \ r.unseen) = Cardinality(members' \ r.unseen)
      BY SameCounts
    <3> HIDE DEF r
    <3> QED
      BY <3>1, <3>2, <3>3 DEF UnseenOK, Batches!TotalIsTheMembership, Batches!CallbacksAreEnqueuedOnce
  <2> QED
    BY <2>1, <2>2
<1>9. call'[c].at = "idle" /\ tx[c].tasks \in SUBSET tx[c].tasks
  BY <1>2
<1> HIDE DEF r
<1> QED
  BY <1>1, <1>3, <1>5, <1>6, <1>7, <1>8, <1>9, CommitHolds

\* An UPDATE by hand gives no total, and every open snapshot is behind.
LEMMA SealByHandHolds ==
  ASSUME BatchHolds, Batches!SealByHand
  PROVE  BatchHolds'
<1>1. Batches!TypeOK /\ \A q \in Batches!Processes : ProcessOK(q)
  BY DEF BatchHolds
<1>2. /\ batch.status = "open" /\ \A q \in Batches!Processes : tx[q].row = {}
      /\ batch' = [batch EXCEPT !.status = "sealed"]
      /\ tx' = [q \in Batches!Processes |-> Batches!Behind(q)]
      /\ UNCHANGED <<engine, watched, members, task, call, report, mishaps, settledOnce,
                     succeeded, reopened>>
  BY DEF Batches!SealByHand, Batches!ghosts
<1>3. /\ batch' \in Batches!BatchRow /\ batch'.status = "sealed" /\ batch'.total = None
      /\ batch'.unseen = {} /\ batch'.completes = 0 /\ batch'.successes = 0
  BY <1>1, <1>2, OpenIs, BatchFacts DEF Batches!BatchRow
<1>4. \A q \in Batches!Processes : /\ tx'[q] = Batches!Behind(q) /\ tx'[q] \in Batches!Transaction
                                   /\ tx'[q].row = {} /\ tx'[q].tasks = tx[q].tasks
  BY <1>1, <1>2, BehindIs
<1>5. Batches!TypeOK'
  <2>1. tx' \in [Batches!Processes -> Batches!Transaction]
    BY <1>2, <1>4
  <2> QED
    BY <1>1, <1>2, <1>3, <2>1 DEF Batches!TypeOK
<1>6. Batches!Pending' = Batches!Pending
  BY <1>2 DEF Batches!Pending, Batches!Holding
<1>7. ASSUME NEW q \in Batches!Processes
      PROVE  ProcessOK(q)'
  <2>1. Leaves(q)
    BY <1>2, <1>4, <1>6 DEF Leaves
  <2> QED
    BY <1>1, <2>1, LeavesHolds
<1>8. Excludes' /\ MembersOK'
  BY <1>2, <1>4 DEF BatchHolds, Excludes, MembersOK
<1>9. ReportOK'
  BY <1>1, <1>2, BatchFacts, ReportKeeps DEF BatchHolds
<1>10. UnseenOK' /\ Batches!TotalIsTheMembership' /\ Batches!CallbacksAreEnqueuedOnce'
  <2>1. 0 <= 0
    OBVIOUS
  <2> QED
    BY <1>3, <2>1 DEF UnseenOK, Batches!TotalIsTheMembership, Batches!CallbacksAreEnqueuedOnce
<1> QED
  BY <1>5, <1>7, <1>8, <1>9, <1>10 DEF BatchHolds

-----------------------------------------------------------------------------
(* The reconcilers.                                                        *)

\* A reconciler's transaction inserts nothing, and its snapshot is of "refuses".
LEMMA ReconcilerIs ==
  ASSUME BatchHolds, NEW r \in Reconcilers
  PROVE  /\ Batches!TypeOK /\ r \in Batches!Processes /\ r \notin Callers /\ ProcessOK(r)
         /\ tx[r].members = {} /\ tx[r].tasks = {}
         /\ tx[r].view # {} => engine = "refuses" /\ call[r].at \in {"winning", "recounting"}
         /\ tx[r].row # {} <=> call[r].at \in {"recounting", "enqueueing"}
<1>1. Batches!TypeOK /\ r \in Batches!Processes /\ r \notin Callers /\ r \notin Ambient
  BY BatchFacts DEF BatchHolds
<1>2. ProcessOK(r)
  BY <1>1 DEF BatchHolds
<1> QED
  BY <1>1, <1>2 DEF ProcessOK, CallOK, ViewOK

\* A tally that no member hides behind: as many as it is taken over have succeeded.
LEMMA CleanIs ==
  ASSUME Batches!TypeOK, MembersOK
  PROVE  /\ ~Batches!MemberTaskCounts.pending => Batches!Pending = {}
         /\ \A n \in Nat :
              Clean(Batches!MemberTaskCounts, n) => n <= Cardinality(members \cap succeeded)
<1> DEFINE won == Batches!Holding(Batches!Settled \ Batches!Unattributed)
           bad == Batches!Holding({"failed"}) # {}
           k == Batches!Cardinality(won)
<1>1. Batches!MemberTaskCounts =
        IF Batches!Pending # {} THEN [Batches!NoTally EXCEPT !.pending = TRUE]
        ELSE [Batches!NoTally EXCEPT !.failed = bad, !.counted = k]
  BY DEF Batches!MemberTaskCounts
<1>2. /\ Batches!Pending # {} => Batches!MemberTaskCounts.pending
      /\ Batches!Pending = {} =>
           /\ Batches!MemberTaskCounts.failed = bad /\ Batches!MemberTaskCounts.counted = k
  <2> HIDE DEF bad, k
  <2> QED
    BY <1>1 DEF Batches!NoTally
<1>3. ASSUME NEW n \in Nat, Clean(Batches!MemberTaskCounts, n)
      PROVE  n <= Cardinality(members \cap succeeded)
  <2>1. ~bad /\ Batches!Shortfall(n, k) = 0
    BY <1>2, <1>3 DEF Clean
  <2>2. /\ members \in SUBSET Tasks /\ won \in SUBSET Tasks
        /\ members \cap succeeded \in SUBSET Tasks
    BY BatchFacts DEF Batches!Holding
  <2>3. k = Cardinality(won) /\ k \in Nat
    BY <2>2, CountsAre, SameCounts
  <2>4. n <= k
    BY <2>1, <2>3 DEF Batches!Shortfall
  <2>5. won \subseteq members \cap succeeded
    BY <2>1, <2>2 DEF MembersOK, Batches!Holding, Batches!Settled, Batches!Unattributed
  <2> QED
    BY <2>2, <2>3, <2>4, <2>5, Grows
<1> QED
  BY <1>2, <1>3

LEMMA FilterHolds ==
  ASSUME BatchHolds, NEW r \in Reconcilers, Batches!Filter(r)
  PROVE  BatchHolds'
<1>1. /\ Batches!TypeOK /\ r \in Batches!Processes /\ r \notin Callers /\ ProcessOK(r)
      /\ tx[r].members = {} /\ tx[r].tasks = {} /\ tx[r].view = {} /\ tx[r].row = {}
      /\ Rest /\ UNCHANGED <<tx, reopened>>
  BY ReconcilerIs DEF Batches!Filter, Rest, Batches!rows, Batches!ghosts
<1> DEFINE m == [call[r] EXCEPT !.at = "asking"]
<1>2. m \in Batches!Call /\ m.at = "asking" /\ call' = [call EXCEPT ![r] = m]
  BY <1>1, BatchFacts DEF Batches!Call, Batches!Filter, Batches!Goes
<1> HIDE DEF m
<1>3. Local(r, m, tx[r])
  BY <1>1, <1>2, BatchFacts DEF Local, Rest, Batches!TypeOK
<1>4. tx'[r] = tx[r] /\ call'[r] = m
  BY <1>1, <1>3, LocalIs
<1>5. ProcessOK(r)'
  BY <1>1, <1>2, <1>4, BatchFacts DEF ProcessOK, BatchRowOK, ViewOK, CallOK
<1> QED
  BY <1>1, <1>3, <1>5, LocalHolds

\* The snapshot of the compare-and-set counts what is committed.
LEMMA AskHolds ==
  ASSUME BatchHolds, NEW r \in Reconcilers, Batches!Ask(r)
  PROVE  BatchHolds'
<1>1. /\ Batches!TypeOK /\ r \in Batches!Processes /\ r \notin Callers /\ ProcessOK(r)
      /\ tx[r].members = {} /\ tx[r].tasks = {} /\ tx[r].row = {}
      /\ Rest /\ reopened' = [reopened EXCEPT ![r] = {}]
  BY ReconcilerIs DEF Batches!Ask, Rest, Batches!rows
<1> DEFINE m == [call[r] EXCEPT !.at = "winning"]
           n == [tx[r] EXCEPT !.open = TRUE, !.view = Batches!Snapshot(r)]
<1>2. m \in Batches!Call /\ m.at = "winning" /\ call' = [call EXCEPT ![r] = m]
  BY <1>1, BatchFacts DEF Batches!Call, Batches!Ask, Batches!Goes
<1>3. /\ n \in Batches!Transaction /\ n.row = {} /\ n.members = {} /\ n.tasks = {}
      /\ n.view = Batches!Snapshot(r) /\ tx' = [tx EXCEPT ![r] = n]
  BY <1>1, SnapshotIs, BatchFacts DEF Batches!Transaction, Batches!Ask
<1> HIDE DEF m, n
<1>4. reopened' \in [Reconcilers -> SUBSET Tasks] /\ reopened'[r] = {}
      /\ \A q \in Reconcilers \ {r} : reopened'[q] = reopened[q]
  BY <1>1 DEF Batches!TypeOK
<1>5. Local(r, m, n)
  BY <1>1, <1>2, <1>3, <1>4 DEF Local, Rest, Batches!TypeOK
<1>6. /\ tx'[r] = n /\ call'[r] = m /\ engine' = engine /\ batch' = batch /\ members' = members
      /\ succeeded' = succeeded /\ Batches!Pending' = Batches!Pending
  BY <1>1, <1>5, LocalIs
<1>7. MembersOK
  BY DEF BatchHolds
<1>8. ViewOK(r)'
  <2>1. CASE engine = "refuses"
    <3> DEFINE db == Batches!Committed(r)
    <3>1. n.view = {db}
      BY <1>1, <1>3, <2>1, SnapshotIs
    <3>2. db.batch = batch /\ db.members = members /\ db.tally = Batches!MemberTaskCounts
      BY <1>1, CommittedIs
    <3> HIDE DEF db
    <3>3. \A k \in Nat : Clean(db.tally, k) => k <= Cardinality(db.members \cap succeeded)
      BY <1>1, <1>7, <3>2, CleanIs
    <3>4. ~db.tally.pending => Batches!Pending \subseteq {}
      BY <1>1, <1>7, <3>2, CleanIs
    <3> QED
      BY <1>2, <1>4, <1>6, <2>1, <3>1, <3>2, <3>3, <3>4 DEF ViewOK
  <2>2. CASE engine # "refuses"
    BY <1>1, <1>3, <1>6, <2>2, SnapshotIs DEF ViewOK
  <2> QED
    BY <2>1, <2>2
<1>9. BatchRowOK(r)' /\ CallOK(r)'
  BY <1>1, <1>2, <1>3, <1>6 DEF BatchRowOK, CallOK
<1> QED
  BY <1>1, <1>3, <1>5, <1>8, <1>9, LocalHolds DEF ProcessOK

\* The compare-and-set finds the committed row SEALED, or it is not won.
LEMMA WinHolds ==
  ASSUME BatchHolds, NEW r \in Reconcilers, Batches!Win(r)
  PROVE  BatchHolds'
<1>1. /\ Batches!TypeOK /\ r \in Batches!Processes /\ r \notin Callers /\ ProcessOK(r)
      /\ tx[r].members = {} /\ tx[r].tasks = {} /\ tx[r].row = {} /\ call[r].at = "winning"
      /\ tx[r].view # {} => engine = "refuses"
      /\ Rest /\ UNCHANGED reopened /\ Batches!Free(r)
  BY ReconcilerIs DEF Batches!Win, Rest, Batches!rows, Batches!ghosts
<1>2. CASE ~Batches!Won(r)
  BY <1>1, <1>2, EndsHolds DEF Batches!Win
<1>3. CASE Batches!Won(r) /\ Batches!Refused(r)
  BY <1>1, <1>3, ReissueHolds DEF Batches!Win
<1>4. CASE Batches!Won(r) /\ ~Batches!Refused(r)
  <2> DEFINE o == Batches!RowFor(r)
             w == [o EXCEPT !.status = "complete"]
             m == [call[r] EXCEPT !.at = "recounting", !.tries = 0]
             n == [tx[r] EXCEPT !.row = {w}, !.changed = FALSE]
  <2>1. call' = [call EXCEPT ![r] = m] /\ Batches!Writes(r, w)
    BY <1>1, <1>4, BatchFacts DEF Batches!Win
  <2>2. m \in Batches!Call /\ m.at = "recounting"
    <3>1. 0 \in 0 .. MAX_SERIALIZATION_ATTEMPTS - 1
      BY BatchAssumption DEF Batches!Parameters
    <3> QED
      BY <1>1, <3>1, BatchFacts DEF Batches!Call
  <2>3. o = batch /\ batch.status = "sealed"
    BY <1>1, <1>4, RowForIs DEF Batches!Won
  <2>4. /\ w \in Batches!BatchRow /\ w.status = "complete" /\ w.completes = 0 /\ w.successes = 0
        /\ w.total = batch.total /\ w.unseen = batch.unseen
    BY <1>1, <2>3, OpenIs, BatchFacts DEF Batches!BatchRow
  <2> HIDE DEF w, o, m
  <2>5. /\ Local(r, m, n) /\ tx'[r] = n /\ n.row = {w} /\ ~n.changed /\ n.members = {}
        /\ n.tasks = {} /\ n.view = tx[r].view
    BY <1>1, <2>1, <2>2, <2>4, WritesIs
  <2> HIDE DEF n
  <2>6. /\ call'[r] = m /\ engine' = engine /\ batch' = batch /\ members' = members
        /\ succeeded' = succeeded /\ Batches!Pending' = Batches!Pending
    BY <1>1, <2>5, LocalIs
  <2>7. /\ w.total # None => w.total = Cardinality(members \ w.unseen)
        /\ w.unseen # {} => engine = "manual" /\ w.total # None
    BY <2>4, SameCounts DEF BatchHolds, UnseenOK, Batches!TotalIsTheMembership
  <2>8. BatchRowOK(r)'
    <3>1. members \cup {} = members
      OBVIOUS
    <3> QED
      BY <1>1, <2>2, <2>3, <2>4, <2>5, <2>6, <2>7, <3>1 DEF BatchRowOK
  <2>9. ViewOK(r)'
    <3>1. tx[r].view # {} => ~tx[r].changed
      BY <1>1, <1>4 DEF Batches!Refused
    <3> QED
      BY <1>1, <2>2, <2>5, <2>6, <3>1 DEF ProcessOK, ViewOK
  <2>10. CallOK(r)'
    BY <1>1, <2>2, <2>5, <2>6 DEF CallOK
  <2> QED
    BY <1>1, <2>5, <2>8, <2>9, <2>10, LocalHolds DEF ProcessOK
<1> QED
  BY <1>2, <1>3, <1>4

\* What the winner of the compare-and-set counts.
LEMMA CountedIs ==
  ASSUME BatchHolds, NEW r \in Reconcilers, call[r].at = "recounting"
  PROVE  LET seen == Batches!Sees(r)
         IN  /\ seen.members = members /\ seen.tally \in Batches!Tally
             /\ \A k \in Nat :
                  Clean(seen.tally, k) => k <= Cardinality(members \cap succeeded)
             /\ ~seen.tally.pending =>
                  \/ Batches!Pending = {}
                  \/ engine = "refuses" /\ Batches!Pending \subseteq reopened[r]
<1>1. Batches!TypeOK /\ r \in Batches!Processes /\ ProcessOK(r) /\ tx[r].row # {} /\ MembersOK
  BY ReconcilerIs DEF BatchHolds
<1>2. ~tx[r].changed
  BY <1>1 DEF ProcessOK, BatchRowOK
<1>3. Batches!Sees(r).tally \in Batches!Tally
  BY <1>1, SeesIs DEF Batches!Database
<1>4. CASE tx[r].view = {}
  <2>1. /\ Batches!Sees(r).members = members
        /\ Batches!Sees(r).tally = Batches!MemberTaskCounts
    BY <1>1, <1>4, SeesIs, CommittedIs
  <2> QED
    BY <1>1, <1>3, <2>1, CleanIs
<1>5. CASE tx[r].view # {}
  <2>1. PICK db \in tx[r].view : TRUE
    BY <1>5
  <2>2. Batches!Sees(r) = db
    BY <1>1, <2>1, SeesIs
  <2>3. engine = "refuses" /\ db.members = members
        /\ (~db.tally.pending => Batches!Pending \subseteq reopened[r])
    BY <1>1, <1>2, <2>1 DEF ProcessOK, ViewOK
  <2>4. ASSUME NEW k \in Nat, Clean(Batches!Sees(r).tally, k)
        PROVE  k <= Cardinality(members \cap succeeded)
    <3>1. Clean(db.tally, k)
      BY <2>2, <2>4 DEF Clean
    <3>2. k <= Cardinality(db.members \cap succeeded)
      BY <1>1, <2>1, <3>1 DEF ProcessOK, ViewOK
    <3> QED
      BY <2>3, <3>2
  <2> QED
    BY <1>3, <2>2, <2>3, <2>4
<1> QED
  BY <1>4, <1>5

\* What is counted under the lock decides whether the batch succeeds.
LEMMA RecountHolds ==
  ASSUME BatchHolds, NEW r \in Reconcilers, Batches!Recount(r)
  PROVE  BatchHolds'
<1>1. /\ Batches!TypeOK /\ r \in Batches!Processes /\ r \notin Callers /\ ProcessOK(r)
      /\ tx[r].members = {} /\ tx[r].tasks = {} /\ tx[r].row # {} /\ call[r].at = "recounting"
      /\ Rest
      /\ reopened' = IF engine = "refuses" THEN reopened ELSE [reopened EXCEPT ![r] = {}]
  BY ReconcilerIs DEF Batches!Recount, Rest, Batches!rows
<1>2. /\ reopened' \in [Reconcilers -> SUBSET Tasks]
      /\ reopened'[r] = IF engine = "refuses" THEN reopened[r] ELSE {}
      /\ \A q \in Reconcilers \ {r} : reopened'[q] = reopened[q]
  BY <1>1 DEF Batches!TypeOK
<1> DEFINE seen == Batches!Sees(r)
           o == Batches!RowFor(r)
           k == IF o.total = None THEN Batches!Cardinality(seen.members) ELSE o.total
           w == [o EXCEPT !.total = k]
           clean == ~seen.tally.failed /\ Batches!Shortfall(k, seen.tally.counted) = 0
           m == [call[r] EXCEPT !.at = "enqueueing", !.clean = clean]
           n == [tx[r] EXCEPT !.row = {w}, !.view = {}]
<1>3. CASE seen.tally.pending
  <2>1. Batches!RollsBack(r) /\ Batches!Ends(r)
    BY <1>3 DEF Batches!Recount, Batches!StillPending
  <2>2. Local(r, Batches!NoCall, Batches!NoTx)
    BY <1>1, <1>2, <2>1, NothingIs DEF Local, Rest, Batches!TypeOK, Batches!RollsBack,
       Batches!Ends
  <2> QED
    BY <1>1, <2>2, NothingIs, StartsOver
<1>4. CASE ~seen.tally.pending
  <2>1. tx' = [tx EXCEPT ![r] = n] /\ call' = [call EXCEPT ![r] = m]
    BY <1>1, <1>4, BatchFacts DEF Batches!Recount, Batches!StillPending
  <2>2. seen.members = members
    BY <1>1, CountedIs
  <2>3. o \in tx[r].row /\ o \in Batches!BatchRow /\ tx[r].row = {o}
    BY <1>1, RowForIs
  <2>4. /\ ~tx[r].changed /\ o.completes = 0 /\ o.successes = 0 /\ o.status = "complete"
        /\ batch.status = "sealed" /\ (o.total # None => o.total = Cardinality(members \ o.unseen))
        /\ o.unseen # {} => engine = "manual" /\ o.total # None
    <3>1. members \cup {} = members
      OBVIOUS
    <3> QED
      BY <1>1, <2>3, <3>1 DEF ProcessOK, BatchRowOK
  <2>5. k = Cardinality(members \ o.unseen) /\ k \in Batches!Counts /\ k \in Nat
    <3>1. members \ o.unseen \in SUBSET Tasks /\ members \in SUBSET Tasks
      BY <1>1, BatchFacts
    <3>2. o.unseen = {} => members \ o.unseen = members
      OBVIOUS
    <3> QED
      BY <2>2, <2>4, <3>1, <3>2, SameCounts, CountsAre
  <2> HIDE DEF k, o
  <2>6. /\ w \in Batches!BatchRow /\ w.status = "complete" /\ w.completes = 0 /\ w.successes = 0
        /\ w.total = k /\ w.unseen = o.unseen
    BY <2>3, <2>4, <2>5 DEF Batches!BatchRow
  <2>7. clean => k <= Cardinality(members \cap succeeded)
    BY <1>1, <1>4, <2>5, CountedIs DEF Clean
  <2>8. clean \in BOOLEAN
    OBVIOUS
  <2> HIDE DEF clean, w
  <2>9. m \in Batches!Call /\ m.at = "enqueueing" /\ m.clean = clean
    BY <1>1, <2>8, BatchFacts DEF Batches!Call
  <2>10. /\ n \in Batches!Transaction /\ n.row = {w} /\ n.view = {} /\ ~n.changed
         /\ n.members = {} /\ n.tasks = {}
    BY <1>1, <2>4, <2>6, BatchFacts DEF Batches!Transaction
  <2>11. Batches!Pending \subseteq reopened'[r]
    BY <1>1, <1>2, <1>4, CountedIs
  <2> HIDE DEF m, n
  <2>12. Local(r, m, n)
    BY <1>1, <1>2, <2>1, <2>9, <2>10 DEF Local, Rest, Batches!TypeOK
  <2>13. /\ tx'[r] = n /\ call'[r] = m /\ engine' = engine /\ batch' = batch /\ members' = members
        /\ succeeded' = succeeded /\ Batches!Pending' = Batches!Pending
    BY <1>1, <2>12, LocalIs
  <2>14. k # None
    BY <2>5, BatchAssumption DEF Batches!Parameters
  <2>15. BatchRowOK(r)'
    <3>1. members \cup {} = members
      OBVIOUS
    <3> QED
      BY <1>1, <2>4, <2>5, <2>6, <2>9, <2>10, <2>13, <2>14, <3>1 DEF BatchRowOK
  <2>16. ViewOK(r)' /\ CallOK(r)'
    <3>1. succeeded' = succeeded
      BY <1>1, <2>12, LocalIs
    <3> QED
      BY <1>1, <2>6, <2>7, <2>9, <2>10, <2>11, <2>13, <2>14, <3>1 DEF ViewOK, CallOK
  <2> QED
    BY <1>1, <2>10, <2>12, <2>15, <2>16, LocalHolds DEF ProcessOK
<1> QED
  BY <1>3, <1>4

\* The callbacks' commit: the one step that completes a batch.
LEMMA EnqueueCallbacksHolds ==
  ASSUME BatchHolds, NEW r \in Reconcilers, Batches!EnqueueCallbacks(r)
  PROVE  BatchHolds' /\ Batches!EarnsItsCompletion
<1>1. /\ Batches!TypeOK /\ r \in Batches!Processes /\ r \notin Callers /\ ProcessOK(r)
      /\ tx[r].members = {} /\ tx[r].row # {} /\ call[r].at = "enqueueing"
      /\ Batches!Ends(r)
      /\ UNCHANGED <<engine, watched, members, task, report, mishaps, settledOnce, succeeded,
                     reopened>>
  BY ReconcilerIs DEF Batches!EnqueueCallbacks, Batches!ghosts
<1> DEFINE o == Batches!RowFor(r)
           one == Batches!UpTo2(o.completes)
           two == IF call[r].clean THEN Batches!UpTo2(o.successes) ELSE o.successes
           w == [o EXCEPT !.completes = one, !.successes = two]
<1>2. o \in tx[r].row /\ o \in Batches!BatchRow
  BY <1>1, RowForIs
<1>3. Batches!CommitRow(r, w)
  BY <1>1, <1>2 DEF Batches!EnqueueCallbacks, Batches!BatchRow
<1> HIDE DEF o
<1>4. /\ o.completes = 0 /\ o.successes = 0 /\ o.status = "complete"
      /\ (o.total # None => o.total = Cardinality(members \ o.unseen))
      /\ (o.unseen # {} => engine = "manual" /\ o.total # None)
  <2>1. members \cup {} = members
    OBVIOUS
  <2> QED
    BY <1>1, <1>2, <2>1 DEF ProcessOK, BatchRowOK
<1>5. one = 1 /\ two \in 0 .. 1 /\ one \in 0 .. 2 /\ two \in 0 .. 2 /\ (two > 0 => call[r].clean)
  BY <1>4 DEF Batches!UpTo2
<1> HIDE DEF one, two
<1>6. /\ w \in Batches!BatchRow /\ w.status = "complete" /\ w.completes = 1 /\ w.successes = two
      /\ w.total = o.total /\ w.unseen = o.unseen
  BY <1>2, <1>4, <1>5 DEF Batches!BatchRow
<1> HIDE DEF w
<1>7. /\ batch' = w
      /\ tx' = [q \in Batches!Processes |-> IF q = r THEN Batches!NoTx ELSE Batches!Behind(q)]
  BY <1>3 DEF Batches!CommitRow
<1>8. Ended(r, w, {})
  <2>1. task' = [t \in Tasks |-> IF t \in {} THEN "pending" ELSE task[t]]
    BY <1>1 DEF Batches!TypeOK
  <2> QED
    BY <1>1, <1>7, <2>1 DEF Ended, Batches!Ends
<1>9. call'[r].at = "idle" /\ {} \in SUBSET tx[r].tasks
  BY <1>1, NothingIs, BatchFacts DEF Batches!Ends
<1>10. members' = members /\ members \in SUBSET Tasks /\ \A t \in members' : task'[t] # "absent"
  BY <1>1, NewTasksAre, BatchFacts
<1>11. UnseenOK' /\ Batches!TotalIsTheMembership' /\ Batches!CallbacksAreEnqueuedOnce'
  <2>1. /\ Batches!Cardinality(members' \ w.unseen) = Cardinality(members \ w.unseen)
        /\ two <= 1
    BY <1>5, <1>10, SameCounts
  <2> QED
    BY <1>1, <1>4, <1>6, <1>7, <2>1 DEF UnseenOK, Batches!TotalIsTheMembership, Batches!CallbacksAreEnqueuedOnce
<1>12. BatchHolds'
  BY <1>1, <1>6, <1>8, <1>9, <1>10, <1>11, CommitHolds
<1>13. /\ Batches!Pending \subseteq reopened[r]
       /\ call[r].clean => o.total # None /\ o.total <= Cardinality(members \cap succeeded)
  BY <1>1, <1>2 DEF ProcessOK, CallOK
<1>14. batch'.successes > 0 =>
         Batches!Cardinality(members' \ succeeded') <= Batches!Cardinality(batch'.unseen)
  <2>1. SUFFICES ASSUME batch'.successes > 0
                 PROVE  Cardinality(members \ succeeded) <= Cardinality(w.unseen)
    BY <1>1, <1>7, SameCounts
  <2>2. call[r].clean
    BY <1>5, <1>6, <1>7, <2>1
  <2>3. Cardinality(members \ w.unseen) <= Cardinality(members \cap succeeded)
    BY <1>4, <1>6, <1>13, <2>2
  <2>4. w.unseen \in SUBSET Tasks
    BY <1>6 DEF Batches!BatchRow
  <2> QED
    BY <1>10, <2>3, <2>4, MissingAre
<1> QED
  BY <1>1, <1>12, <1>13, <1>14 DEF Batches!EarnsItsCompletion

-----------------------------------------------------------------------------
(* The members' rows, and the report.                                      *)

\* A row that is retried is in reopened of every reconciler that has counted.
LEMMA MovesHolds ==
  ASSUME BatchHolds, NEW t \in Tasks, NEW kind \in {"pending", "gone"} \cup Batches!Settled,
         Batches!Moves(t, kind), task[t] # "absent",
         kind = "gone" => task[t] \in Batches!Settled,
         mishaps' \in 0 .. MaxMishaps[engine]
  PROVE  BatchHolds'
<1>1. Batches!TypeOK /\ \A q \in Batches!Processes : ProcessOK(q)
  BY DEF BatchHolds
<1>2. /\ task' = [task EXCEPT ![t] = kind]
      /\ settledOnce' = IF watched /\ kind \in Batches!Settled
                        THEN settledOnce \cup {t} ELSE settledOnce
      /\ succeeded' = IF kind = "successful" THEN succeeded \cup {t} ELSE succeeded
      /\ reopened' = IF kind # "pending" THEN reopened
                     ELSE [r \in Reconcilers |->
                            IF call[r].at \in {"winning", "recounting", "enqueueing"}
                            THEN reopened[r] \cup {t} ELSE {}]
      /\ UNCHANGED <<engine, watched, batch, members, call, tx, report>>
  BY DEF Batches!Moves
<1>3. /\ \A u \in Tasks \ {t} : task'[u] = task[u]
      /\ task'[t] = kind /\ kind # "absent"
      /\ task' \in [Tasks -> Batches!TaskStatuses]
  BY <1>1, <1>2 DEF Batches!TypeOK, Batches!TaskStatuses, Batches!Settled
<1>4. Batches!TypeOK'
  <2>1. reopened' \in [Reconcilers -> SUBSET Tasks]
    BY <1>1, <1>2 DEF Batches!TypeOK
  <2>2. settledOnce' \in SUBSET Tasks /\ succeeded' \in SUBSET Tasks
    BY <1>1, <1>2 DEF Batches!TypeOK
  <2> QED
    BY <1>1, <1>2, <1>3, <2>1, <2>2 DEF Batches!TypeOK
<1>5. Batches!Pending' \subseteq
        IF kind = "pending" THEN Batches!Pending \cup {t} ELSE Batches!Pending
  <2>1. members \subseteq Tasks
    BY <1>1, BatchFacts
  <2>2. ASSUME NEW u \in Batches!Pending', u # t
        PROVE  u \in Batches!Pending
    BY <1>2, <1>3, <2>1, <2>2 DEF Batches!Pending, Batches!Holding
  <2>3. t \in Batches!Pending' => kind = "pending"
    BY <1>3 DEF Batches!Pending, Batches!Holding, Batches!TaskStatuses, Batches!Settled
  <2> QED
    BY <2>2, <2>3
<1>6. ASSUME NEW q \in Batches!Processes
      PROVE  ProcessOK(q)'
  <2>1. ASSUME q \in Reconcilers, call[q].at \in {"winning", "recounting", "enqueueing"},
               Batches!Pending \subseteq reopened[q]
        PROVE  Batches!Pending' \subseteq reopened'[q]
    BY <1>2, <1>5, <2>1
  <2>2. succeeded \subseteq succeeded'
    BY <1>2
  <2>3. \A u \in Tasks :
       /\ task'[u] = "absent" => task[u] = "absent"
       /\ u \in tx[q].tasks /\ task[u] = "absent" => task'[u] = "absent"
    BY <1>3
  <2>4. Leaves(q)
    BY <1>2, <2>1, <2>2, <2>3 DEF Leaves
  <2> QED
    BY <1>1, <2>4, LeavesHolds
<1>7. Excludes'
  BY <1>2 DEF BatchHolds, Excludes
<1>8. MembersOK'
  <2>1. MembersOK /\ members \subseteq Tasks
    BY <1>1, BatchFacts DEF BatchHolds
  <2>2. \A u \in members' : task'[u] # "absent"
    BY <1>2, <1>3, <2>1 DEF MembersOK
  <2>3. \A u \in Tasks : task'[u] = "successful" => u \in succeeded'
    BY <1>2, <1>3, <2>1 DEF MembersOK
  <2>4. ASSUME watched', NEW u \in Tasks, task'[u] \in Batches!Settled \cup {"gone"}
        PROVE  u \in settledOnce'
    BY <1>2, <1>3, <2>1, <2>4 DEF MembersOK, Batches!Settled
  <2> QED
    BY <2>2, <2>3, <2>4 DEF MembersOK
<1>9. ReportOK'
  <2>1. settledOnce \subseteq settledOnce' /\ members' \in SUBSET Tasks
    BY <1>1, <1>2, BatchFacts
  <2> QED
    BY <1>1, <1>2, <2>1, ReportKeeps DEF BatchHolds
<1>10. UnseenOK' /\ Batches!TotalIsTheMembership' /\ Batches!CallbacksAreEnqueuedOnce'
  BY <1>2 DEF BatchHolds, UnseenOK, Batches!TotalIsTheMembership, Batches!CallbacksAreEnqueuedOnce
<1> QED
  BY <1>4, <1>6, <1>7, <1>8, <1>9, <1>10 DEF BatchHolds

\* What workers, the reaper, operators and ox_prune do to the members' rows.
LEMMA TaskStepHolds ==
  ASSUME BatchHolds, NEW t \in Tasks,
         Batches!Settles(t) \/ Batches!Resolves(t) \/ Batches!Retries(t) \/ Batches!Prunes(t)
  PROVE  BatchHolds'
<1>1. engine \in Engines /\ MaxMishaps[engine] \in Nat /\ mishaps \in 0 .. MaxMishaps[engine]
  BY BatchAssumption DEF BatchHolds, Batches!Parameters, Batches!TypeOK
<1>2. CASE Batches!Settles(t)
  <2>1. PICK kind \in Batches!Settled : Batches!Moves(t, kind)
    BY <1>2 DEF Batches!Settles
  <2> QED
    BY <1>1, <1>2, <2>1, MovesHolds DEF Batches!Settles, Batches!Settled
<1>3. CASE Batches!Resolves(t)
  <2>1. PICK kind \in {"successful", "failed", "lost"} : Batches!Moves(t, kind)
    BY <1>3 DEF Batches!Resolves
  <2> QED
    BY <1>1, <1>3, <2>1, MovesHolds DEF Batches!Resolves, Batches!Settled
<1>4. CASE Batches!Retries(t)
  BY <1>1, <1>4, MovesHolds DEF Batches!Retries
<1>5. CASE Batches!Prunes(t)
  BY <1>1, <1>5, MovesHolds DEF Batches!Prunes, Batches!Settled
<1> QED
  BY <1>2, <1>3, <1>4, <1>5

\* The report is all that changes.
LEMMA ReadHolds ==
  ASSUME BatchHolds, Batches!TypeOK', ReportOK',
         UNCHANGED <<engine, watched, batch, members, task, call, tx, mishaps,
                     settledOnce, succeeded, reopened>>
  PROVE  BatchHolds'
<1>1. Batches!TypeOK
  BY DEF BatchHolds
<1>2. ASSUME NEW q \in Batches!Processes
      PROVE  ProcessOK(q)'
  <2>1. Batches!Pending' = Batches!Pending
    BY DEF Batches!Pending, Batches!Holding
  <2>2. Leaves(q)
    BY <2>1 DEF Leaves
  <2>3. ProcessOK(q)
    BY DEF BatchHolds
  <2> QED
    BY <1>1, <2>2, <2>3, LeavesHolds
<1>3. Excludes' /\ MembersOK'
  BY DEF BatchHolds, Excludes, MembersOK
<1>4. UnseenOK' /\ Batches!TotalIsTheMembership' /\ Batches!CallbacksAreEnqueuedOnce'
  BY DEF BatchHolds, UnseenOK, Batches!TotalIsTheMembership, Batches!CallbacksAreEnqueuedOnce
<1> QED
  BY <1>2, <1>3, <1>4 DEF BatchHolds

\* progress() reads the members and then their tasks.
LEMMA ReportStepHolds ==
  ASSUME BatchHolds,
         Batches!ReadRow \/ Batches!ReadMembers \/ Batches!ReadTasks \/ Batches!Answered
  PROVE  BatchHolds'
<1>1. Batches!TypeOK /\ ReportOK /\ MembersOK /\ Batches!TotalIsTheMembership
  BY DEF BatchHolds
<1>2. UNCHANGED <<engine, watched, batch, members, task, call, tx, mishaps,
                  settledOnce, succeeded, reopened>>
  BY DEF Batches!ReadRow, Batches!ReadMembers, Batches!ReadTasks, Batches!Answered,
     Batches!rows, Batches!ghosts
<1> DEFINE Reports == [at : {"idle", "members", "tasks", "answered"},
                       total : Batches!Counts \cup {None}, members : Batches!Counts,
                       pending : Batches!Counts, rows : Batches!Counts]
<1>3. report \in Reports
  BY <1>1 DEF Batches!TypeOK
<1>4. ASSUME report' \in Reports
      PROVE  Batches!TypeOK'
  BY <1>1, <1>2, <1>4 DEF Batches!TypeOK
<1>5. members \in SUBSET Tasks /\ batch.total \in Batches!Counts \cup {None}
  BY <1>1, BatchFacts DEF Batches!BatchRow
<1>6. /\ Batches!Cardinality(members) = Cardinality(members)
      /\ Cardinality(members) \in Batches!Counts
      /\ Cardinality(members) \in Nat
  BY <1>5, CountsAre, SameCounts
<1>7. 0 \in Batches!Counts /\ 0 <= Cardinality(members)
  <2>1. {} \in SUBSET Tasks /\ Cardinality({}) = 0
    BY FS_EmptySet
  <2> QED
    BY <1>6, <2>1, CountsAre
<1>8. Batches!NoReport \in Reports /\ Batches!NoReport.at = "idle" /\ Batches!NoReport.members = 0
  BY <1>7 DEF Batches!NoReport
<1>9. CASE Batches!ReadRow
  <2> DEFINE at == IF batch.total = None THEN "members" ELSE "tasks"
  <2>1. report' = [Batches!NoReport EXCEPT !.at = at, !.total = batch.total]
    BY <1>9 DEF Batches!ReadRow
  <2>2. at \in {"members", "tasks"}
    OBVIOUS
  <2> HIDE DEF at
  <2>3. report' \in Reports /\ report'.at = at /\ report'.total = batch.total /\ report'.members = 0
    BY <1>5, <1>8, <2>1, <2>2
  <2>4. ReportOK'
    <3>1. batch.total # None =>
            batch.total \in Nat /\ batch.total <= Cardinality(members)
      <4>1. members \ batch.unseen \in SUBSET Tasks
        BY <1>5
      <4>2. /\ Cardinality(members \ batch.unseen) <= Cardinality(members)
            /\ Cardinality(members \ batch.unseen) \in Nat
        BY <1>5, <4>1, Grows
      <4> QED
        BY <1>1, <4>2, SameCounts DEF Batches!TotalIsTheMembership
    <3> QED
      BY <1>2, <1>7, <1>9, <2>2, <2>3, <3>1
      DEF Batches!ReadRow, ReportOK, Batches!ProgressNeverRunsAhead
  <2> QED
    BY <1>2, <1>4, <2>3, <2>4, ReadHolds
<1>10. CASE Batches!ReadMembers
  <2> DEFINE k == Batches!Cardinality(members)
  <2>1. report' = [report EXCEPT !.at = "tasks", !.members = k]
    BY <1>10 DEF Batches!ReadMembers
  <2>2. k \in Batches!Counts /\ k <= Cardinality(members)
    BY <1>6
  <2> HIDE DEF k
  <2>3. /\ report' \in Reports /\ report'.at = "tasks" /\ report'.members = k
        /\ report'.total = report.total
    BY <1>3, <2>1, <2>2
  <2>4. ReportOK'
    <3>1. report.total = None
      BY <1>1, <1>10 DEF Batches!ReadMembers, ReportOK
    <3> QED
      BY <1>1, <1>2, <1>10, <2>2, <2>3, <3>1
      DEF Batches!ReadMembers, ReportOK, Batches!ProgressNeverRunsAhead
  <2> QED
    BY <1>2, <1>4, <2>3, <2>4, ReadHolds
<1>11. CASE Batches!ReadTasks
  <2> DEFINE here == {t \in members : task[t] # "gone"}
             k == Batches!Cardinality(Batches!Pending)
             j == Batches!Cardinality(here)
  <2>1. report' = [report EXCEPT !.at = "answered", !.pending = k, !.rows = j]
    BY <1>11 DEF Batches!ReadTasks
  <2>2. Batches!Pending \in SUBSET members /\ here \in SUBSET members
        /\ Batches!Pending \in SUBSET Tasks /\ here \in SUBSET Tasks
    BY <1>5 DEF Batches!Pending, Batches!Holding
  <2>3. /\ k \in Batches!Counts /\ k \in Nat /\ k = Cardinality(Batches!Pending)
        /\ j \in Batches!Counts /\ j \in Nat /\ j = Cardinality(here)
    BY <2>2, CountsAre, SameCounts
  <2>4. j <= Cardinality(members)
    BY <1>5, <2>2, <2>3, Grows
  <2>5. Cardinality(members) - k <= Cardinality(settledOnce \cap members)
    <3>1. members \ Batches!Pending \subseteq settledOnce \cap members
      <4>1. ASSUME NEW t \in members, t \notin Batches!Pending
            PROVE  t \in settledOnce
        <5>1. t \in Tasks /\ task[t] \in Batches!Settled \cup {"gone"}
          BY <1>1, <1>5, <4>1 DEF Batches!TypeOK, Batches!Pending, Batches!Holding
        <5>2. watched
          BY <1>1, <1>11 DEF Batches!ReadTasks, ReportOK
        <5> QED
          BY <1>1, <5>1, <5>2 DEF MembersOK
      <4> QED
        BY <4>1
    <3>2. settledOnce \cap members \in SUBSET Tasks /\ members \ Batches!Pending \in SUBSET Tasks
      BY <1>5
    <3>3. /\ Cardinality(members \ Batches!Pending) <= Cardinality(settledOnce \cap members)
          /\ Cardinality(members \ Batches!Pending) \in Nat
          /\ Cardinality(settledOnce \cap members) \in Nat
      BY <3>1, <3>2, Grows
    <3>4. members \cap Batches!Pending = Batches!Pending
      BY <2>2
    <3>5. Cardinality(members \ Batches!Pending) = Cardinality(members) - k
      BY <1>5, <2>3, <3>4, BatchFacts, <1>1, FS_Difference
    <3> QED
      BY <3>3, <3>5
  <2> HIDE DEF here, k, j
  <2>6. /\ report' \in Reports /\ report'.at = "answered" /\ report'.pending = k
        /\ report'.rows = j
        /\ report'.members = report.members /\ report'.total = report.total
    BY <1>3, <2>1, <2>3
  <2>7. Batches!Finished' <= Cardinality(members) - k
    <3>1. report.members \in Nat /\ (report.total # None => report.total \in Nat)
      BY <1>3 DEF Batches!Counts
    <3>2. /\ report.members <= Cardinality(members)
          /\ report.total # None => report.total <= Cardinality(members)
      BY <1>1, <1>11 DEF ReportOK, Batches!ReadTasks
    <3> DEFINE d == Batches!Denominator(report')
    <3>3. d \in Nat /\ d <= Cardinality(members)
      BY <1>6, <2>3, <2>4, <2>6, <3>1, <3>2 DEF Batches!Denominator
    <3>4. Batches!Finished' = d - k
      BY <2>6 DEF Batches!Finished
    <3> HIDE DEF d
    <3> QED
      BY <1>6, <2>3, <3>3, <3>4
  <2>8. Batches!Finished' <= Batches!Cardinality(settledOnce' \cap members')
    <3>1. settledOnce' \cap members' = settledOnce \cap members
      BY <1>2
    <3>2. Batches!Cardinality(settledOnce' \cap members') = Cardinality(settledOnce \cap members)
          /\ Cardinality(settledOnce \cap members) \in Nat
      BY <1>5, <3>1, SameCounts, CountsAre
    <3>3. Batches!Finished' \in Int
      <4>1. report'.members \in Int /\ report'.rows \in Int /\ report'.pending \in Int
            /\ (report'.total # None => report'.total \in Int)
        BY <2>6 DEF Batches!Counts
      <4> QED
        BY <4>1 DEF Batches!Finished, Batches!Denominator
    <3> DEFINE f == Batches!Finished'
    <3>4. f \in Int /\ f <= Cardinality(members) - k
      BY <2>7, <3>3
    <3> HIDE DEF f
    <3>5. f <= Cardinality(settledOnce \cap members)
      BY <1>6, <2>3, <2>5, <3>2, <3>4
    <3> QED
      BY <3>2, <3>5 DEF f
  <2>9. ReportOK'
    BY <1>1, <1>2, <1>11, <2>6, <2>8
    DEF Batches!ReadTasks, ReportOK, Batches!ProgressNeverRunsAhead
  <2> QED
    BY <1>2, <1>4, <2>6, <2>9, ReadHolds
<1>12. CASE Batches!Answered
  <2>1. report' = Batches!NoReport
    BY <1>12 DEF Batches!Answered
  <2>2. ReportOK'
    BY <1>8, <2>1 DEF ReportOK, Batches!ProgressNeverRunsAhead
  <2> QED
    BY <1>2, <1>4, <1>8, <2>1, <2>2, ReadHolds
<1> QED
  BY <1>9, <1>10, <1>11, <1>12

-----------------------------------------------------------------------------
(* The batch as a whole.                                                   *)

LEMMA BatchStarts ==
  ASSUME Batches!Init
  PROVE  BatchHolds
<1>1. 0 \in Batches!Counts /\ 0 <= 0
  <2>1. {} \in SUBSET Tasks /\ Cardinality({}) = 0
    BY FS_EmptySet
  <2> QED
    BY <2>1, CountsAre
<1>2. engine \in Engines /\ MaxMishaps[engine] \in Nat /\ MAX_SERIALIZATION_ATTEMPTS \in Nat \ {0}
  BY BatchAssumption DEF Batches!Parameters, Batches!Init
<1>3. /\ Batches!NoTx \in Batches!Transaction /\ Batches!NoTx.row = {}
      /\ Batches!NoTx.members = {}
      /\ Batches!NoTx.tasks = {} /\ Batches!NoTx.view = {}
  BY DEF Batches!NoTx, Batches!Transaction
<1>4. Batches!NoCall \in Batches!Call /\ Batches!NoCall.at = "idle"
  <2>1. 0 \in 0 .. MAX_SERIALIZATION_ATTEMPTS - 1
    BY <1>2
  <2> QED
    BY <2>1 DEF Batches!NoCall, Batches!Call
<1>5. /\ batch \in Batches!BatchRow /\ batch.status = "open" /\ batch.total = None
      /\ batch.completes = 0 /\ batch.successes = 0 /\ batch.unseen = {}
  BY DEF Batches!Init, Batches!BatchRow
<1>6. report = Batches!NoReport /\ report.at = "idle"
  BY DEF Batches!Init, Batches!NoReport
<1>7. Batches!TypeOK
  <2>1. report \in [at : {"idle", "members", "tasks", "answered"},
                    total : Batches!Counts \cup {None}, members : Batches!Counts,
                    pending : Batches!Counts, rows : Batches!Counts]
    BY <1>1, <1>6 DEF Batches!NoReport
  <2>2. /\ call \in [Batches!Processes -> Batches!Call]
        /\ tx \in [Batches!Processes -> Batches!Transaction]
    BY <1>3, <1>4 DEF Batches!Init
  <2>3. task \in [Tasks -> Batches!TaskStatuses] /\ mishaps \in 0 .. MaxMishaps[engine]
    BY <1>2 DEF Batches!Init, Batches!TaskStatuses
  <2>4. reopened \in [Reconcilers -> SUBSET Tasks]
    BY DEF Batches!Init
  <2> QED
    BY <1>5, <2>1, <2>2, <2>3, <2>4 DEF Batches!Init, Batches!TypeOK
<1>8. UnseenOK /\ Batches!TotalIsTheMembership /\ Batches!CallbacksAreEnqueuedOnce
  BY <1>1, <1>5 DEF UnseenOK, Batches!TotalIsTheMembership, Batches!CallbacksAreEnqueuedOnce
<1>9. \A p \in Batches!Processes : tx[p] = Batches!NoTx /\ call[p] = Batches!NoCall
  BY DEF Batches!Init
<1>10. \A p \in Batches!Processes : ProcessOK(p)
  BY <1>3, <1>4, <1>9 DEF ProcessOK, BatchRowOK, ViewOK, CallOK
<1>11. Excludes
  BY <1>3, <1>9 DEF Excludes
<1>12. MembersOK
  BY DEF Batches!Init, MembersOK, Batches!Settled
<1>13. ReportOK
  BY <1>6 DEF ReportOK, Batches!ProgressNeverRunsAhead
<1> QED
  BY <1>7, <1>8, <1>10, <1>11, <1>12, <1>13 DEF BatchHolds

\* No caller completes a batch.
LEMMA CallerStepHolds ==
  ASSUME BatchHolds, NEW c \in Callers, Batches!CallerStep(c)
  PROVE  BatchHolds' /\ (batch' = batch \/ batch'.status # "complete")
<1>1. BatchHolds'
  BY EnqueueHolds, ClaimOpenHolds, InsertHolds, SealHolds, WriteSealedHolds, CountMembersHolds,
     BeginHolds, CallerCommitsHolds
  DEF Batches!CallerStep
<1>2. Batches!TypeOK /\ c \in Batches!Processes /\ ProcessOK(c)
  BY BatchFacts DEF BatchHolds
<1>3. tx[c].row # {} =>
        Batches!RowFor(c) \in Batches!BatchRow /\ Batches!RowFor(c).status \in {"open", "sealed"}
  BY <1>2, RowForIs DEF ProcessOK, BatchRowOK
<1>4. ASSUME Batches!Commit(c)
      PROVE  batch' = batch \/ batch'.status # "complete"
  BY <1>3, <1>4 DEF Batches!Commit, Batches!CommitRow
<1>5. CASE Batches!CountMembers(c)
  <2> DEFINE o == Batches!RowFor(c)
             k == Batches!Cardinality(Batches!MembersSeen(c) \cup tx[c].members)
  <2>1. batch' = [o EXCEPT !.total = k, !.unseen = Batches!Unseen(c)] \/ batch' = batch
    BY <1>5 DEF Batches!CountMembers, Batches!CommitRow
  <2>2. o \in Batches!BatchRow /\ o.status # "complete"
    BY <1>2, <1>3, <1>5 DEF Batches!CountMembers, ProcessOK, CallOK
  <2> HIDE DEF o, k
  <2> QED
    BY <1>1, <2>1, <2>2 DEF Batches!BatchRow
<1>6. CASE Batches!Insert(c)
  BY <1>1, <1>4, <1>6 DEF Batches!Insert, Batches!rows
<1>7. CASE Batches!CallerCommits(c)
  BY <1>1, <1>4, <1>7 DEF Batches!CallerCommits
<1>8. CASE (\E t \in Tasks : Batches!Enqueue(c, t)) \/ Batches!ClaimOpen(c) \/ Batches!Seal(c)
           \/ Batches!WriteSealed(c) \/ Batches!Begin(c)
  BY <1>1, <1>8
  DEF Batches!Enqueue, Batches!ClaimOpen, Batches!Seal, Batches!WriteSealed, Batches!Begin,
      Batches!rows
<1> QED
  BY <1>1, <1>5, <1>6, <1>7, <1>8 DEF Batches!CallerStep

LEMMA ReconcilerStepHolds ==
  ASSUME BatchHolds, NEW r \in Reconcilers, Batches!ReconcilerStep(r)
  PROVE  BatchHolds' /\ Batches!EarnsItsCompletion
<1>1. CASE Batches!EnqueueCallbacks(r)
  BY <1>1, EnqueueCallbacksHolds
<1>2. CASE Batches!Filter(r) \/ Batches!Ask(r) \/ Batches!Win(r) \/ Batches!Recount(r)
           \/ Batches!CallbackFails(r)
  <2>1. BatchHolds'
    BY <1>2, FilterHolds, AskHolds, WinHolds, RecountHolds, DiesHolds, ReconcilerIs
    DEF Batches!CallbackFails
  <2>2. batch' = batch
    BY <1>2 DEF Batches!Filter, Batches!Ask, Batches!Win, Batches!Recount,
       Batches!CallbackFails,
       Batches!Dies, Batches!rows
  <2> QED
    BY <2>1, <2>2 DEF Batches!EarnsItsCompletion
<1> QED
  BY <1>1, <1>2 DEF Batches!ReconcilerStep

\* Every step keeps the invariant, and earns a completion it makes.
LEMMA BatchNext ==
  ASSUME BatchHolds, [Batches!Next]_batches
  PROVE  BatchHolds' /\ Batches!EarnsItsCompletion
<1>1. CASE \E c \in Callers : Batches!CallerStep(c)
  BY <1>1, CallerStepHolds DEF Batches!EarnsItsCompletion
<1>2. CASE Batches!SealByHand
  <2>1. batch'.status = "sealed"
    BY <1>2, BatchFacts DEF Batches!SealByHand, Batches!BatchRow, BatchHolds
  <2> QED
    BY <1>2, <2>1, SealByHandHolds DEF Batches!EarnsItsCompletion
<1>3. CASE \E r \in Reconcilers : Batches!ReconcilerStep(r)
  BY <1>3, ReconcilerStepHolds
<1>4. CASE \E p \in Batches!Processes : Batches!Dies(p)
  BY <1>4, DiesHolds DEF Batches!Dies, Batches!rows, Batches!EarnsItsCompletion
<1>5. CASE \E t \in Tasks : \/ Batches!Settles(t) \/ Batches!Resolves(t)
                          \/ Batches!Retries(t) \/ Batches!Prunes(t)
  <2>1. PICK t \in Tasks : \/ Batches!Settles(t) \/ Batches!Resolves(t)
                          \/ Batches!Retries(t) \/ Batches!Prunes(t)
    BY <1>5
  <2>2. batch' = batch
    BY <2>1 DEF Batches!Settles, Batches!Resolves, Batches!Retries, Batches!Prunes,
       Batches!Moves
  <2> QED
    BY <2>1, <2>2, TaskStepHolds DEF Batches!EarnsItsCompletion
<1>6. CASE Batches!ReadRow \/ Batches!ReadMembers \/ Batches!ReadTasks \/ Batches!Answered
  <2>1. batch' = batch
    BY <1>6 DEF Batches!ReadRow, Batches!ReadMembers, Batches!ReadTasks, Batches!Answered,
       Batches!rows
  <2> QED
    BY <1>6, <2>1, ReportStepHolds DEF Batches!EarnsItsCompletion
<1>7. CASE UNCHANGED batches
  <2>1. Batches!TypeOK' /\ ReportOK'
    BY <1>7 DEF batches, BatchHolds, Batches!TypeOK, ReportOK, Batches!ProgressNeverRunsAhead,
       Batches!Finished
  <2> QED
    BY <1>7, <2>1, ReadHolds DEF batches, Batches!EarnsItsCompletion
<1> QED
  BY <1>1, <1>2, <1>3, <1>4, <1>5, <1>6, <1>7 DEF Batches!Next

LEMMA PartBatchNext ==
  ASSUME part = "batch" => BatchHolds,
         [PartNext]_<<part, vars, batches, admission, outcome, backstop>>
  PROVE  (part = "batch" => BatchHolds)' /\ (part = "batch" => Batches!EarnsItsCompletion)
<1>1. part' = part
  BY DEF PartNext
<1>2. CASE part = "batch"
  <2>1. BatchHolds /\ [Batches!Next]_batches
    BY <1>2 DEF PartNext
  <2> QED
    BY <2>1, BatchNext
<1> QED
  BY <1>1, <1>2

\* The inductive invariant of the batch's part.
THEOREM BatchInvariant == PartSpec => [](part = "batch" => BatchHolds)
<1>1. PartInit => (part = "batch" => BatchHolds)
  BY BatchStarts DEF PartInit
<1>2. /\ part = "batch" => BatchHolds
      /\ [PartNext]_<<part, vars, batches, admission, outcome, backstop>>
      => (part = "batch" => BatchHolds)'
  BY PartBatchNext
<1> QED
  BY <1>1, <1>2, PTL DEF PartSpec

\* Every variable of the part keeps its type.
THEOREM BatchTypeCorrect == PartSpec => [](part = "batch" => Batches!TypeOK)
<1>1. (part = "batch" => BatchHolds) => (part = "batch" => Batches!TypeOK)
  BY DEF BatchHolds
<1> QED
  BY <1>1, BatchInvariant, PTL

\* What seal() stores as the total is the membership, but for members that a caller
\* without autocommit could not see in its snapshot (_count_current); progress() counts
\* no member as finished that never was, and racing reconcilers enqueue each callback once.
THEOREM BatchesTellTheTruth == PartSpec => []BatchTellsTheTruthHere
<1>1. (part = "batch" => BatchHolds) => BatchTellsTheTruthHere
  BY DEF BatchHolds, ReportOK, BatchTellsTheTruthHere, Batches!BatchTellsTheTruth
<1> QED
  BY <1>1, BatchInvariant, PTL

\* A batch completes over finished members, but for one that an operator retried since
\* they were counted, and on_success goes out only if each has been SUCCESSFUL, but for as
\* many as seal() did not see (_complete_once).
THEOREM CompletionsAreEarned == PartSpec => CompletionIsEarnedHere
<1>1. /\ part = "batch" => BatchHolds
      /\ [PartNext]_<<part, vars, batches, admission, outcome, backstop>>
      => [part = "batch" => Batches!EarnsItsCompletion]_batches
  BY PartBatchNext
<1> QED
  BY <1>1, BatchInvariant, PTL DEF PartSpec, CompletionIsEarnedHere
-----------------------------------------------------------------------------
(* The limits that workers share.                                          *)

\* A claim whose admission is yet to be counted.
Counting(v) ==
  v.at \in {"record", "count"} \/ (v.at \in {"select", "seed", "roll"} /\ v.back = "count")

\* It is one of this window's.
Uncounted(v) == v.since # -1 /\ v.since = window.id

\* May be admitted as it sees the windows, and may run as it counted the rows.
MayClaim(v) == "rate" \in limits /\ ~v.stale /\ ~v.blocked /\ v.since = -1
MayRun(v) ==
  /\ "running" \in limits /\ ~v.full
  /\ v.at \in {"apply", "claim"} \/ (v.at \in {"idle", "select", "seed", "roll"} /\ ~v.due)

\* What is known of a worker.
RateOK(v) ==
  /\ v.at = "count" => v.tries < Tries
  /\ v.failures <= MAX_COUNT_FAILURES
  /\ v.failures = MAX_COUNT_FAILURES => v.closed
  /\ v.since # -1 => Counting(v)
  /\ Counting(v) => v.failures < MAX_COUNT_FAILURES
  /\ ~v.stale /\ v.closed => v.blocked
  /\ "rate" \in limits =>
       /\ v.at \in {"roll", "clear", "count running", "apply", "claim"} => ~v.stale
       /\ ~v.stale \/ Counting(v) => window.id # -1
       /\ ~v.stale /\ ~v.blocked => Limit > 0
  /\ "rate" \notin limits =>
       v.at \notin {"select", "seed", "roll"} /\ v.since = -1 /\ v.failures = 0

RunningOK(v) ==
  /\ Counting(v) /\ v.at # "record" => v.due
  /\ v.freed => v.due \/ v.at = "count running"

WindowOK ==
  /\ window.id = -1 => window.used = 0
  /\ window.expired => window.id \in 0 .. LastWindow - 1
  /\ "rate" \notin limits => window.id = -1

PoolsOK ==
  /\ \A w \in Workers : running[w] + marks[w] <= Concurrency
  /\ "running" \notin limits => abandoned = 0 /\ \A w \in Workers : running[w] = 0

CrewOK == \A w \in Workers : RateOK(worker[w]) /\ RunningOK(worker[w])

Here == {w \in Workers : Uncounted(worker[w])}
Admissible == {w \in Workers : MayClaim(worker[w])}
Runnable == {w \in Workers : MayRun(worker[w])}
Ceiling == IF MaxRunning = 0 THEN 0 ELSE MaxRunning + Cardinality(Workers) - 1

\* No more are admitted, or run, than the limits and the workers account for.
Counted == admitted <= window.used + Cardinality(Here) + lost
Admits == admitted + Cardinality(Admissible) <= Limit + Cardinality(Workers) - 1 + lost
Runs == Limits!AllRunning + Cardinality(Runnable) <= Ceiling

LimitsHold ==
  /\ Limits!TypeOK /\ WindowOK /\ PoolsOK
  /\ CrewOK
  /\ Counted /\ Admits /\ Runs

LEMMA LimitsFacts ==
  /\ IsFiniteSet(Workers) /\ Cardinality(Workers) \in Nat /\ Cardinality(Workers) > 0
  /\ Limit \in Nat /\ MaxRunning \in Nat /\ LastWindow \in Nat /\ Concurrency \in Nat
  /\ Tries \in Nat /\ Tries > 0 /\ MAX_COUNT_FAILURES \in Nat /\ MAX_COUNT_FAILURES > 0
  /\ MaxErrors \in Nat /\ MaxDeaths \in Nat
  /\ Configurations \subseteq SUBSET {"rate", "running"}
<1>1. /\ Limits!IsFiniteSet(Workers) /\ Workers # {}
      /\ Configurations \subseteq SUBSET {"rate", "running"}
      /\ {Concurrency, Limit, MaxRunning, LastWindow, MaxErrors, MaxDeaths} \subseteq Nat
      /\ {Tries, MAX_COUNT_FAILURES} \subseteq Nat \ {0}
  BY LimitsAssumption DEF Limits!Parameters
<1>2. IsFiniteSet(Workers)
  BY <1>1 DEF IsFiniteSet, Limits!IsFiniteSet
<1>3. Cardinality(Workers) \in Nat /\ Cardinality(Workers) # 0
  BY <1>1, <1>2, FS_CardinalityType, FS_EmptySet
<1> QED
  BY <1>1, <1>2, <1>3

LEMMA CrewCounts ==
  ASSUME NEW S \in SUBSET Workers
  PROVE  /\ IsFiniteSet(S) /\ Cardinality(S) \in Nat /\ Cardinality(S) <= Cardinality(Workers)
         /\ Limits!Cardinality(S) = Cardinality(S)
<1>1. Limits!Cardinality(S) = Cardinality(S)
  BY DEF Cardinality, Limits!Cardinality
<1> QED
  BY <1>1, LimitsFacts, FS_Subset, FS_CardinalityType

Bit(b) == IF b THEN 1 ELSE 0

\* Two crews that differ in one worker at most.
LEMMA SwapOne ==
  ASSUME NEW w \in Workers, NEW S \in SUBSET Workers, NEW T \in SUBSET Workers,
         \A u \in Workers \ {w} : u \in S <=> u \in T
  PROVE  Cardinality(T) + Bit(w \in S) = Cardinality(S) + Bit(w \in T)
<1>1. S \ {w} = T \ {w}
  OBVIOUS
<1>2. /\ Cardinality(S \ {w}) = IF w \in S THEN Cardinality(S) - 1 ELSE Cardinality(S)
      /\ Cardinality(T \ {w}) = IF w \in T THEN Cardinality(T) - 1 ELSE Cardinality(T)
  BY CrewCounts, FS_RemoveElement
<1>3. Cardinality(S) \in Nat /\ Cardinality(T) \in Nat
  BY CrewCounts
<1> QED
  BY <1>1, <1>2, <1>3 DEF Bit

LEMMA DisjointCrews ==
  ASSUME NEW S \in SUBSET Workers, NEW T \in SUBSET Workers, S \cap T = {}
  PROVE  Cardinality(S) + Cardinality(T) <= Cardinality(Workers)
<1>1. IsFiniteSet(S) /\ IsFiniteSet(T) /\ Cardinality(S) \in Nat /\ Cardinality(T) \in Nat
  BY CrewCounts
<1>2. Cardinality(S \cup T) = Cardinality(S) + Cardinality(T) - Cardinality(S \cap T)
  BY <1>1, FS_Union
<1>3. Cardinality(S \cap T) = 0
  BY FS_EmptySet
<1>4. Cardinality(S \cup T) <= Cardinality(Workers)
  BY CrewCounts
<1> QED
  BY <1>1, <1>2, <1>3, <1>4

-----------------------------------------------------------------------------
LEMMA LimitsTypes ==
  ASSUME Limits!TypeOK
  PROVE  /\ limits \in Configurations /\ limits \subseteq {"rate", "running"}
         /\ window.id \in -1 .. LastWindow /\ window.used \in Nat /\ window.expired \in BOOLEAN
         /\ window \in [id : -1 .. LastWindow, used : Nat, expired : BOOLEAN]
         /\ worker \in [Workers -> Limits!Worker]
         /\ \A w \in Workers :
              worker[w] \in Limits!Worker /\ running[w] \in Nat /\ marks[w] \in Nat
         /\ running \in [Workers -> Nat] /\ marks \in [Workers -> Nat]
         /\ abandoned \in Nat /\ admitted \in Nat /\ lost \in Nat /\ errors \in Nat
         /\ deaths \in Nat
BY LimitsFacts DEF Limits!TypeOK

\* The RUNNING rows can be counted.
LEMMA RowsCount ==
  ASSUME Limits!TypeOK
  PROVE  /\ IsFiniteSet(Limits!RunningRows) /\ Cardinality(Limits!RunningRows) \in Nat
         /\ Limits!AllRunning = abandoned + Cardinality(Limits!RunningRows)
         /\ Limits!AllRunning \in Nat
<1>1. IsFiniteSet(1 .. Concurrency)
  BY LimitsFacts, FS_Interval
<1>2. IsFiniteSet(Workers \X (1 .. Concurrency))
  BY <1>1, LimitsFacts, FS_Product
<1>3. Limits!RunningRows \in SUBSET (Workers \X (1 .. Concurrency))
  BY DEF Limits!RunningRows
<1>4. IsFiniteSet(Limits!RunningRows) /\ Cardinality(Limits!RunningRows) \in Nat
  BY <1>2, <1>3, FS_Subset, FS_CardinalityType
<1>5. Limits!AllRunning = abandoned + Cardinality(Limits!RunningRows)
  BY DEF Limits!AllRunning, Cardinality, Limits!Cardinality
<1> QED
  BY <1>4, <1>5, LimitsTypes

LEMMA RowsAre ==
  ASSUME Limits!TypeOK
  PROVE  /\ \A x \in Limits!RunningRows :
              /\ x = <<x[1], x[2]>> /\ x[1] \in Workers /\ x[2] \in 1 .. Concurrency
              /\ x[2] <= running[x[1]]
         /\ \A w \in Workers, i \in 1 .. Concurrency :
              i <= running[w] <=> <<w, i>> \in Limits!RunningRows
BY DEF Limits!RunningRows

\* A claim adds a row.
LEMMA RowAdded ==
  ASSUME Limits!TypeOK, Limits!TypeOK', NEW w \in Workers, running[w] < Concurrency,
         running' = [running EXCEPT ![w] = running[w] + 1], abandoned' = abandoned
  PROVE  Limits!AllRunning' = Limits!AllRunning + 1
<1> DEFINE new == <<w, running[w] + 1>>
<1>1. running[w] + 1 \in 1 .. Concurrency /\ running[w] \in Nat
  BY LimitsTypes, LimitsFacts
<1>2. /\ \A u \in Workers \ {w} : running'[u] = running[u]
      /\ running'[w] = running[w] + 1
  BY LimitsTypes
<1>3. new \notin Limits!RunningRows
  BY <1>1 DEF Limits!RunningRows
<1>4. Limits!RunningRows' = Limits!RunningRows \cup {new}
  <2>1. ASSUME NEW x \in Limits!RunningRows'
        PROVE  x \in Limits!RunningRows \cup {new}
    <3>1. /\ x \in Workers \X (1 .. Concurrency) /\ x[2] <= running'[x[1]]
          /\ x = <<x[1], x[2]>> /\ x[1] \in Workers /\ x[2] \in 1 .. Concurrency
      BY DEF Limits!RunningRows
    <3>2. CASE x[1] = w
      <4>1. x[2] <= running[w] \/ x[2] = running[w] + 1
        BY <1>1, <1>2, <3>1, <3>2
      <4> QED
        BY <3>1, <3>2, <4>1 DEF Limits!RunningRows
    <3>3. CASE x[1] # w
      BY <1>2, <3>1, <3>3 DEF Limits!RunningRows
    <3> QED
      BY <3>2, <3>3
  <2>2. ASSUME NEW x \in Limits!RunningRows
        PROVE  x \in Limits!RunningRows'
    <3>1. /\ x \in Workers \X (1 .. Concurrency) /\ x[2] <= running[x[1]]
          /\ x[1] \in Workers /\ x[2] \in 1 .. Concurrency
      BY DEF Limits!RunningRows
    <3>2. x[2] <= running'[x[1]]
      BY <1>1, <1>2, <3>1
    <3> QED
      BY <3>1, <3>2 DEF Limits!RunningRows
  <2>3. new \in Limits!RunningRows'
    BY <1>1, <1>2 DEF Limits!RunningRows
  <2> QED
    BY <2>1, <2>2, <2>3
<1> HIDE DEF new
<1>5. Cardinality(Limits!RunningRows') = Cardinality(Limits!RunningRows) + 1
  BY <1>3, <1>4, RowsCount, FS_AddElement
<1>6. Limits!AllRunning' = abandoned' + Cardinality(Limits!RunningRows')
  BY DEF Limits!AllRunning, Cardinality, Limits!Cardinality
<1> QED
  BY <1>5, <1>6, RowsCount, LimitsTypes

\* An outcome takes one.
LEMMA RowTaken ==
  ASSUME Limits!TypeOK, Limits!TypeOK', NEW w \in Workers,
         running[w] > 0, running[w] <= Concurrency,
         running' = [running EXCEPT ![w] = running[w] - 1], abandoned' = abandoned
  PROVE  Limits!AllRunning' = Limits!AllRunning - 1
<1> DEFINE old == <<w, running[w]>>
<1>1. running[w] \in 1 .. Concurrency /\ running[w] \in Nat
  BY LimitsTypes, LimitsFacts
<1>2. /\ \A u \in Workers \ {w} : running'[u] = running[u]
      /\ running'[w] = running[w] - 1
  BY LimitsTypes
<1>3. old \in Limits!RunningRows
  BY <1>1 DEF Limits!RunningRows
<1>4. Limits!RunningRows' = Limits!RunningRows \ {old}
  <2>1. ASSUME NEW x \in Limits!RunningRows'
        PROVE  x \in Limits!RunningRows \ {old}
    <3>1. /\ x \in Workers \X (1 .. Concurrency) /\ x[2] <= running'[x[1]]
          /\ x = <<x[1], x[2]>> /\ x[1] \in Workers /\ x[2] \in 1 .. Concurrency
      BY DEF Limits!RunningRows
    <3>2. x[2] <= running[x[1]] /\ (x[1] = w => x[2] # running[w])
      BY <1>1, <1>2, <3>1
    <3>3. x # old
      BY <3>1, <3>2
    <3> QED
      BY <3>1, <3>2, <3>3 DEF Limits!RunningRows
  <2>2. ASSUME NEW x \in Limits!RunningRows \ {old}
        PROVE  x \in Limits!RunningRows'
    <3>1. /\ x \in Workers \X (1 .. Concurrency) /\ x[2] <= running[x[1]]
          /\ x = <<x[1], x[2]>> /\ x[1] \in Workers /\ x[2] \in 1 .. Concurrency
      BY DEF Limits!RunningRows
    <3>2. x[1] = w => x[2] # running[w]
      BY <3>1
    <3>3. x[2] <= running'[x[1]]
      BY <1>1, <1>2, <3>1, <3>2
    <3> QED
      BY <3>1, <3>3 DEF Limits!RunningRows
  <2> QED
    BY <2>1, <2>2
<1> HIDE DEF old
<1>5. Cardinality(Limits!RunningRows') = Cardinality(Limits!RunningRows) - 1
  BY <1>3, <1>4, RowsCount, FS_RemoveElement
<1>6. Limits!AllRunning' = abandoned' + Cardinality(Limits!RunningRows')
  BY DEF Limits!AllRunning, Cardinality, Limits!Cardinality
<1> QED
  BY <1>5, <1>6, RowsCount, LimitsTypes

\* Those of a worker that dies are RUNNING still.
LEMMA RowsAbandoned ==
  ASSUME Limits!TypeOK, Limits!TypeOK', NEW w \in Workers, running[w] <= Concurrency,
         running' = [running EXCEPT ![w] = 0], abandoned' = abandoned + running[w]
  PROVE  Limits!AllRunning' = Limits!AllRunning
<1> DEFINE own == {w} \X (1 .. running[w])
<1>1. running[w] \in Nat
  BY LimitsTypes
<1>2. /\ \A u \in Workers \ {w} : running'[u] = running[u]
      /\ running'[w] = 0
  BY LimitsTypes
<1>3. IsFiniteSet(own) /\ Cardinality(own) = running[w]
  <2> DEFINE k == running[w]
  <2>1. k \in Nat /\ k \in Int /\ 1 \in Int
    BY <1>1
  <2> HIDE DEF k
  <2>2. /\ IsFiniteSet(1 .. k)
        /\ Cardinality(1 .. k) = IF 1 > k THEN 0 ELSE k - 1 + 1
    BY <2>1, FS_Interval
  <2>3. Cardinality(1 .. k) = k
    BY <2>1, <2>2
  <2>4. IsFiniteSet({w}) /\ Cardinality({w}) = 1
    BY FS_Singleton
  <2>5. /\ IsFiniteSet({w} \X (1 .. k))
        /\ Cardinality({w} \X (1 .. k)) = Cardinality({w}) * Cardinality(1 .. k)
    BY <2>2, <2>4, FS_Product
  <2>6. Cardinality({w} \X (1 .. k)) = k
    BY <2>1, <2>3, <2>4, <2>5
  <2>7. own = {w} \X (1 .. k)
    BY DEF k
  <2> QED
    BY <2>5, <2>6, <2>7 DEF k
<1>4. Limits!RunningRows = Limits!RunningRows' \cup own
  <2>1. ASSUME NEW x \in Limits!RunningRows
        PROVE  x \in Limits!RunningRows' \cup own
    <3>1. /\ x \in Workers \X (1 .. Concurrency) /\ x[2] <= running[x[1]]
          /\ x = <<x[1], x[2]>> /\ x[1] \in Workers /\ x[2] \in 1 .. Concurrency
      BY DEF Limits!RunningRows
    <3>2. CASE x[1] = w
      BY <1>1, <3>1, <3>2
    <3>3. CASE x[1] # w
      BY <1>2, <3>1, <3>3 DEF Limits!RunningRows
    <3> QED
      BY <3>2, <3>3
  <2>2. ASSUME NEW x \in Limits!RunningRows'
        PROVE  x \in Limits!RunningRows
    <3>1. /\ x \in Workers \X (1 .. Concurrency) /\ x[2] <= running'[x[1]]
          /\ x[1] \in Workers /\ x[2] \in 1 .. Concurrency
      BY DEF Limits!RunningRows
    <3>2. x[2] <= running[x[1]]
      BY <1>1, <1>2, <3>1
    <3> QED
      BY <3>1, <3>2 DEF Limits!RunningRows
  <2>3. ASSUME NEW x \in own
        PROVE  x \in Limits!RunningRows
    <3>1. x[1] = w /\ x[2] \in 1 .. running[w] /\ x = <<x[1], x[2]>>
      OBVIOUS
    <3>2. x[2] \in 1 .. Concurrency
      BY <1>1, <3>1, LimitsFacts
    <3> QED
      BY <3>1, <3>2 DEF Limits!RunningRows
  <2> QED
    BY <2>1, <2>2, <2>3
<1>5. Limits!RunningRows' \cap own = {}
  <2>1. ASSUME NEW x \in Limits!RunningRows', x \in own
        PROVE  FALSE
    BY <1>2, <2>1 DEF Limits!RunningRows
  <2> QED
    BY <2>1
<1> HIDE DEF own
<1>6. IsFiniteSet(Limits!RunningRows') /\ Cardinality(Limits!RunningRows') \in Nat
  <2>1. Limits!RunningRows' \in SUBSET Limits!RunningRows
    BY <1>4
  <2> QED
    BY <2>1, RowsCount, FS_Subset, FS_CardinalityType
<1>7. Cardinality(Limits!RunningRows) = Cardinality(Limits!RunningRows') + running[w]
  <2>1. Cardinality(Limits!RunningRows' \cap own) = 0
    BY <1>5, FS_EmptySet
  <2>2. Cardinality(Limits!RunningRows' \cup own) =
          Cardinality(Limits!RunningRows') + Cardinality(own)
            - Cardinality(Limits!RunningRows' \cap own)
    BY <1>3, <1>6, FS_Union
  <2> QED
    BY <1>1, <1>3, <1>4, <1>6, <2>1, <2>2
<1>8. Limits!AllRunning' = abandoned' + Cardinality(Limits!RunningRows')
  BY DEF Limits!AllRunning, Cardinality, Limits!Cardinality
<1> QED
  BY <1>1, <1>6, <1>7, <1>8, RowsCount, LimitsTypes

-----------------------------------------------------------------------------
\* One worker moves.
LEMMA OneWorker ==
  ASSUME Limits!TypeOK, NEW w \in Workers, NEW v \in Limits!Worker,
         Limits!Becomes(w, v), limits' = limits
  PROVE  /\ worker' \in [Workers -> Limits!Worker] /\ worker'[w] = v
         /\ \A u \in Workers \ {w} : worker'[u] = worker[u]
         /\ {Cardinality(Admissible), Cardinality(Admissible'), Cardinality(Runnable),
             Cardinality(Runnable'), Cardinality(Here), Cardinality(Here')} \subseteq Nat
         /\ Cardinality(Admissible') + Bit(MayClaim(worker[w]))
              = Cardinality(Admissible) + Bit(MayClaim(v))
         /\ Cardinality(Runnable') + Bit(MayRun(worker[w]))
              = Cardinality(Runnable) + Bit(MayRun(v))
         /\ window'.id = window.id =>
              Cardinality(Here') + Bit(Uncounted(worker[w]))
                = Cardinality(Here) + Bit(Uncounted(v))
<1>1. /\ worker' \in [Workers -> Limits!Worker] /\ worker'[w] = v
      /\ \A u \in Workers \ {w} : worker'[u] = worker[u]
  BY LimitsTypes DEF Limits!Becomes
<1>2. {Cardinality(Admissible), Cardinality(Admissible'), Cardinality(Runnable),
       Cardinality(Runnable'), Cardinality(Here), Cardinality(Here')} \subseteq Nat
  <2>1. /\ Admissible \in SUBSET Workers /\ Admissible' \in SUBSET Workers
        /\ Runnable \in SUBSET Workers /\ Runnable' \in SUBSET Workers
        /\ Here \in SUBSET Workers /\ Here' \in SUBSET Workers
    BY DEF Admissible, Runnable, Here
  <2> QED
    BY <2>1, CrewCounts
<1>3. Cardinality(Admissible') + Bit(MayClaim(worker[w]))
        = Cardinality(Admissible) + Bit(MayClaim(v))
  <2>1. /\ Admissible \in SUBSET Workers /\ Admissible' \in SUBSET Workers
        /\ \A u \in Workers \ {w} : u \in Admissible <=> u \in Admissible'
        /\ w \in Admissible <=> MayClaim(worker[w])
        /\ w \in Admissible' <=> MayClaim(v)
    BY <1>1 DEF Admissible, MayClaim
  <2>2. Cardinality(Admissible') + Bit(w \in Admissible)
          = Cardinality(Admissible) + Bit(w \in Admissible')
    BY <2>1, SwapOne
  <2> QED
    BY <2>1, <2>2 DEF Bit
<1>4. Cardinality(Runnable') + Bit(MayRun(worker[w])) = Cardinality(Runnable) + Bit(MayRun(v))
  <2>1. /\ Runnable \in SUBSET Workers /\ Runnable' \in SUBSET Workers
        /\ \A u \in Workers \ {w} : u \in Runnable <=> u \in Runnable'
        /\ w \in Runnable <=> MayRun(worker[w])
        /\ w \in Runnable' <=> MayRun(v)
    BY <1>1 DEF Runnable, MayRun
  <2>2. Cardinality(Runnable') + Bit(w \in Runnable)
          = Cardinality(Runnable) + Bit(w \in Runnable')
    BY <2>1, SwapOne
  <2> QED
    BY <2>1, <2>2 DEF Bit
<1>5. ASSUME window'.id = window.id
      PROVE  Cardinality(Here') + Bit(Uncounted(worker[w]))
               = Cardinality(Here) + Bit(Uncounted(v))
  <2>1. /\ Here \in SUBSET Workers /\ Here' \in SUBSET Workers
        /\ \A u \in Workers \ {w} : u \in Here <=> u \in Here'
        /\ w \in Here <=> Uncounted(worker[w])
        /\ w \in Here' <=> Uncounted(v)
    BY <1>1, <1>5 DEF Here, Uncounted
  <2>2. Cardinality(Here') + Bit(w \in Here) = Cardinality(Here) + Bit(w \in Here')
    BY <2>1, SwapOne
  <2> QED
    BY <2>1, <2>2 DEF Bit
<1> QED
  BY <1>1, <1>2, <1>3, <1>4, <1>5

-----------------------------------------------------------------------------
\* What is known of each worker, when one moves.
LEMMA CrewKept ==
  ASSUME LimitsHold, Limits!TypeOK', NEW w \in Workers, NEW v \in Limits!Worker,
         Limits!Becomes(w, v), limits' = limits, window.id # -1 => window'.id # -1,
         RateOK(v)', RunningOK(v)'
  PROVE  CrewOK'
<1> SUFFICES ASSUME NEW u \in Workers
             PROVE  (RateOK(worker[u]) /\ RunningOK(worker[u]))'
  BY DEF CrewOK
<1>1. Limits!TypeOK /\ RateOK(worker[u]) /\ RunningOK(worker[u])
  BY DEF LimitsHold, CrewOK
<1>2. worker'[w] = v /\ (u # w => worker'[u] = worker[u])
  BY <1>1, OneWorker
<1>3. CASE u = w
  BY <1>2, <1>3 DEF RateOK, RunningOK, Counting
<1>4. CASE u # w
  <2>1. worker'[u] = worker[u]
    BY <1>2, <1>4
  <2>2. RateOK(worker[u])'
    BY <1>1, <2>1 DEF RateOK, Counting
  <2>3. RunningOK(worker[u])'
    BY <1>1, <2>1 DEF RunningOK, Counting
  <2> QED
    BY <2>2, <2>3
<1> QED
  BY <1>3, <1>4

\* The admissions of a window, when one worker moves in it.
LEMMA RateKept ==
  ASSUME Limits!TypeOK, Limits!TypeOK', Counted, Admits, NEW w \in Workers,
         NEW v \in Limits!Worker,
         Limits!Becomes(w, v), limits' = limits, window'.id = window.id,
         admitted' + window.used + Bit(Uncounted(worker[w])) + lost
           <= admitted + window'.used + Bit(Uncounted(v)) + lost',
         \/ admitted' + Bit(MayClaim(v)) + lost <= admitted + Bit(MayClaim(worker[w])) + lost'
         \/ window'.used < Limit
  PROVE  Counted' /\ Admits'
<1>1. /\ {Cardinality(Admissible), Cardinality(Admissible'), Cardinality(Here), Cardinality(Here')}
           \subseteq Nat
      /\ Cardinality(Admissible') + Bit(MayClaim(worker[w]))
           = Cardinality(Admissible) + Bit(MayClaim(v))
      /\ Cardinality(Here') + Bit(Uncounted(worker[w])) = Cardinality(Here) + Bit(Uncounted(v))
  BY OneWorker
<1>2. /\ {admitted, admitted', lost, lost', window.used, window'.used} \subseteq Nat
      /\ Limit \in Nat /\ Cardinality(Workers) \in Nat
  <2>1. {admitted, lost, window.used} \subseteq Nat
    BY LimitsTypes
  <2>2. {admitted', lost', window'.used} \subseteq Nat
    BY DEF Limits!TypeOK
  <2> QED
    BY <2>1, <2>2, LimitsFacts
<1>3. \A b : Bit(b) \in {0, 1}
  BY DEF Bit
<1>4. Counted'
  <2>1. admitted <= window.used + Cardinality(Here) + lost
    BY DEF Counted
  <2>2. admitted' <= window'.used + Cardinality(Here') + lost'
    BY <1>1, <1>2, <1>3, <2>1
  <2> QED
    BY <2>2 DEF Counted
<1>5. Admits'
  <2>1. admitted + Cardinality(Admissible) <= Limit + Cardinality(Workers) - 1 + lost
    BY DEF Admits
  <2>2. CASE admitted' + Bit(MayClaim(v)) + lost <= admitted + Bit(MayClaim(worker[w])) + lost'
    <3>1. admitted' + Cardinality(Admissible') <= Limit + Cardinality(Workers) - 1 + lost'
      BY <1>1, <1>2, <1>3, <2>1, <2>2
    <3> QED
      BY <3>1 DEF Admits
  <2>3. CASE window'.used < Limit
    <3>1. /\ Here' \in SUBSET Workers /\ Admissible' \in SUBSET Workers
          /\ Here' \cap Admissible' = {}
      BY DEF Here, Admissible, Uncounted, MayClaim
    <3>2. Cardinality(Here') + Cardinality(Admissible') <= Cardinality(Workers)
      BY <3>1, DisjointCrews
    <3>3. admitted' <= window'.used + Cardinality(Here') + lost'
      BY <1>4 DEF Counted
    <3>4. admitted' + Cardinality(Admissible') <= Limit + Cardinality(Workers) - 1 + lost'
      BY <1>1, <1>2, <2>3, <3>2, <3>3
    <3> QED
      BY <3>4 DEF Admits
  <2> QED
    BY <2>2, <2>3
<1> QED
  BY <1>4, <1>5

\* The RUNNING rows and who may add one.
LEMMA RunKept ==
  ASSUME Limits!TypeOK, Limits!TypeOK', Runs, NEW w \in Workers, NEW v \in Limits!Worker,
         Limits!Becomes(w, v), limits' = limits,
         \/ Limits!AllRunning' + Bit(MayRun(v)) <= Limits!AllRunning + Bit(MayRun(worker[w]))
         \/ Limits!AllRunning' < MaxRunning
  PROVE  Runs'
<1>1. /\ {Cardinality(Runnable), Cardinality(Runnable')} \subseteq Nat
      /\ Cardinality(Runnable') + Bit(MayRun(worker[w])) = Cardinality(Runnable) + Bit(MayRun(v))
  BY OneWorker
<1>2. Limits!AllRunning \in Nat /\ Limits!AllRunning' \in Nat
  <2>1. IsFiniteSet(Workers \X (1 .. Concurrency))
    <3>1. IsFiniteSet(1 .. Concurrency)
      BY LimitsFacts, FS_Interval
    <3> QED
      BY <3>1, LimitsFacts, FS_Product
  <2>2. Limits!RunningRows' \in SUBSET (Workers \X (1 .. Concurrency))
    BY DEF Limits!RunningRows
  <2>3. Cardinality(Limits!RunningRows') \in Nat
    BY <2>1, <2>2, FS_Subset, FS_CardinalityType
  <2>4. Limits!AllRunning' = abandoned' + Cardinality(Limits!RunningRows')
    BY DEF Limits!AllRunning, Cardinality, Limits!Cardinality
  <2>5. abandoned' \in Nat
    BY DEF Limits!TypeOK
  <2> QED
    BY <2>3, <2>4, <2>5, RowsCount
<1>3. \A b : Bit(b) \in {0, 1}
  BY DEF Bit
<1>4. Ceiling' = Ceiling /\ Ceiling \in Int /\ MaxRunning \in Nat /\ Cardinality(Workers) \in Nat
  BY LimitsFacts DEF Ceiling
<1>5. CASE Limits!AllRunning' + Bit(MayRun(v)) <= Limits!AllRunning + Bit(MayRun(worker[w]))
  <2>1. Limits!AllRunning + Cardinality(Runnable) <= Ceiling
    BY DEF Runs
  <2>2. Limits!AllRunning' + Cardinality(Runnable') <= Ceiling
    BY <1>1, <1>2, <1>3, <1>4, <1>5, <2>1
  <2> QED
    BY <1>4, <2>2 DEF Runs
<1>6. CASE Limits!AllRunning' < MaxRunning
  <2>1. Cardinality(Runnable') <= Cardinality(Workers)
    <3>1. Runnable' \in SUBSET Workers
      BY DEF Runnable
    <3> QED
      BY <3>1, CrewCounts
  <2>2. MaxRunning # 0 /\ Ceiling = MaxRunning + Cardinality(Workers) - 1
    BY <1>2, <1>4, <1>6 DEF Ceiling
  <2>3. Limits!AllRunning' + Cardinality(Runnable') <= Ceiling
    BY <1>1, <1>2, <1>4, <1>6, <2>1, <2>2
  <2> QED
    BY <1>4, <2>3 DEF Runs
<1> QED
  BY <1>5, <1>6

-----------------------------------------------------------------------------
\* A step of one worker in one window.
LEMMA OneMoves ==
  ASSUME LimitsHold, Limits!TypeOK', WindowOK', PoolsOK', NEW w \in Workers,
         NEW v \in Limits!Worker,
         Limits!Becomes(w, v), limits' = limits, window'.id = window.id,
         RateOK(v), RunningOK(v),
         admitted' + window.used + Bit(Uncounted(worker[w])) + lost
           <= admitted + window'.used + Bit(Uncounted(v)) + lost',
         \/ admitted' + Bit(MayClaim(v)) + lost <= admitted + Bit(MayClaim(worker[w])) + lost'
         \/ window'.used < Limit,
         \/ Limits!AllRunning' + Bit(MayRun(v)) <= Limits!AllRunning + Bit(MayRun(worker[w]))
         \/ Limits!AllRunning' < MaxRunning
  PROVE  LimitsHold'
<1>1. Limits!TypeOK /\ Counted /\ Admits /\ Runs
  BY DEF LimitsHold
<1>2. RateOK(v)' /\ RunningOK(v)'
  BY DEF RateOK, RunningOK, Counting
<1>3. CrewOK'
  BY <1>2, CrewKept
<1>4. Counted' /\ Admits'
  BY <1>1, RateKept
<1>5. Runs'
  BY <1>1, RunKept
<1> QED
  BY <1>3, <1>4, <1>5 DEF LimitsHold

\* The rows are as they were.
LEMMA SameRows ==
  ASSUME UNCHANGED <<running, abandoned>>
  PROVE  Limits!AllRunning' = Limits!AllRunning
BY DEF Limits!AllRunning, Limits!RunningRows

\* One that writes nothing but what a claim lost.
LEMMA OneThinks ==
  ASSUME LimitsHold, NEW w \in Workers, NEW v \in Limits!Worker, Limits!Becomes(w, v),
         UNCHANGED <<limits, window, running, abandoned, marks, admitted, deaths>>,
         errors' \in Nat, lost' \in {lost, lost + 1}, RateOK(v), RunningOK(v),
         Uncounted(worker[w]) => Uncounted(v) \/ lost' = lost + 1,
         MayClaim(v) => MayClaim(worker[w]) \/ window.used < Limit,
         MayRun(v) => MayRun(worker[w]) \/ Limits!AllRunning < MaxRunning
  PROVE  LimitsHold'
<1>1. Limits!TypeOK /\ WindowOK /\ PoolsOK
  BY DEF LimitsHold
<1>2. /\ limits \in Configurations
      /\ window \in [id : -1 .. LastWindow, used : Nat, expired : BOOLEAN]
      /\ running \in [Workers -> Nat] /\ marks \in [Workers -> Nat]
      /\ abandoned \in Nat /\ admitted \in Nat /\ lost \in Nat /\ deaths \in Nat
      /\ window.used \in Nat
  BY <1>1, LimitsTypes
<1>3. worker' \in [Workers -> Limits!Worker]
  BY <1>1, OneWorker
<1>4. Limits!TypeOK'
  BY <1>2, <1>3 DEF Limits!TypeOK
<1>5. WindowOK' /\ PoolsOK'
  BY <1>1 DEF WindowOK, PoolsOK
<1>6. /\ window'.id = window.id /\ window'.used = window.used
      /\ Limits!AllRunning' = Limits!AllRunning /\ Limits!AllRunning \in Nat
  BY <1>1, SameRows, RowsCount
<1>7. admitted' + window.used + Bit(Uncounted(worker[w])) + lost
        <= admitted + window'.used + Bit(Uncounted(v)) + lost'
  BY <1>2, <1>6 DEF Bit
<1>8. \/ admitted' + Bit(MayClaim(v)) + lost <= admitted + Bit(MayClaim(worker[w])) + lost'
      \/ window'.used < Limit
  <2>1. CASE MayClaim(v) /\ window.used < Limit
    BY <1>6, <2>1
  <2>2. CASE MayClaim(v) => MayClaim(worker[w])
    <3>1. Bit(MayClaim(v)) \in {0, 1} /\ Bit(MayClaim(worker[w])) \in {0, 1}
      BY DEF Bit
    <3>2. Bit(MayClaim(v)) <= Bit(MayClaim(worker[w]))
      BY <2>2 DEF Bit
    <3> QED
      BY <1>2, <3>1, <3>2
  <2> QED
    BY <2>1, <2>2
<1>9. \/ Limits!AllRunning' + Bit(MayRun(v)) <= Limits!AllRunning + Bit(MayRun(worker[w]))
      \/ Limits!AllRunning' < MaxRunning
  BY <1>6 DEF Bit
<1> QED
  BY <1>4, <1>5, <1>6, <1>7, <1>8, <1>9, OneMoves

\* The end of the record of a claim that was not counted.
LEMMA Unrecords ==
  ASSUME NEW v \in Limits!Worker, v.failures < MAX_COUNT_FAILURES, v.due, "rate" \in limits
  PROVE  \E n \in Limits!Worker :
           /\ n = Limits!Admitted(Limits!Unrecorded(v)) /\ RateOK(n) /\ RunningOK(n)
           /\ n.since = -1 /\ ~MayClaim(n) /\ ~MayRun(n)
<1> DEFINE n == Limits!Admitted(Limits!Unrecorded(v))
           f == v.failures + 1
           c == v.closed \/ v.failures + 1 >= MAX_COUNT_FAILURES
<1>1. f \in Nat /\ c \in BOOLEAN /\ (f >= MAX_COUNT_FAILURES => c) /\ f <= MAX_COUNT_FAILURES
  <2>1. v.failures \in Nat /\ v.closed \in BOOLEAN /\ MAX_COUNT_FAILURES \in Nat
    BY LimitsFacts DEF Limits!Worker
  <2>2. f \in Nat /\ f <= MAX_COUNT_FAILURES
    BY <2>1
  <2>3. c \in BOOLEAN
    BY Zenon
  <2> QED
    BY <2>2, <2>3
<1>2. n = [v EXCEPT !.failures = f, !.closed = c, !.at = "idle", !.since = -1, !.stale = TRUE]
  BY DEF Limits!Worker, Limits!Admitted, Limits!Unrecorded
<1> HIDE DEF f, c, n
<1>3. n \in Limits!Worker
  <2>1. -1 \in -1 .. LastWindow
    BY LimitsFacts
  <2> QED
    BY <1>1, <1>2, <2>1 DEF Limits!Worker
<1>4. /\ n.at = "idle" /\ n.since = -1 /\ n.stale /\ n.due = v.due /\ n.freed = v.freed
      /\ n.failures = f /\ n.closed = c
  BY <1>2 DEF Limits!Worker
<1>5. RateOK(n)
  BY <1>1, <1>4, LimitsFacts DEF RateOK, Counting
<1>6. RunningOK(n) /\ ~MayClaim(n) /\ ~MayRun(n)
  BY <1>4 DEF RunningOK, Counting, MayClaim, MayRun
<1> QED
  BY <1>3, <1>4, <1>5, <1>6 DEF n

LEMMA UncountedHolds ==
  ASSUME LimitsHold, NEW w \in Workers, NEW v \in Limits!Worker, Limits!RunsUncounted(w, v),
         UNCHANGED <<limits, running, abandoned, marks, deaths>>, errors' \in Nat,
         v.since = worker[w].since, v.failures < MAX_COUNT_FAILURES, v.due,
         "rate" \in limits
  PROVE  LimitsHold'
<1>1. PICK n \in Limits!Worker :
        /\ n = Limits!Admitted(Limits!Unrecorded(v)) /\ RateOK(n) /\ RunningOK(n)
        /\ ~MayClaim(n) /\ ~MayRun(n)
  BY Unrecords
<1>2. Limits!Becomes(w, n) /\ UNCHANGED <<window, admitted>>
  BY <1>1 DEF Limits!RunsUncounted
<1>3. lost' \in {lost, lost + 1} /\ (Uncounted(worker[w]) => lost' = lost + 1)
  BY DEF Limits!RunsUncounted, Limits!Lost, Uncounted
<1> QED
  BY <1>1, <1>2, <1>3, OneThinks

-----------------------------------------------------------------------------
\* The same views, wherever the claim is.
Alike(n, v) ==
  /\ n.id = v.id /\ n.blocked = v.blocked /\ n.stale = v.stale /\ n.full = v.full
  /\ n.due = v.due /\ n.closed = v.closed /\ n.failures = v.failures /\ n.tries = v.tries
  /\ n.since = v.since /\ n.freed = v.freed

LEMMA WorkerKnown ==
  ASSUME LimitsHold, NEW w \in Workers
  PROVE  /\ worker[w] \in Limits!Worker /\ RateOK(worker[w]) /\ RunningOK(worker[w])
         /\ Limits!TypeOK /\ errors \in Nat /\ lost \in Nat
BY LimitsTypes DEF LimitsHold, CrewOK

LEMMA WorkerFields ==
  ASSUME NEW v \in Limits!Worker
  PROVE  /\ v.id \in -1 .. LastWindow /\ v.since \in -1 .. LastWindow
         /\ v.failures \in Nat /\ v.tries \in 0 .. Tries /\ v.back \in {"claim", "count"}
         /\ {v.blocked, v.stale, v.full, v.due, v.closed, v.freed} \subseteq BOOLEAN
         /\ v.at \in {"idle", "select", "seed", "roll", "clear", "count running", "apply",
                      "claim", "record", "count"}
BY DEF Limits!Worker

LEMMA ToRunningIs ==
  ASSUME NEW v \in Limits!Worker, NEW n \in Limits!ToRunning(v)
  PROVE  /\ n \in Limits!Worker /\ Alike(n, v) /\ n.back = v.back
         /\ n.at \in {"clear", "claim"}
         /\ n.at = "claim" => "running" \notin limits \/ ~v.due
<1>1. PICK to \in {"clear", "claim"} : /\ n = [v EXCEPT !.at = to]
                                       /\ to = "claim" => "running" \notin limits \/ ~v.due
  BY DEF Limits!ToRunning
<1> QED
  BY <1>1 DEF Limits!Worker, Alike

-----------------------------------------------------------------------------
LEMMA ClaimBegins ==
  ASSUME LimitsHold, NEW w \in Workers, Limits!Begin(w)
  PROVE  LimitsHold'
<1> DEFINE v == [worker[w] EXCEPT !.back = "claim"]
<1>1. /\ worker[w] \in Limits!Worker /\ RateOK(worker[w]) /\ RunningOK(worker[w])
      /\ errors \in Nat /\ worker[w].at = "idle"
  BY WorkerKnown DEF Limits!Begin, Limits!At
<1>2. PICK k \in Limits!Worker : k = v
  BY <1>1 DEF Limits!Worker
<1>3. Alike(k, worker[w]) /\ k.at = "idle" /\ k.back = "claim"
  BY <1>1, <1>2 DEF Limits!Worker, Alike
<1>4. UNCHANGED <<limits, window, running, abandoned, marks, admitted, lost, errors, deaths>>
  BY DEF Limits!Begin, Limits!Row, Limits!Rest
<1>5. PICK n \in Limits!Worker :
        /\ Limits!Becomes(w, n) /\ Alike(n, worker[w]) /\ n.back = "claim"
        /\ n.at \in {"select", "clear", "claim"}
        /\ n.at = "select" => "rate" \in limits
        /\ n.at # "select" => ~n.stale \/ "rate" \notin limits
        /\ n.at = "claim" => "running" \notin limits \/ ~n.due
  <2>1. CASE "rate" \in limits /\ Limits!Becomes(w, [v EXCEPT !.at = "select"])
    <3>1. PICK n \in Limits!Worker : n = [k EXCEPT !.at = "select"]
      BY <1>2 DEF Limits!Worker
    <3>2. Alike(n, worker[w]) /\ n.back = "claim" /\ n.at = "select"
      BY <1>3, <3>1 DEF Limits!Worker, Alike
    <3>3. Limits!Becomes(w, n)
      BY <1>2, <2>1, <3>1
    <3> QED
      BY <2>1, <3>2, <3>3
  <2>2. CASE /\ ~v.stale \/ "rate" \notin limits
             /\ \E next \in Limits!ToRunning(v) : Limits!Becomes(w, next)
    <3>1. PICK n \in Limits!ToRunning(k) : Limits!Becomes(w, n)
      BY <1>2, <2>2
    <3>2. /\ n \in Limits!Worker /\ Alike(n, k) /\ n.back = k.back
          /\ n.at \in {"clear", "claim"}
          /\ n.at = "claim" => "running" \notin limits \/ ~k.due
      BY ToRunningIs
    <3>3. ~k.stale \/ "rate" \notin limits
      BY <1>2, <2>2
    <3> QED
      BY <1>3, <3>1, <3>2, <3>3 DEF Alike
  <2> QED
    BY <2>1, <2>2 DEF Limits!Begin
<1>6. worker[w].since = -1
  BY <1>1 DEF RateOK, Counting
<1>7. RateOK(n) /\ RunningOK(n)
  BY <1>1, <1>5, <1>6 DEF RateOK, RunningOK, Counting, Alike
<1>8. /\ ~Uncounted(worker[w]) /\ (MayClaim(n) => MayClaim(worker[w]))
      /\ MayRun(n) => MayRun(worker[w])
  BY <1>1, <1>5, <1>6 DEF Uncounted, MayClaim, MayRun, Alike
<1> QED
  BY <1>1, <1>4, <1>5, <1>7, <1>8, OneThinks

LEMMA ClearHolds ==
  ASSUME LimitsHold, NEW w \in Workers, Limits!Clear(w)
  PROVE  LimitsHold'
<1>1. /\ worker[w] \in Limits!Worker /\ RateOK(worker[w]) /\ RunningOK(worker[w])
      /\ errors \in Nat /\ worker[w].at = "clear"
  BY WorkerKnown DEF Limits!Clear, Limits!At
<1>2. PICK n \in Limits!Worker : n = [worker[w] EXCEPT !.at = "count running", !.due = FALSE]
  BY <1>1 DEF Limits!Worker
<1>3. /\ n.at = "count running" /\ n.blocked = worker[w].blocked /\ n.stale = worker[w].stale
      /\ n.closed = worker[w].closed /\ n.failures = worker[w].failures
      /\ n.since = worker[w].since
  BY <1>1, <1>2 DEF Limits!Worker
<1>4. /\ Limits!Becomes(w, n)
      /\ UNCHANGED <<limits, window, running, abandoned, marks, admitted, lost, errors, deaths>>
  BY <1>2 DEF Limits!Clear, Limits!Row, Limits!Rest
<1>5. RateOK(n) /\ RunningOK(n)
  BY <1>1, <1>3 DEF RateOK, RunningOK, Counting
<1>6. /\ Uncounted(worker[w]) => Uncounted(n)
      /\ MayClaim(n) => MayClaim(worker[w])
      /\ ~MayRun(n)
  BY <1>3 DEF Uncounted, MayClaim, MayRun
<1> QED
  BY <1>1, <1>4, <1>5, <1>6, OneThinks

LEMMA CountRunningHolds ==
  ASSUME LimitsHold, NEW w \in Workers, Limits!CountRunning(w)
  PROVE  LimitsHold'
<1> DEFINE rows == Limits!AllRunning
           f == rows >= MaxRunning
<1>1. /\ worker[w] \in Limits!Worker /\ RateOK(worker[w]) /\ RunningOK(worker[w])
      /\ errors \in Nat /\ worker[w].at = "count running" /\ rows \in Nat /\ MaxRunning \in Nat
  BY WorkerKnown, RowsCount, LimitsFacts DEF Limits!CountRunning, Limits!At
<1>2. f \in BOOLEAN /\ (~f => rows < MaxRunning)
  <2>1. rows \in Nat /\ MaxRunning \in Nat
    BY <1>1
  <2> HIDE DEF rows
  <2>2. f \in BOOLEAN
    BY <2>1
  <2>3. ~f => rows < MaxRunning
    BY <2>1
  <2> QED
    BY <2>2, <2>3
<1>3. Limits!Becomes(w, [worker[w] EXCEPT !.at = "apply", !.freed = FALSE, !.full = f])
  BY DEF Limits!CountRunning
<1> HIDE DEF f
<1>4. PICK n \in Limits!Worker :
        n = [worker[w] EXCEPT !.at = "apply", !.freed = FALSE, !.full = f]
  BY <1>1, <1>2 DEF Limits!Worker
<1>5. /\ n.at = "apply" /\ n.blocked = worker[w].blocked /\ n.stale = worker[w].stale
      /\ n.closed = worker[w].closed /\ n.failures = worker[w].failures
      /\ n.since = worker[w].since /\ ~n.freed /\ n.full = f
  BY <1>1, <1>4 DEF Limits!Worker
<1>6. UNCHANGED <<limits, window, running, abandoned, marks, admitted, lost, errors, deaths>>
  BY DEF Limits!CountRunning, Limits!Row, Limits!Rest
<1>7. RateOK(n) /\ RunningOK(n)
  BY <1>1, <1>5 DEF RateOK, RunningOK, Counting
<1>8. /\ Uncounted(worker[w]) => Uncounted(n)
      /\ MayClaim(n) => MayClaim(worker[w])
      /\ MayRun(n) => Limits!AllRunning < MaxRunning
  BY <1>2, <1>5 DEF Uncounted, MayClaim, MayRun
<1>9. Limits!Becomes(w, n)
  BY <1>3, <1>4
<1> QED
  BY <1>1, <1>6, <1>7, <1>8, <1>9, OneThinks

LEMMA ApplyHolds ==
  ASSUME LimitsHold, NEW w \in Workers, Limits!Apply(w)
  PROVE  LimitsHold'
<1>1. /\ worker[w] \in Limits!Worker /\ RateOK(worker[w]) /\ RunningOK(worker[w])
      /\ errors \in Nat /\ worker[w].at = "apply"
  BY WorkerKnown DEF Limits!Apply, Limits!At
<1>2. PICK n \in Limits!Worker : n = [worker[w] EXCEPT !.at = "claim"]
  BY <1>1 DEF Limits!Worker
<1>3. n.at = "claim" /\ Alike(n, worker[w])
  BY <1>1, <1>2 DEF Limits!Worker, Alike
<1>4. /\ Limits!Becomes(w, n)
      /\ UNCHANGED <<limits, window, running, abandoned, marks, admitted, lost, errors, deaths>>
  BY <1>2 DEF Limits!Apply, Limits!Applied, Limits!Row, Limits!Rest
<1>5. RateOK(n) /\ RunningOK(n)
  BY <1>1, <1>3 DEF RateOK, RunningOK, Counting, Alike
<1>6. /\ Uncounted(worker[w]) => Uncounted(n)
      /\ MayClaim(n) => MayClaim(worker[w])
      /\ MayRun(n) => MayRun(worker[w])
  BY <1>1, <1>3 DEF Uncounted, MayClaim, MayRun, Alike
<1> QED
  BY <1>1, <1>4, <1>5, <1>6, OneThinks

LEMMA RecordHolds ==
  ASSUME LimitsHold, NEW w \in Workers, Limits!Record(w)
  PROVE  LimitsHold'
<1>1. /\ worker[w] \in Limits!Worker /\ RateOK(worker[w]) /\ RunningOK(worker[w])
      /\ errors \in Nat /\ worker[w].at = "record"
  BY WorkerKnown DEF Limits!Record, Limits!At
<1>2. PICK n \in Limits!Worker :
        n = [worker[w] EXCEPT !.at = "count", !.tries = 0, !.due = TRUE]
  <2>1. 0 \in 0 .. Tries
    BY LimitsFacts
  <2> QED
    BY <1>1, <2>1 DEF Limits!Worker
<1>3. /\ n.at = "count" /\ n.tries = 0 /\ n.due
      /\ n.blocked = worker[w].blocked /\ n.stale = worker[w].stale
      /\ n.closed = worker[w].closed /\ n.failures = worker[w].failures
      /\ n.since = worker[w].since
  BY <1>1, <1>2 DEF Limits!Worker
<1>4. /\ Limits!Becomes(w, n)
      /\ UNCHANGED <<limits, window, running, abandoned, marks, admitted, lost, errors, deaths>>
  BY <1>2 DEF Limits!Record, Limits!Recorded, Limits!Row, Limits!Rest
<1>5. RateOK(n) /\ RunningOK(n)
  BY <1>1, <1>3, LimitsFacts DEF RateOK, RunningOK, Counting
<1>6. /\ Uncounted(worker[w]) => Uncounted(n)
      /\ MayClaim(n) => MayClaim(worker[w])
      /\ ~MayRun(n)
  BY <1>1, <1>3 DEF Uncounted, MayClaim, MayRun
<1> QED
  BY <1>1, <1>4, <1>5, <1>6, OneThinks

-----------------------------------------------------------------------------
\* What a read of the windows leaves of a worker, u before it and v after.
ReadTo(u, v) ==
  /\ v.back = u.back /\ v.full = u.full /\ v.due = u.due /\ v.tries = u.tries
  /\ v.since = u.since /\ v.freed = u.freed
  /\ \/ v.failures = u.failures /\ v.closed = u.closed
     \/ v.failures = 0 /\ ~v.closed

\* Where it is in a view that it has just read.
Fresh(v) ==
  /\ ~v.stale /\ window.id # -1
  /\ v.closed => v.blocked
  /\ ~v.blocked => Limit > 0

\* What the worker goes on with.
GoesOn(v, n) ==
  \/ /\ v.back = "claim" /\ Alike(n, v) /\ n.back = "claim" /\ n.at \in {"clear", "claim"}
     /\ n.at = "claim" => "running" \notin limits \/ ~v.due
  \/ /\ v.back = "count" /\ v.tries < Tries /\ Alike(n, v) /\ n.back = "count"
     /\ n.at = "count"

LEMMA GoingOn ==
  ASSUME NEW u \in Limits!Worker, NEW v \in Limits!Worker, NEW n \in Limits!Worker,
         RateOK(u), RunningOK(u), "rate" \in limits, u.at \in {"select", "roll"},
         ReadTo(u, v), Fresh(v), GoesOn(v, n)
  PROVE  /\ RateOK(n) /\ RunningOK(n) /\ n.since = u.since
         /\ MayClaim(n) => ~v.blocked /\ u.since = -1
         /\ MayRun(n) => MayRun(u)
<1>1. /\ v.failures \in Nat /\ u.failures \in Nat
      /\ v.tries \in 0 .. Tries /\ MAX_COUNT_FAILURES \in Nat /\ MAX_COUNT_FAILURES > 0
  BY WorkerFields, LimitsFacts
<1>2. n.since = u.since /\ n.blocked = v.blocked /\ ~n.stale /\ n.closed = v.closed
      /\ n.failures = v.failures /\ n.tries = v.tries /\ n.due = u.due /\ n.full = u.full
      /\ n.freed = u.freed /\ v.back = u.back /\ v.due = u.due
  BY DEF GoesOn, Alike, ReadTo, Fresh
<1>3. u.back = "claim" => u.since = -1
  BY DEF RateOK, Counting
<1>4. u.back = "count" => u.due /\ u.failures < MAX_COUNT_FAILURES
  BY DEF RateOK, RunningOK, Counting
<1>5. /\ v.failures <= MAX_COUNT_FAILURES
      /\ v.failures = MAX_COUNT_FAILURES => v.closed
      /\ u.back = "count" => v.failures < MAX_COUNT_FAILURES
  <2>1. /\ u.failures <= MAX_COUNT_FAILURES
        /\ u.failures = MAX_COUNT_FAILURES => u.closed
    BY DEF RateOK
  <2>2. CASE v.failures = u.failures /\ v.closed = u.closed
    BY <1>4, <2>1, <2>2
  <2>3. CASE v.failures = 0 /\ ~v.closed
    BY <1>1, <2>3
  <2> QED
    BY <2>2, <2>3 DEF ReadTo
<1>6. RateOK(n)
  BY <1>2, <1>3, <1>5 DEF RateOK, Counting, Fresh, GoesOn
<1>7. RunningOK(n)
  BY <1>2, <1>4 DEF RunningOK, Counting, GoesOn
<1>8. MayClaim(n) => ~v.blocked /\ u.since = -1
  BY <1>2 DEF MayClaim
<1>9. MayRun(n) => MayRun(u)
  BY <1>2 DEF MayRun, GoesOn
<1> QED
  BY <1>2, <1>6, <1>7, <1>8, <1>9

\* _read_windows is back.
LEMMA ReturnHolds ==
  ASSUME LimitsHold, NEW w \in Workers, NEW v \in Limits!Worker, Limits!Return(w, v),
         UNCHANGED <<window, limits, running, abandoned, marks, deaths, errors>>,
         "rate" \in limits, worker[w].at \in {"select", "roll"},
         ReadTo(worker[w], v), Fresh(v),
         MayClaim(v) => MayClaim(worker[w]) \/ window.used < Limit
  PROVE  LimitsHold'
<1>1. /\ worker[w] \in Limits!Worker /\ RateOK(worker[w]) /\ RunningOK(worker[w])
      /\ errors \in Nat /\ lost \in Nat
  BY WorkerKnown
<1>2. ASSUME NEW n \in Limits!Worker, Limits!Becomes(w, n), GoesOn(v, n),
             UNCHANGED <<admitted, lost>>
      PROVE  LimitsHold'
  <2>1. /\ RateOK(n) /\ RunningOK(n) /\ n.since = worker[w].since
        /\ MayClaim(n) => ~v.blocked /\ worker[w].since = -1
        /\ MayRun(n) => MayRun(worker[w])
    BY <1>1, <1>2, GoingOn
  <2>2. MayClaim(n) => MayClaim(worker[w]) \/ window.used < Limit
    BY <2>1 DEF MayClaim, Fresh, ReadTo
  <2>3. Uncounted(worker[w]) => Uncounted(n)
    BY <2>1 DEF Uncounted
  <2> QED
    BY <1>1, <1>2, <2>1, <2>2, <2>3, OneThinks
<1>3. CASE /\ v.back = "claim"
           /\ \E next \in Limits!ToRunning(v) : Limits!Becomes(w, next)
           /\ UNCHANGED <<admitted, lost>>
  <2>1. PICK n \in Limits!ToRunning(v) : Limits!Becomes(w, n)
    BY <1>3
  <2>2. n \in Limits!Worker /\ GoesOn(v, n)
    BY <1>3, ToRunningIs DEF GoesOn
  <2> QED
    BY <1>2, <1>3, <2>1, <2>2
<1>4. CASE /\ v.back = "count" /\ v.tries < Tries
           /\ Limits!Becomes(w, [v EXCEPT !.at = "count"])
           /\ UNCHANGED <<admitted, lost>>
  <2>1. PICK n \in Limits!Worker : n = [v EXCEPT !.at = "count"]
    BY DEF Limits!Worker
  <2>2. GoesOn(v, n)
    BY <1>4, <2>1 DEF GoesOn, Alike, Limits!Worker
  <2> QED
    BY <1>2, <1>4, <2>1, <2>2
<1>5. CASE v.back = "count" /\ v.tries = Tries /\ Limits!RunsUncounted(w, v)
  <2>1. Counting(worker[w])
    BY <1>5 DEF Counting, ReadTo
  <2>2. worker[w].due /\ worker[w].failures < MAX_COUNT_FAILURES
    BY <1>1, <2>1 DEF RateOK, RunningOK
  <2>3. v.failures < MAX_COUNT_FAILURES /\ v.due /\ v.since = worker[w].since
    BY <2>2, LimitsFacts DEF ReadTo
  <2>4. errors' \in Nat
    BY <1>1
  <2> QED
    BY <1>5, <2>3, <2>4, UncountedHolds
<1> QED
  BY <1>3, <1>4, <1>5 DEF Limits!Return

\* What a read of the row gives.
LEMMA SeenIs ==
  ASSUME NEW v \in Limits!Worker, NEW id \in -1 .. LastWindow, NEW used \in Nat,
         NEW s, s = Limits!Seen(v, id, used)
  PROVE  /\ s \in Limits!Worker /\ ~s.stale /\ s.id = id /\ s.at = v.at
         /\ s.closed => s.blocked
         /\ ~s.blocked => used < Limit
         /\ s.back = v.back /\ s.full = v.full /\ s.due = v.due /\ s.tries = v.tries
         /\ s.since = v.since /\ s.freed = v.freed
         /\ s.failures = v.failures /\ s.closed = v.closed
<1> DEFINE b == used >= Limit \/ v.closed
<1>1. v.closed \in BOOLEAN /\ Limit \in Nat
  BY WorkerFields, LimitsFacts
<1>2. b \in BOOLEAN
  BY Zenon
<1>3. (v.closed => b) /\ (~b => used < Limit)
  BY <1>1
<1>4. s = [v EXCEPT !.id = id, !.blocked = b, !.stale = FALSE]
  BY DEF Limits!Seen
<1> HIDE DEF b
<1> QED
  BY <1>2, <1>3, <1>4 DEF Limits!Worker

\* A closed limit, probed.
LEMMA ProbedIs ==
  ASSUME NEW u \in Limits!Worker, NEW v \in Limits!Probed(u)
  PROVE  /\ v \in Limits!Worker /\ ReadTo(u, v) /\ v.at = u.at
         /\ v.stale = u.stale /\ v.blocked = u.blocked
<1>1. v = u \/ v = [u EXCEPT !.closed = FALSE, !.failures = 0]
  BY DEF Limits!Probed
<1>2. CASE v = u
  BY <1>2 DEF ReadTo
<1>3. CASE v = [u EXCEPT !.closed = FALSE, !.failures = 0]
  <2>1. v \in Limits!Worker
    BY <1>3 DEF Limits!Worker
  <2>2. /\ ~v.closed /\ v.failures = 0 /\ v.at = u.at /\ v.back = u.back /\ v.full = u.full
        /\ v.due = u.due /\ v.tries = u.tries /\ v.since = u.since /\ v.freed = u.freed
        /\ v.stale = u.stale /\ v.blocked = u.blocked
    BY <1>3 DEF Limits!Worker
  <2> QED
    BY <2>1, <2>2 DEF ReadTo
<1> QED
  BY <1>1, <1>2, <1>3

LEMMA SelectHolds ==
  ASSUME LimitsHold, NEW w \in Workers, Limits!Select(w)
  PROVE  LimitsHold'
<1>1. /\ worker[w] \in Limits!Worker /\ RateOK(worker[w]) /\ RunningOK(worker[w])
      /\ errors \in Nat /\ worker[w].at = "select" /\ "rate" \in limits /\ lost \in Nat
      /\ window.id \in -1 .. LastWindow /\ window.used \in Nat /\ Limit \in Nat
  BY WorkerKnown, LimitsTypes, LimitsFacts DEF Limits!Select, Limits!At, RateOK
<1>2. UNCHANGED <<window, limits, running, abandoned, marks, deaths, errors>>
  BY DEF Limits!Select, Limits!Rest
<1>3. PICK p \in Limits!Probed(worker[w]) :
        \/ /\ window.id = -1
           /\ Limits!Becomes(w, [p EXCEPT !.at = "seed"]) /\ UNCHANGED <<admitted, lost>>
        \/ /\ window.id # -1 /\ window.expired
           /\ Limits!Becomes(w, [Limits!Seen(p, window.id, window.used) EXCEPT !.at = "roll"])
           /\ UNCHANGED <<admitted, lost>>
        \/ /\ window.id # -1 /\ ~window.expired
           /\ Limits!Return(w, Limits!Seen(p, window.id, window.used))
  BY DEF Limits!Select
<1>4. PICK v \in Limits!Worker : v = p
  BY <1>1, ProbedIs
<1>5. /\ ReadTo(worker[w], v) /\ v.at = "select" /\ v.stale = worker[w].stale
      /\ v.blocked = worker[w].blocked
  BY <1>1, <1>4, ProbedIs
<1>6. PICK s : s = Limits!Seen(v, window.id, window.used)
  OBVIOUS
<1>7. /\ s \in Limits!Worker /\ ~s.stale
      /\ s.closed => s.blocked
      /\ ~s.blocked => window.used < Limit
      /\ s.back = v.back /\ s.full = v.full /\ s.due = v.due /\ s.tries = v.tries
      /\ s.since = v.since /\ s.freed = v.freed
      /\ s.failures = v.failures /\ s.closed = v.closed
  BY <1>1, <1>6, SeenIs
<1>8. /\ worker[w].back = "claim" => worker[w].since = -1
      /\ Counting(worker[w]) <=> worker[w].back = "count"
      /\ worker[w].failures \in Nat
  BY <1>1, WorkerFields DEF RateOK, Counting
<1>9. CASE /\ window.id = -1
           /\ Limits!Becomes(w, [p EXCEPT !.at = "seed"]) /\ UNCHANGED <<admitted, lost>>
  <2>1. PICK n \in Limits!Worker : n = [v EXCEPT !.at = "seed"]
    BY DEF Limits!Worker
  <2>2. Alike(n, v) /\ n.back = v.back /\ n.at = "seed"
    BY <2>1 DEF Limits!Worker, Alike
  <2>3. Limits!Becomes(w, n)
    BY <1>4, <1>9, <2>1
  <2>4. RateOK(n)
    BY <1>1, <1>5, <1>8, <2>2, LimitsFacts DEF RateOK, Counting, Alike, ReadTo
  <2>5. RunningOK(n)
    BY <1>1, <1>5, <2>2 DEF RunningOK, Counting, Alike, ReadTo
  <2>6. /\ Uncounted(worker[w]) => Uncounted(n)
        /\ MayClaim(n) => MayClaim(worker[w])
        /\ MayRun(n) => MayRun(worker[w])
    BY <1>1, <1>5, <2>2 DEF Uncounted, MayClaim, MayRun, Alike, ReadTo
  <2> QED
    BY <1>1, <1>2, <1>9, <2>3, <2>4, <2>5, <2>6, OneThinks
<1>10. CASE /\ window.id # -1 /\ window.expired
            /\ Limits!Becomes(w, [Limits!Seen(p, window.id, window.used) EXCEPT !.at = "roll"])
            /\ UNCHANGED <<admitted, lost>>
  <2>1. PICK n \in Limits!Worker : n = [s EXCEPT !.at = "roll"]
    BY <1>7 DEF Limits!Worker
  <2>2. Alike(n, s) /\ n.back = s.back /\ n.at = "roll"
    BY <1>7, <2>1 DEF Limits!Worker, Alike
  <2>3. Limits!Becomes(w, n)
    BY <1>4, <1>6, <1>10, <2>1
  <2>4. RateOK(n)
    BY <1>1, <1>5, <1>7, <1>8, <1>10, <2>2, LimitsFacts DEF RateOK, Counting, Alike, ReadTo
  <2>5. RunningOK(n)
    BY <1>1, <1>5, <1>7, <2>2 DEF RunningOK, Counting, Alike, ReadTo
  <2>6. /\ Uncounted(worker[w]) => Uncounted(n)
        /\ MayClaim(n) => window.used < Limit
        /\ MayRun(n) => MayRun(worker[w])
    BY <1>1, <1>5, <1>7, <2>2 DEF Uncounted, MayClaim, MayRun, Alike, ReadTo
  <2> QED
    BY <1>1, <1>2, <1>10, <2>3, <2>4, <2>5, <2>6, OneThinks
<1>11. CASE /\ window.id # -1 /\ ~window.expired
            /\ Limits!Return(w, Limits!Seen(p, window.id, window.used))
  <2>1. ReadTo(worker[w], s)
    BY <1>5, <1>7 DEF ReadTo
  <2>2. Fresh(s)
    BY <1>1, <1>7, <1>11 DEF Fresh
  <2>3. MayClaim(s) => MayClaim(worker[w]) \/ window.used < Limit
    BY <1>7 DEF MayClaim
  <2>4. Limits!Return(w, s)
    BY <1>4, <1>6, <1>11
  <2> QED
    BY <1>1, <1>2, <1>7, <2>1, <2>2, <2>3, <2>4, ReturnHolds
<1> QED
  BY <1>3, <1>9, <1>10, <1>11

-----------------------------------------------------------------------------
\* The crews of a window that changes.
LEMMA NewWindow ==
  ASSUME LimitsHold, Limits!TypeOK', WindowOK', NEW w \in Workers, NEW v \in Limits!Worker,
         Limits!Becomes(w, v),
         UNCHANGED <<limits, running, abandoned, marks>>, window'.id # -1,
         RateOK(v)', RunningOK(v)', MayRun(v) => MayRun(worker[w]),
         Counted', Admits'
  PROVE  LimitsHold'
<1>1. Limits!TypeOK /\ PoolsOK /\ Runs
  BY DEF LimitsHold
<1>2. CrewOK'
  BY CrewKept
<1>3. Limits!AllRunning' = Limits!AllRunning /\ Limits!AllRunning \in Nat
  BY <1>1, SameRows, RowsCount
<1>4. Limits!AllRunning' + Bit(MayRun(v)) <= Limits!AllRunning + Bit(MayRun(worker[w]))
  BY <1>3 DEF Bit
<1>5. Runs'
  BY <1>1, <1>4, RunKept
<1>6. PoolsOK'
  BY <1>1 DEF PoolsOK
<1> QED
  BY <1>2, <1>5, <1>6 DEF LimitsHold

LEMMA SeedHolds ==
  ASSUME LimitsHold, NEW w \in Workers, Limits!Seed(w)
  PROVE  LimitsHold'
<1>1. /\ worker[w] \in Limits!Worker /\ RateOK(worker[w]) /\ RunningOK(worker[w])
      /\ worker[w].at = "seed" /\ "rate" \in limits /\ errors \in Nat
      /\ Limits!TypeOK /\ WindowOK /\ Counted /\ Admits
  BY WorkerKnown DEF Limits!Seed, Limits!At, LimitsHold, RateOK
<1>2. PICK n \in Limits!Worker : n = [worker[w] EXCEPT !.at = "select"]
  BY <1>1 DEF Limits!Worker
<1>3. Alike(n, worker[w]) /\ n.back = worker[w].back /\ n.at = "select"
  BY <1>1, <1>2 DEF Limits!Worker, Alike
<1>4. /\ Limits!Becomes(w, n)
      /\ UNCHANGED <<limits, running, abandoned, marks, admitted, lost, errors, deaths>>
      /\ window' = IF window.id = -1 THEN [Limits!NoWindow EXCEPT !.id = 0] ELSE window
  BY <1>2 DEF Limits!Seed, Limits!Rest
<1>5. RateOK(n) /\ RunningOK(n)
  BY <1>1, <1>3 DEF RateOK, RunningOK, Counting, Alike
<1>6. /\ Uncounted(worker[w]) => Uncounted(n)
      /\ MayClaim(n) => MayClaim(worker[w])
      /\ MayRun(n) => MayRun(worker[w])
  BY <1>1, <1>3 DEF Uncounted, MayClaim, MayRun, Alike
<1>7. CASE window.id # -1
  <2>1. window' = window
    BY <1>4, <1>7
  <2> QED
    BY <1>1, <1>4, <1>5, <1>6, <2>1, OneThinks, WorkerKnown
<1>8. CASE window.id = -1
  <2>1. window' = [id |-> 0, used |-> 0, expired |-> FALSE]
    BY <1>4, <1>8 DEF Limits!NoWindow
  <2>2. /\ window'.id = 0 /\ window'.used = 0 /\ ~window'.expired /\ window.used = 0
        /\ window' \in [id : -1 .. LastWindow, used : Nat, expired : BOOLEAN]
    BY <1>1, <1>8, <2>1, LimitsFacts DEF WindowOK
  <2>3. WindowOK'
    BY <1>1, <1>4, <2>2 DEF WindowOK
  <2>4. Limits!TypeOK'
    <3>1. worker' \in [Workers -> Limits!Worker]
      BY <1>1, <1>4, OneWorker
    <3> QED
      BY <1>1, <1>4, <2>2, <3>1, LimitsTypes DEF Limits!TypeOK
  <2>5. RateOK(n)' /\ RunningOK(n)'
    BY <1>4, <1>5, <2>2 DEF RateOK, RunningOK, Counting
  <2>6. /\ {Cardinality(Here), Cardinality(Here'), Cardinality(Admissible),
            Cardinality(Admissible')} \subseteq Nat
        /\ Cardinality(Admissible') + Bit(MayClaim(worker[w]))
             = Cardinality(Admissible) + Bit(MayClaim(n))
    BY <1>1, <1>4, OneWorker
  <2>7. Here = {}
    BY <1>8 DEF Here, Uncounted
  <2>8. Cardinality(Here) = 0
    BY <2>7, FS_EmptySet
  <2>9. admitted \in Nat /\ lost \in Nat /\ Limit \in Nat /\ Cardinality(Workers) \in Nat
    BY <1>1, LimitsTypes, LimitsFacts
  <2>10. Counted'
    <3>1. admitted <= lost
      BY <1>1, <2>2, <2>8, <2>9 DEF Counted
    <3> QED
      BY <1>4, <2>2, <2>6, <2>9, <3>1 DEF Counted
  <2>11. Admits'
    <3>1. Cardinality(Admissible') <= Cardinality(Admissible)
      BY <1>6, <2>6 DEF Bit
    <3>2. admitted + Cardinality(Admissible) <= Limit + Cardinality(Workers) - 1 + lost
      BY <1>1 DEF Admits
    <3>3. admitted + Cardinality(Admissible') <= Limit + Cardinality(Workers) - 1 + lost
      BY <2>6, <2>9, <3>1, <3>2
    <3> QED
      BY <1>4, <3>3 DEF Admits
  <2> QED
    BY <1>4, <1>6, <2>2, <2>3, <2>4, <2>5, <2>10, <2>11, NewWindow
<1> QED
  BY <1>7, <1>8

\* Whoever opens a window finds it empty.
LEMMA OpensHolds ==
  ASSUME LimitsHold, NEW w \in Workers, worker[w].at = "roll", Limits!Opens(w),
         UNCHANGED <<limits, running, abandoned, marks, deaths, errors>>
  PROVE  LimitsHold'
<1>1. /\ worker[w] \in Limits!Worker /\ RateOK(worker[w]) /\ RunningOK(worker[w])
      /\ "rate" \in limits /\ Limits!TypeOK /\ WindowOK
  BY WorkerKnown DEF LimitsHold, RateOK
<1>2. window.id \in 0 .. LastWindow - 1 /\ window.id + 1 \in 0 .. LastWindow
  BY <1>1, LimitsFacts DEF WindowOK, Limits!Opens, Limits!WinsRoll
<1>3. PICK id : id = window.id + 1
  OBVIOUS
<1>4. id \in -1 .. LastWindow /\ id # -1 /\ id \in 0 .. LastWindow
  BY <1>2, <1>3, LimitsFacts
<1>5. PICK s : s = Limits!Seen(worker[w], id, 0)
  OBVIOUS
<1>6. /\ s \in Limits!Worker /\ ~s.stale
      /\ s.closed => s.blocked
      /\ ~s.blocked => 0 < Limit
      /\ s.back = worker[w].back /\ s.full = worker[w].full /\ s.due = worker[w].due
      /\ s.tries = worker[w].tries /\ s.since = worker[w].since
      /\ s.freed = worker[w].freed
      /\ s.failures = worker[w].failures /\ s.closed = worker[w].closed
  BY <1>1, <1>4, <1>5, SeenIs
<1>7. /\ window' = [id |-> id, used |-> 0, expired |-> FALSE]
      /\ admitted' = 0 /\ lost' = 0
  BY <1>3 DEF Limits!Opens
<1>8. /\ window'.id = id /\ window'.used = 0 /\ ~window'.expired
      /\ window' \in [id : -1 .. LastWindow, used : Nat, expired : BOOLEAN]
  BY <1>4, <1>7
<1>9. PICK n \in Limits!Worker :
        /\ Limits!Becomes(w, n) /\ RateOK(n)' /\ RunningOK(n)' /\ (MayRun(n) => MayRun(worker[w]))
  <2>1. window.id # -1
    BY <1>2
  <2>2. ReadTo(worker[w], s) /\ Fresh(s)
    BY <1>6, <2>1 DEF ReadTo, Fresh
  <2>3. ASSUME NEW n \in Limits!Worker, Limits!Becomes(w, n), GoesOn(s, n)
        PROVE  RateOK(n)' /\ RunningOK(n)' /\ (MayRun(n) => MayRun(worker[w]))
    <3>1. RateOK(n) /\ RunningOK(n) /\ (MayRun(n) => MayRun(worker[w]))
      BY <1>1, <1>6, <2>2, <2>3, GoingOn
    <3> QED
      BY <1>4, <1>8, <3>1 DEF RateOK, RunningOK, Counting
  <2>4. CASE s.back = "claim" /\ \E next \in Limits!ToRunning(s) : Limits!Becomes(w, next)
    <3>1. PICK n \in Limits!ToRunning(s) : Limits!Becomes(w, n)
      BY <2>4
    <3>2. n \in Limits!Worker /\ GoesOn(s, n)
      BY <1>6, <2>4, ToRunningIs DEF GoesOn
    <3> QED
      BY <2>3, <3>1, <3>2
  <2>5. CASE s.back = "count" /\ s.tries < Tries /\ Limits!Becomes(w, [s EXCEPT !.at = "count"])
    <3>1. PICK n \in Limits!Worker : n = [s EXCEPT !.at = "count"]
      BY <1>6 DEF Limits!Worker
    <3>2. GoesOn(s, n)
      BY <1>6, <2>5, <3>1 DEF GoesOn, Alike, Limits!Worker
    <3>3. Limits!Becomes(w, n)
      BY <2>5, <3>1
    <3> QED
      BY <2>3, <3>2, <3>3
  <2>6. CASE /\ s.back = "count" /\ s.tries = Tries
             /\ Limits!Becomes(w, Limits!Admitted(Limits!Unrecorded(s)))
    <3>1. s.due /\ s.failures < MAX_COUNT_FAILURES
      BY <1>1, <1>6, <2>6 DEF RateOK, RunningOK, Counting
    <3>2. PICK n \in Limits!Worker :
            /\ n = Limits!Admitted(Limits!Unrecorded(s)) /\ RateOK(n) /\ RunningOK(n)
            /\ ~MayRun(n)
      BY <1>1, <1>6, <3>1, Unrecords
    <3>3. RateOK(n)' /\ RunningOK(n)'
      BY <1>4, <1>8, <3>2 DEF RateOK, RunningOK, Counting
    <3>4. Limits!Becomes(w, n)
      BY <2>6, <3>2
    <3> QED
      BY <3>2, <3>3, <3>4
  <2> QED
    BY <1>3, <1>5, <2>4, <2>5, <2>6 DEF Limits!Opens
<1>10. Limits!TypeOK'
  <2>1. worker' \in [Workers -> Limits!Worker]
    BY <1>1, <1>9, OneWorker
  <2> QED
    BY <1>1, <1>7, <1>8, <2>1, LimitsTypes DEF Limits!TypeOK
<1>11. WindowOK'
  BY <1>1, <1>4, <1>8 DEF WindowOK
<1>12. Counted'
  <2>1. Cardinality(Here') \in Nat
    BY <1>1, <1>9, OneWorker
  <2> QED
    BY <1>7, <1>8, <2>1 DEF Counted
<1>13. Admits'
  <2>1. Admissible' \in SUBSET Workers
    BY DEF Admissible
  <2>2. CrewOK'
    BY <1>4, <1>8, <1>9, <1>10, CrewKept
  <2>3. Admissible' # {} => Limit > 0
    BY <2>2 DEF Admissible, CrewOK, RateOK, MayClaim
  <2>4. Admissible' = {} => Cardinality(Admissible') = 0
    BY FS_EmptySet
  <2>5. Cardinality(Admissible') <= Limit + Cardinality(Workers) - 1
    BY <2>1, <2>3, <2>4, CrewCounts, LimitsFacts
  <2> QED
    BY <1>7, <2>1, <2>5, CrewCounts, LimitsFacts DEF Admits
<1> QED
  BY <1>4, <1>8, <1>9, <1>10, <1>11, <1>12, <1>13, NewWindow

LEMMA RollHolds ==
  ASSUME LimitsHold, NEW w \in Workers, Limits!Roll(w)
  PROVE  LimitsHold'
<1>1. /\ worker[w].at = "roll"
      /\ UNCHANGED <<limits, running, abandoned, marks, deaths, errors>>
  BY DEF Limits!Roll, Limits!At, Limits!Rest
<1>2. CASE Limits!Opens(w)
  BY <1>1, <1>2, OpensHolds
<1>3. CASE Limits!Return(w, worker[w]) /\ UNCHANGED window
  <2>1. /\ worker[w] \in Limits!Worker /\ RateOK(worker[w]) /\ "rate" \in limits
    BY <1>1, WorkerKnown DEF RateOK
  <2>2. PICK v \in Limits!Worker : v = worker[w]
    BY <2>1
  <2>3. ReadTo(worker[w], v) /\ Fresh(v) /\ (MayClaim(v) => MayClaim(worker[w]))
    BY <1>1, <2>1, <2>2 DEF ReadTo, Fresh, RateOK
  <2> QED
    BY <1>1, <1>3, <2>1, <2>2, <2>3, ReturnHolds
<1> QED
  BY <1>2, <1>3 DEF Limits!Roll

-----------------------------------------------------------------------------
LEMMA RaisesHolds ==
  ASSUME LimitsHold, NEW w \in Workers, Limits!Raises(w)
  PROVE  LimitsHold'
<1>1. /\ worker[w] \in Limits!Worker /\ RateOK(worker[w]) /\ RunningOK(worker[w])
      /\ errors \in Nat /\ lost \in Nat
      /\ worker[w].at \in {"select", "seed", "roll", "count running", "count"}
  BY WorkerKnown DEF Limits!Raises
<1>2. errors' \in Nat /\ UNCHANGED <<limits, running, abandoned, marks, deaths>>
  <2>1. errors' = errors + 1 /\ UNCHANGED <<limits, running, abandoned, marks, deaths>>
    BY DEF Limits!Raises, Limits!Rest
  <2>2. errors \in Nat /\ errors' = errors + 1
    BY <1>1, <2>1
  <2>3. errors' \in Nat
    BY <2>2
  <2> QED
    BY <2>1, <2>3
<1>3. PICK v \in Limits!Worker : v = worker[w]
  BY <1>1
<1>4. CASE v.since # -1
  <2>1. Limits!RunsUncounted(w, v)
    BY <1>3, <1>4 DEF Limits!Raises
  <2>2. v.failures < MAX_COUNT_FAILURES /\ v.due /\ "rate" \in limits
    BY <1>1, <1>3, <1>4 DEF RateOK, RunningOK
  <2> QED
    BY <1>2, <1>3, <2>1, <2>2, UncountedHolds
<1>5. CASE v.since = -1
  <2> DEFINE d == v.due \/ v.at = "count running"
             s == v.stale \/ v.at # "count running"
  <2>1. Limits!Becomes(w, [v EXCEPT !.at = "idle", !.due = d, !.stale = s])
    BY <1>3, <1>5, Zenon DEF Limits!Raises
  <2>2. UNCHANGED <<window, admitted, lost>>
    BY <1>3, <1>5 DEF Limits!Raises, Limits!Row
  <2>3. d \in BOOLEAN /\ s \in BOOLEAN
    BY Zenon
  <2>4. /\ v.due => d
        /\ v.at = "count running" => d /\ (s => v.stale)
        /\ v.at # "count running" => s /\ (d => v.due)
        /\ v.stale => s
    OBVIOUS
  <2> HIDE DEF d, s
  <2>5. PICK n \in Limits!Worker : n = [v EXCEPT !.at = "idle", !.due = d, !.stale = s]
    BY <2>3 DEF Limits!Worker
  <2>6. /\ n.at = "idle" /\ n.due = d /\ n.stale = s /\ n.blocked = v.blocked
        /\ n.full = v.full /\ n.closed = v.closed /\ n.failures = v.failures
        /\ n.since = v.since /\ n.freed = v.freed
    BY <2>5 DEF Limits!Worker
  <2>7. Limits!Becomes(w, n)
    BY <2>1, <2>5
  <2>8. RateOK(n)
    BY <1>1, <1>3, <1>5, <2>4, <2>6 DEF RateOK, Counting
  <2>9. RunningOK(n)
    BY <1>1, <1>3, <2>4, <2>6 DEF RunningOK, Counting
  <2>10. ~Uncounted(worker[w]) /\ (MayClaim(n) => MayClaim(worker[w]))
    BY <1>3, <1>5, <2>4, <2>6 DEF Uncounted, MayClaim
  <2>11. MayRun(n) => MayRun(worker[w])
    <3>1. v.at \in {"select", "seed", "roll"} \/ d
      BY <1>1, <1>3, <2>4 DEF RunningOK, Counting
    <3> QED
      BY <1>3, <2>4, <2>6, <3>1 DEF MayRun
  <2> QED
    BY <1>1, <1>2, <2>2, <2>7, <2>8, <2>9, <2>10, <2>11, OneThinks
<1> QED
  BY <1>4, <1>5

LEMMA ClaimHolds ==
  ASSUME LimitsHold, NEW w \in Workers, Limits!Claim(w)
  PROVE  LimitsHold'
<1>1. /\ worker[w] \in Limits!Worker /\ RateOK(worker[w]) /\ RunningOK(worker[w])
      /\ worker[w].at = "claim" /\ errors \in Nat
      /\ Limits!TypeOK /\ WindowOK /\ PoolsOK
  BY WorkerKnown DEF Limits!Claim, Limits!At, LimitsHold
<1>2. UNCHANGED <<limits, window, lost, abandoned, marks, deaths, errors>>
  BY DEF Limits!Claim
<1>3. worker[w].since = -1
  BY <1>1 DEF RateOK, Counting
<1>4. /\ window.id \in -1 .. LastWindow /\ window.used \in Nat /\ admitted \in Nat
      /\ running \in [Workers -> Nat] /\ marks \in [Workers -> Nat] /\ lost \in Nat
      /\ running[w] \in Nat /\ marks[w] \in Nat /\ Concurrency \in Nat
  BY <1>1, LimitsTypes, LimitsFacts
<1>5. CASE /\ ~worker[w].blocked /\ ~worker[w].full /\ running[w] + marks[w] < Concurrency
           /\ Limits!Becomes(w, [worker[w] EXCEPT !.at = "record", !.since = window.id])
           /\ running' = IF "running" \in limits
                         THEN [running EXCEPT ![w] = running[w] + 1] ELSE running
           /\ admitted' = IF "rate" \in limits THEN admitted + 1 ELSE admitted
  <2>1. PICK n \in Limits!Worker :
          n = [worker[w] EXCEPT !.at = "record", !.since = window.id]
    BY <1>1, <1>4 DEF Limits!Worker
  <2>2. /\ n.at = "record" /\ n.since = window.id /\ n.blocked = worker[w].blocked
        /\ n.stale = worker[w].stale /\ n.full = worker[w].full /\ n.due = worker[w].due
        /\ n.closed = worker[w].closed /\ n.failures = worker[w].failures
        /\ n.freed = worker[w].freed
    BY <1>1, <2>1 DEF Limits!Worker
  <2>3. Limits!Becomes(w, n)
    BY <1>5, <2>1
  <2>4. /\ \A u \in Workers \ {w} : running'[u] = running[u]
        /\ running' \in [Workers -> Nat]
        /\ running'[w] + marks[w] <= Concurrency
    BY <1>4, <1>5
  <2>5. Limits!TypeOK'
    <3>1. worker' \in [Workers -> Limits!Worker]
      BY <1>1, <1>2, <2>3, OneWorker
    <3>2. admitted' \in Nat
      BY <1>4, <1>5
    <3> QED
      BY <1>1, <1>2, <2>4, <3>1, <3>2, LimitsTypes DEF Limits!TypeOK
  <2>6. WindowOK' /\ PoolsOK'
    <3>1. WindowOK'
      BY <1>1, <1>2 DEF WindowOK
    <3>2. \A u \in Workers : running'[u] + marks'[u] <= Concurrency
      BY <1>1, <1>2, <2>4 DEF PoolsOK
    <3>3. "running" \notin limits' => abandoned' = 0 /\ \A u \in Workers : running'[u] = 0
      BY <1>1, <1>2, <1>5 DEF PoolsOK
    <3> QED
      BY <3>1, <3>2, <3>3 DEF PoolsOK
  <2>7. worker[w].failures < MAX_COUNT_FAILURES
    <3>1. CASE "rate" \notin limits
      BY <1>1, <3>1, LimitsFacts DEF RateOK
    <3>2. CASE "rate" \in limits
      <4>1. ~worker[w].closed
        BY <1>1, <1>5, <3>2 DEF RateOK
      <4>2. worker[w].failures \in Nat /\ worker[w].failures <= MAX_COUNT_FAILURES
        BY <1>1, WorkerFields DEF RateOK
      <4> QED
        BY <1>1, <4>1, <4>2, LimitsFacts DEF RateOK
    <3> QED
      BY <3>1, <3>2
  <2>8. RateOK(n)
    BY <1>1, <2>2, <2>7 DEF RateOK, Counting, WindowOK
  <2>9. RunningOK(n)
    BY <1>1, <2>2 DEF RunningOK, Counting
  <2>10. ~Uncounted(worker[w]) /\ ~MayRun(n)
    BY <1>3, <2>2 DEF Uncounted, MayRun
  <2>11. /\ "rate" \in limits => Uncounted(n) /\ MayClaim(worker[w]) /\ ~MayClaim(n)
         /\ "rate" \notin limits => ~MayClaim(n)
    BY <1>1, <1>3, <1>5, <2>2 DEF RateOK, Uncounted, MayClaim
  <2>12. admitted' + window.used + Bit(Uncounted(worker[w])) + lost
           <= admitted + window'.used + Bit(Uncounted(n)) + lost'
    BY <1>2, <1>4, <1>5, <2>10, <2>11 DEF Bit
  <2>13. admitted' + Bit(MayClaim(n)) + lost <= admitted + Bit(MayClaim(worker[w])) + lost'
    BY <1>2, <1>4, <1>5, <2>11 DEF Bit
  <2>14. Limits!AllRunning' + Bit(MayRun(n)) <= Limits!AllRunning + Bit(MayRun(worker[w]))
    <3>1. Limits!AllRunning \in Nat
      BY <1>1, RowsCount
    <3>2. CASE "running" \in limits
      <4>1. MayRun(worker[w])
        BY <1>1, <1>5, <3>2 DEF MayRun
      <4>2. running[w] < Concurrency
        BY <1>4, <1>5
      <4>3. Limits!AllRunning' = Limits!AllRunning + 1
        BY <1>1, <1>2, <1>5, <2>5, <3>2, <4>2, RowAdded
      <4> QED
        BY <2>10, <3>1, <4>1, <4>3 DEF Bit
    <3>3. CASE "running" \notin limits
      <4>1. Limits!AllRunning' = Limits!AllRunning
        BY <1>2, <1>5, <3>3, SameRows
      <4> QED
        BY <2>10, <3>1, <4>1 DEF Bit
    <3> QED
      BY <3>2, <3>3
  <2> QED
    BY <1>2, <2>3, <2>5, <2>6, <2>8, <2>9, <2>12, <2>13, <2>14, OneMoves
<1>6. CASE /\ Limits!Becomes(w, [worker[w] EXCEPT !.at = "idle"])
           /\ UNCHANGED <<running, admitted>>
  <2>1. PICK n \in Limits!Worker : n = [worker[w] EXCEPT !.at = "idle"]
    BY <1>1 DEF Limits!Worker
  <2>2. n.at = "idle" /\ Alike(n, worker[w])
    BY <1>1, <2>1 DEF Limits!Worker, Alike
  <2>3. Limits!Becomes(w, n)
    BY <1>6, <2>1
  <2>4. RateOK(n) /\ RunningOK(n)
    BY <1>1, <1>3, <2>2 DEF RateOK, RunningOK, Counting, Alike
  <2>5. /\ ~Uncounted(worker[w]) /\ (MayClaim(n) => MayClaim(worker[w]))
        /\ MayRun(n) => MayRun(worker[w])
    BY <1>1, <1>3, <2>2 DEF Uncounted, MayClaim, MayRun, Alike
  <2> QED
    BY <1>1, <1>2, <1>4, <1>6, <2>3, <2>4, <2>5, OneThinks
<1> QED
  BY <1>5, <1>6 DEF Limits!Claim

LEMMA CountHolds ==
  ASSUME LimitsHold, NEW w \in Workers, Limits!Count(w)
  PROVE  LimitsHold'
<1>1. /\ worker[w] \in Limits!Worker /\ RateOK(worker[w]) /\ RunningOK(worker[w])
      /\ worker[w].at = "count" /\ errors \in Nat /\ lost \in Nat /\ worker[w].due
      /\ Limits!TypeOK /\ WindowOK /\ PoolsOK
  BY WorkerKnown DEF Limits!Count, Limits!At, LimitsHold, RunningOK, Counting
<1>2. UNCHANGED <<admitted, lost, limits, running, abandoned, marks, deaths, errors>>
  BY DEF Limits!Count, Limits!Rest
<1>3. PICK v \in Limits!Worker : v = worker[w]
  BY <1>1
<1>4. CASE "rate" \notin limits /\ Limits!Becomes(w, Limits!Admitted(v)) /\ UNCHANGED window
  <2>1. PICK n \in Limits!Worker : n = Limits!Admitted(v)
    <3>1. -1 \in -1 .. LastWindow
      BY LimitsFacts
    <3> QED
      BY <3>1 DEF Limits!Worker, Limits!Admitted
  <2>2. /\ n.at = "idle" /\ n.since = -1 /\ n.stale /\ n.due = v.due /\ n.failures = v.failures
        /\ n.closed = v.closed /\ n.freed = v.freed
    BY <2>1 DEF Limits!Worker, Limits!Admitted
  <2>3. Limits!Becomes(w, n)
    BY <1>4, <2>1
  <2>4. RateOK(n) /\ RunningOK(n)
    BY <1>1, <1>3, <1>4, <2>2 DEF RateOK, RunningOK, Counting
  <2>5. ~Uncounted(worker[w]) /\ ~MayClaim(n) /\ ~MayRun(n)
    BY <1>1, <1>3, <1>4, <2>2 DEF Uncounted, MayClaim, MayRun, RateOK
  <2> QED
    BY <1>1, <1>2, <1>4, <2>3, <2>4, <2>5, OneThinks
<1>5. CASE /\ "rate" \in limits /\ window.id = v.id
           /\ window' = [window EXCEPT !.used = window.used + 1]
           /\ Limits!Becomes(w, Limits!Admitted([v EXCEPT !.failures = 0]))
  <2>1. /\ window \in [id : -1 .. LastWindow, used : Nat, expired : BOOLEAN]
        /\ window.used \in Nat /\ admitted \in Nat
    BY <1>1, LimitsTypes
  <2>2. PICK n \in Limits!Worker : n = Limits!Admitted([v EXCEPT !.failures = 0])
    <3>1. -1 \in -1 .. LastWindow
      BY LimitsFacts
    <3> QED
      BY <3>1 DEF Limits!Worker, Limits!Admitted
  <2>3. /\ n.at = "idle" /\ n.since = -1 /\ n.stale /\ n.due = v.due /\ n.failures = 0
        /\ n.closed = v.closed /\ n.freed = v.freed
    BY <2>2 DEF Limits!Worker, Limits!Admitted
  <2>4. Limits!Becomes(w, n)
    BY <1>5, <2>2
  <2>5. /\ window'.id = window.id /\ window'.used = window.used + 1
        /\ window'.expired = window.expired
        /\ window' \in [id : -1 .. LastWindow, used : Nat, expired : BOOLEAN]
    BY <1>5, <2>1
  <2>6. window.id # -1
    BY <1>1, <1>5 DEF RateOK, Counting
  <2>7. Limits!TypeOK'
    <3>1. worker' \in [Workers -> Limits!Worker]
      BY <1>1, <1>2, <2>4, OneWorker
    <3> QED
      BY <1>1, <1>2, <2>5, <3>1, LimitsTypes DEF Limits!TypeOK
  <2>8. WindowOK' /\ PoolsOK'
    BY <1>1, <1>2, <2>5, <2>6 DEF WindowOK, PoolsOK
  <2>9. RateOK(n) /\ RunningOK(n)
    BY <1>1, <1>3, <1>5, <2>3, LimitsFacts DEF RateOK, RunningOK, Counting
  <2>10. ~MayClaim(n) /\ ~MayRun(n)
    BY <1>1, <1>3, <2>3 DEF MayClaim, MayRun
  <2>11. admitted' + window.used + Bit(Uncounted(worker[w])) + lost
           <= admitted + window'.used + Bit(Uncounted(n)) + lost'
    BY <1>1, <1>2, <2>1, <2>5 DEF Bit
  <2>12. admitted' + Bit(MayClaim(n)) + lost <= admitted + Bit(MayClaim(worker[w])) + lost'
    BY <1>1, <1>2, <2>1, <2>10 DEF Bit
  <2>13. Limits!AllRunning' + Bit(MayRun(n)) <= Limits!AllRunning + Bit(MayRun(worker[w]))
    BY <1>1, <1>2, <2>10, SameRows, RowsCount DEF Bit
  <2> QED
    BY <1>2, <2>4, <2>5, <2>7, <2>8, <2>9, <2>11, <2>12, <2>13, OneMoves
<1>6. CASE /\ "rate" \in limits /\ window.id # v.id
           /\ Limits!Becomes(w, [v EXCEPT !.at = "select", !.back = "count",
                                          !.tries = v.tries + 1])
           /\ UNCHANGED window
  <2>1. v.tries + 1 \in 0 .. Tries
    <3>1. v.tries \in 0 .. Tries /\ Tries \in Nat
      BY WorkerFields, LimitsFacts
    <3>2. v.tries < Tries
      BY <1>1, <1>3 DEF RateOK
    <3> QED
      BY <3>1, <3>2
  <2>2. PICK n \in Limits!Worker :
          n = [v EXCEPT !.at = "select", !.back = "count", !.tries = v.tries + 1]
    BY <2>1 DEF Limits!Worker
  <2>3. /\ n.at = "select" /\ n.back = "count" /\ n.since = v.since /\ n.stale = v.stale
        /\ n.due = v.due /\ n.failures = v.failures /\ n.closed = v.closed
        /\ n.blocked = v.blocked /\ n.freed = v.freed
    BY <2>2 DEF Limits!Worker
  <2>4. Limits!Becomes(w, n)
    BY <1>6, <2>2
  <2>5. RateOK(n) /\ RunningOK(n)
    BY <1>1, <1>3, <1>6, <2>3 DEF RateOK, RunningOK, Counting
  <2>6. /\ Uncounted(worker[w]) => Uncounted(n)
        /\ MayClaim(n) => MayClaim(worker[w])
        /\ ~MayRun(n)
    BY <1>1, <1>3, <2>3 DEF Uncounted, MayClaim, MayRun
  <2> QED
    BY <1>1, <1>2, <1>6, <2>4, <2>5, <2>6, OneThinks
<1> QED
  BY <1>3, <1>4, <1>5, <1>6 DEF Limits!Count

-----------------------------------------------------------------------------
LEMMA FinishHolds ==
  ASSUME LimitsHold, NEW w \in Workers, Limits!Finish(w)
  PROVE  LimitsHold'
<1>1. /\ worker[w] \in Limits!Worker /\ RateOK(worker[w]) /\ RunningOK(worker[w])
      /\ Limits!TypeOK /\ WindowOK /\ PoolsOK
  BY WorkerKnown DEF LimitsHold
<1>2. /\ UNCHANGED <<limits, window, worker, admitted, lost, abandoned, errors, deaths>>
      /\ running[w] > 0
      /\ running' = [running EXCEPT ![w] = running[w] - 1]
      /\ marks' = [marks EXCEPT ![w] = marks[w] + 1]
  BY DEF Limits!Finish, Limits!Row
<1>3. /\ running \in [Workers -> Nat] /\ marks \in [Workers -> Nat]
      /\ running[w] \in Nat /\ marks[w] \in Nat /\ Concurrency \in Nat
      /\ worker \in [Workers -> Limits!Worker]
      /\ admitted \in Nat /\ lost \in Nat /\ window.used \in Nat
  BY <1>1, LimitsTypes, LimitsFacts
<1>4. /\ running' \in [Workers -> Nat] /\ marks' \in [Workers -> Nat]
      /\ \A u \in Workers \ {w} : running'[u] = running[u] /\ marks'[u] = marks[u]
      /\ running'[w] = running[w] - 1 /\ marks'[w] = marks[w] + 1
  BY <1>2, <1>3
<1>5. PICK v \in Limits!Worker : v = worker[w]
  BY <1>1
<1>6. Limits!Becomes(w, v)
  BY <1>2, <1>3, <1>5 DEF Limits!Becomes
<1>7. Limits!TypeOK'
  BY <1>1, <1>2, <1>4, LimitsTypes DEF Limits!TypeOK
<1>8. "running" \in limits
  BY <1>1, <1>2 DEF PoolsOK
<1>9. WindowOK' /\ PoolsOK'
  <2>1. WindowOK'
    BY <1>1, <1>2 DEF WindowOK
  <2>2. running'[w] + marks'[w] <= Concurrency
    <3>1. running[w] + marks[w] <= Concurrency
      BY <1>1 DEF PoolsOK
    <3> QED
      BY <1>3, <1>4, <3>1
  <2>3. \A u \in Workers : running'[u] + marks'[u] <= Concurrency
    BY <1>1, <1>4, <2>2 DEF PoolsOK
  <2> QED
    BY <1>2, <1>8, <2>1, <2>3 DEF PoolsOK
<1>10. Limits!AllRunning' = Limits!AllRunning - 1 /\ Limits!AllRunning \in Nat
  <2>1. running[w] <= Concurrency
    <3>1. running[w] + marks[w] <= Concurrency
      BY <1>1 DEF PoolsOK
    <3> QED
      BY <1>3, <3>1
  <2> QED
    BY <1>1, <1>2, <1>7, <2>1, RowTaken, RowsCount
<1>11. /\ admitted' + window.used + Bit(Uncounted(worker[w])) + lost
            <= admitted + window'.used + Bit(Uncounted(v)) + lost'
       /\ admitted' + Bit(MayClaim(v)) + lost <= admitted + Bit(MayClaim(worker[w])) + lost'
  BY <1>2, <1>3, <1>5 DEF Bit
<1>12. Limits!AllRunning' + Bit(MayRun(v)) <= Limits!AllRunning + Bit(MayRun(worker[w]))
  BY <1>5, <1>10 DEF Bit
<1>13. window'.id = window.id /\ limits' = limits /\ RateOK(v) /\ RunningOK(v)
  BY <1>1, <1>2, <1>5
<1> QED
  BY <1>6, <1>7, <1>9, <1>11, <1>12, <1>13, OneMoves

\* A worker that has its view marked.
LEMMA MarkedIs ==
  ASSUME LimitsHold, NEW w \in Workers
  PROVE  \E n \in Limits!Worker :
           /\ n = [worker[w] EXCEPT !.due = TRUE, !.freed = TRUE]
           /\ RateOK(n) /\ RunningOK(n)
           /\ Uncounted(n) <=> Uncounted(worker[w])
           /\ MayClaim(n) <=> MayClaim(worker[w])
           /\ MayRun(n) => MayRun(worker[w])
<1>1. worker[w] \in Limits!Worker /\ RateOK(worker[w]) /\ RunningOK(worker[w])
  BY WorkerKnown
<1>2. PICK n \in Limits!Worker : n = [worker[w] EXCEPT !.due = TRUE, !.freed = TRUE]
  BY <1>1 DEF Limits!Worker
<1>3. /\ n.due /\ n.freed /\ n.at = worker[w].at /\ n.back = worker[w].back
      /\ n.blocked = worker[w].blocked /\ n.stale = worker[w].stale
      /\ n.full = worker[w].full /\ n.closed = worker[w].closed
      /\ n.failures = worker[w].failures /\ n.tries = worker[w].tries
      /\ n.since = worker[w].since
  BY <1>1, <1>2 DEF Limits!Worker
<1>4. RateOK(n)
  BY <1>1, <1>3 DEF RateOK, Counting
<1>5. RunningOK(n) /\ (Uncounted(n) <=> Uncounted(worker[w]))
  BY <1>3 DEF RunningOK, Uncounted
<1>6. (MayClaim(n) <=> MayClaim(worker[w])) /\ (MayRun(n) => MayRun(worker[w]))
  BY <1>3 DEF MayClaim, MayRun
<1> QED
  BY <1>2, <1>4, <1>5, <1>6

LEMMA MarkHolds ==
  ASSUME LimitsHold, NEW w \in Workers, Limits!Mark(w)
  PROVE  LimitsHold'
<1>1. Limits!TypeOK /\ WindowOK /\ PoolsOK
  BY DEF LimitsHold
<1>2. /\ UNCHANGED <<limits, window, running, admitted, lost, abandoned, errors, deaths>>
      /\ marks[w] > 0
      /\ marks' = [marks EXCEPT ![w] = marks[w] - 1]
  BY DEF Limits!Mark, Limits!Row
<1>3. /\ running \in [Workers -> Nat] /\ marks \in [Workers -> Nat]
      /\ running[w] \in Nat /\ marks[w] \in Nat /\ Concurrency \in Nat
      /\ admitted \in Nat /\ lost \in Nat /\ window.used \in Nat
  BY <1>1, LimitsTypes, LimitsFacts
<1>4. PICK n \in Limits!Worker :
        /\ n = [worker[w] EXCEPT !.due = TRUE, !.freed = TRUE]
        /\ RateOK(n) /\ RunningOK(n)
        /\ Uncounted(n) <=> Uncounted(worker[w])
        /\ MayClaim(n) <=> MayClaim(worker[w])
        /\ MayRun(n) => MayRun(worker[w])
  BY MarkedIs
<1>5. Limits!Becomes(w, n)
  BY <1>4 DEF Limits!Mark
<1>6. /\ marks' \in [Workers -> Nat] /\ marks'[w] = marks[w] - 1
      /\ \A u \in Workers \ {w} : marks'[u] = marks[u]
  BY <1>2, <1>3
<1>7. Limits!TypeOK'
  <2>1. worker' \in [Workers -> Limits!Worker]
    BY <1>1, <1>2, <1>5, OneWorker
  <2> QED
    BY <1>1, <1>2, <1>6, <2>1, LimitsTypes DEF Limits!TypeOK
<1>8. WindowOK' /\ PoolsOK'
  <2>1. WindowOK'
    BY <1>1, <1>2 DEF WindowOK
  <2>2. running[w] + marks'[w] <= Concurrency
    <3>1. running[w] + marks[w] <= Concurrency
      BY <1>1 DEF PoolsOK
    <3> QED
      BY <1>3, <1>6, <3>1
  <2> QED
    BY <1>1, <1>2, <1>6, <2>1, <2>2 DEF PoolsOK
<1>9. /\ admitted' + window.used + Bit(Uncounted(worker[w])) + lost
           <= admitted + window'.used + Bit(Uncounted(n)) + lost'
      /\ admitted' + Bit(MayClaim(n)) + lost <= admitted + Bit(MayClaim(worker[w])) + lost'
  BY <1>2, <1>3, <1>4 DEF Bit
<1>10. Limits!AllRunning' + Bit(MayRun(n)) <= Limits!AllRunning + Bit(MayRun(worker[w]))
  BY <1>1, <1>2, <1>4, SameRows, RowsCount DEF Bit
<1>11. window'.id = window.id /\ limits' = limits
  BY <1>2
<1> QED
  BY <1>4, <1>5, <1>7, <1>8, <1>9, <1>10, <1>11, OneMoves

LEMMA ReapHolds ==
  ASSUME LimitsHold, NEW w \in Workers, Limits!Reap(w)
  PROVE  LimitsHold'
<1>1. Limits!TypeOK /\ WindowOK /\ PoolsOK
  BY DEF LimitsHold
<1>2. /\ UNCHANGED <<limits, window, running, admitted, lost, marks, errors, deaths>>
      /\ abandoned > 0 /\ abandoned' = abandoned - 1
  BY DEF Limits!Reap, Limits!Row
<1>3. admitted \in Nat /\ lost \in Nat /\ window.used \in Nat /\ abandoned \in Nat
  BY <1>1, LimitsTypes
<1>4. PICK n \in Limits!Worker :
        /\ n = [worker[w] EXCEPT !.due = TRUE, !.freed = TRUE]
        /\ RateOK(n) /\ RunningOK(n)
        /\ Uncounted(n) <=> Uncounted(worker[w])
        /\ MayClaim(n) <=> MayClaim(worker[w])
        /\ MayRun(n) => MayRun(worker[w])
  BY MarkedIs
<1>5. Limits!Becomes(w, n)
  BY <1>4 DEF Limits!Reap
<1>6. Limits!TypeOK'
  <2>1. worker' \in [Workers -> Limits!Worker]
    BY <1>1, <1>2, <1>5, OneWorker
  <2>2. abandoned' \in Nat
    BY <1>2, <1>3
  <2> QED
    BY <1>1, <1>2, <2>1, <2>2, LimitsTypes DEF Limits!TypeOK
<1>7. WindowOK' /\ PoolsOK'
  <2>1. "running" \in limits
    BY <1>1, <1>2 DEF PoolsOK
  <2> QED
    BY <1>1, <1>2, <2>1 DEF WindowOK, PoolsOK
<1>8. /\ admitted' + window.used + Bit(Uncounted(worker[w])) + lost
           <= admitted + window'.used + Bit(Uncounted(n)) + lost'
      /\ admitted' + Bit(MayClaim(n)) + lost <= admitted + Bit(MayClaim(worker[w])) + lost'
  BY <1>2, <1>3, <1>4 DEF Bit
<1>9. Limits!AllRunning' + Bit(MayRun(n)) <= Limits!AllRunning + Bit(MayRun(worker[w]))
  <2>1. Limits!RunningRows' = Limits!RunningRows
    BY <1>2 DEF Limits!RunningRows
  <2>2. Limits!AllRunning' = abandoned' + Cardinality(Limits!RunningRows)
    BY <2>1 DEF Limits!AllRunning, Cardinality, Limits!Cardinality
  <2>3. /\ Limits!AllRunning = abandoned + Cardinality(Limits!RunningRows)
        /\ Cardinality(Limits!RunningRows) \in Nat
    BY <1>1, RowsCount
  <2> QED
    BY <1>2, <1>3, <1>4, <2>2, <2>3 DEF Bit
<1>10. window'.id = window.id /\ limits' = limits
  BY <1>2
<1> QED
  BY <1>4, <1>5, <1>6, <1>7, <1>8, <1>9, <1>10, OneMoves

LEMMA DieHolds ==
  ASSUME LimitsHold, NEW w \in Workers, Limits!Die(w)
  PROVE  LimitsHold'
<1>1. Limits!TypeOK /\ WindowOK /\ PoolsOK
  BY DEF LimitsHold
<1>2. /\ UNCHANGED <<limits, window, admitted, errors>> /\ deaths' = deaths + 1
      /\ running' = [running EXCEPT ![w] = 0] /\ marks' = [marks EXCEPT ![w] = 0]
      /\ abandoned' = abandoned + running[w]
      /\ lost' \in {lost, lost + 1}
      /\ Uncounted(worker[w]) => lost' = lost + 1
  BY DEF Limits!Die, Limits!Lost, Uncounted
<1>3. /\ running \in [Workers -> Nat] /\ marks \in [Workers -> Nat]
      /\ running[w] \in Nat /\ marks[w] \in Nat /\ Concurrency \in Nat
      /\ admitted \in Nat /\ lost \in Nat /\ window.used \in Nat /\ abandoned \in Nat
      /\ deaths \in Nat
  BY <1>1, LimitsTypes, LimitsFacts
<1>4. PICK n \in Limits!Worker : n = Limits!NewWorker
  <2>1. -1 \in -1 .. LastWindow /\ 0 \in 0 .. Tries
    BY LimitsFacts
  <2> QED
    BY <2>1 DEF Limits!Worker, Limits!NewWorker
<1>5. /\ n.at = "idle" /\ n.since = -1 /\ n.stale /\ n.due /\ n.failures = 0 /\ ~n.freed
  BY <1>4 DEF Limits!NewWorker
<1>6. Limits!Becomes(w, n)
  BY <1>4 DEF Limits!Die
<1>7. RateOK(n) /\ RunningOK(n) /\ ~MayClaim(n) /\ ~MayRun(n)
  BY <1>5, LimitsFacts DEF RateOK, RunningOK, Counting, MayClaim, MayRun
<1>8. /\ running' \in [Workers -> Nat] /\ marks' \in [Workers -> Nat]
      /\ running'[w] = 0 /\ marks'[w] = 0
      /\ \A u \in Workers \ {w} : running'[u] = running[u] /\ marks'[u] = marks[u]
  BY <1>2, <1>3
<1>9. Limits!TypeOK'
  <2>1. worker' \in [Workers -> Limits!Worker]
    BY <1>1, <1>2, <1>6, OneWorker
  <2>2. abandoned' \in Nat /\ lost' \in Nat /\ deaths' \in Nat
    BY <1>2, <1>3
  <2> QED
    BY <1>1, <1>2, <1>8, <2>1, <2>2, LimitsTypes DEF Limits!TypeOK
<1>10. WindowOK' /\ PoolsOK'
  <2>1. WindowOK'
    BY <1>1, <1>2 DEF WindowOK
  <2>2. \A u \in Workers : running'[u] + marks'[u] <= Concurrency
    BY <1>1, <1>3, <1>8 DEF PoolsOK
  <2>3. "running" \notin limits => abandoned' = 0 /\ \A u \in Workers : running'[u] = 0
    BY <1>1, <1>2, <1>3, <1>8 DEF PoolsOK
  <2> QED
    BY <1>2, <2>1, <2>2, <2>3 DEF PoolsOK
<1>11. /\ admitted' + window.used + Bit(Uncounted(worker[w])) + lost
            <= admitted + window'.used + Bit(Uncounted(n)) + lost'
       /\ admitted' + Bit(MayClaim(n)) + lost <= admitted + Bit(MayClaim(worker[w])) + lost'
  <2>1. admitted' = admitted /\ window' = window /\ lost' >= lost /\ lost' \in Nat
    BY <1>2, <1>3
  <2>2. Bit(MayClaim(n)) = 0 /\ Bit(MayClaim(worker[w])) \in {0, 1}
        /\ Bit(Uncounted(n)) \in {0, 1}
    BY <1>7 DEF Bit
  <2>3. Bit(Uncounted(worker[w])) + lost <= lost'
    BY <1>2, <1>3 DEF Bit
  <2>4. Bit(Uncounted(worker[w])) \in {0, 1}
    BY DEF Bit
  <2> QED
    BY <1>3, <2>1, <2>2, <2>3, <2>4
<1>12. Limits!AllRunning' + Bit(MayRun(n)) <= Limits!AllRunning + Bit(MayRun(worker[w]))
  <2>1. running[w] <= Concurrency
    <3>1. running[w] + marks[w] <= Concurrency
      BY <1>1 DEF PoolsOK
    <3> QED
      BY <1>3, <3>1
  <2>2. Limits!AllRunning' = Limits!AllRunning /\ Limits!AllRunning \in Nat
    BY <1>1, <1>2, <1>9, <2>1, RowsAbandoned, RowsCount
  <2> QED
    BY <1>7, <2>2 DEF Bit
<1>13. window'.id = window.id /\ limits' = limits
  BY <1>2
<1> QED
  BY <1>6, <1>7, <1>9, <1>10, <1>11, <1>12, <1>13, OneMoves

LEMMA ExpireHolds ==
  ASSUME LimitsHold, Limits!Expire
  PROVE  LimitsHold'
<1>1. /\ UNCHANGED <<limits, worker, running, abandoned, marks, admitted, lost, errors, deaths>>
      /\ window.id \in 0 .. LastWindow - 1
      /\ window' = [window EXCEPT !.expired = TRUE]
  BY DEF Limits!Expire
<1>2. /\ Limits!TypeOK /\ WindowOK /\ PoolsOK /\ CrewOK /\ Counted /\ Admits /\ Runs
      /\ window \in [id : -1 .. LastWindow, used : Nat, expired : BOOLEAN]
  BY LimitsTypes DEF LimitsHold
<1>3. /\ window'.id = window.id /\ window'.used = window.used
      /\ window' \in [id : -1 .. LastWindow, used : Nat, expired : BOOLEAN]
  BY <1>1, <1>2
<1>4. Limits!TypeOK'
  BY <1>1, <1>2, <1>3, LimitsTypes DEF Limits!TypeOK
<1>5. WindowOK' /\ PoolsOK'
  BY <1>1, <1>2, <1>3, LimitsFacts DEF WindowOK, PoolsOK
<1>6. CrewOK'
  BY <1>1, <1>2, <1>3 DEF CrewOK, RateOK, RunningOK, Counting
<1>7. Here' = Here /\ Admissible' = Admissible /\ Runnable' = Runnable
  BY <1>1, <1>3 DEF Here, Admissible, Runnable, Uncounted, MayClaim, MayRun
<1>8. Counted'
  BY <1>1, <1>2, <1>3, <1>7 DEF Counted
<1>9. Admits' /\ Runs'
  BY <1>1, <1>2, <1>7, SameRows DEF Admits, Runs, Ceiling
<1> QED
  BY <1>4, <1>5, <1>6, <1>8, <1>9 DEF LimitsHold

-----------------------------------------------------------------------------
LEMMA LimitsStart ==
  ASSUME Limits!Init
  PROVE  LimitsHold
<1>1. /\ limits \in Configurations /\ window = Limits!NoWindow
      /\ worker = [w \in Workers |-> Limits!NewWorker]
      /\ running = [w \in Workers |-> 0] /\ marks = [w \in Workers |-> 0]
      /\ abandoned = 0 /\ admitted = 0 /\ lost = 0 /\ errors = 0 /\ deaths = 0
  BY DEF Limits!Init
<1>2. PICK n \in Limits!Worker : n = Limits!NewWorker
  <2>1. -1 \in -1 .. LastWindow /\ 0 \in 0 .. Tries
    BY LimitsFacts
  <2> QED
    BY <2>1 DEF Limits!Worker, Limits!NewWorker
<1>3. /\ n.at = "idle" /\ n.since = -1 /\ n.stale /\ n.due /\ n.failures = 0 /\ ~n.freed
  BY <1>2 DEF Limits!NewWorker
<1>4. RateOK(n) /\ RunningOK(n) /\ ~MayClaim(n) /\ ~MayRun(n) /\ ~Uncounted(n)
  BY <1>3, LimitsFacts DEF RateOK, RunningOK, Counting, MayClaim, MayRun, Uncounted
<1>5. \A w \in Workers : worker[w] = n /\ running[w] = 0 /\ marks[w] = 0
  BY <1>1, <1>2
<1>6. /\ window.id = -1 /\ window.used = 0 /\ ~window.expired
      /\ window \in [id : -1 .. LastWindow, used : Nat, expired : BOOLEAN]
  BY <1>1, LimitsFacts DEF Limits!NoWindow
<1>7. Limits!TypeOK
  BY <1>1, <1>2, <1>6 DEF Limits!TypeOK
<1>8. WindowOK /\ PoolsOK
  BY <1>1, <1>5, <1>6, LimitsFacts DEF WindowOK, PoolsOK
<1>9. CrewOK
  BY <1>4, <1>5 DEF CrewOK
<1>10. Here = {} /\ Admissible = {} /\ Runnable = {}
  BY <1>4, <1>5 DEF Here, Admissible, Runnable
<1>11. Cardinality({}) = 0
  BY FS_EmptySet
<1>12. Counted
  BY <1>1, <1>6, <1>10, <1>11 DEF Counted
<1>13. Admits
  BY <1>1, <1>10, <1>11, LimitsFacts DEF Admits
<1>14. Runs
  <2>1. Limits!RunningRows = {}
    <3>1. \A x \in Limits!RunningRows :
            x[1] \in Workers /\ x[2] \in 1 .. Concurrency /\ x[2] <= running[x[1]]
      BY DEF Limits!RunningRows
    <3> QED
      BY <1>5, <3>1, LimitsFacts
  <2>2. Limits!AllRunning = 0
    BY <1>1, <1>7, <1>11, <2>1, RowsCount
  <2> QED
    BY <1>10, <1>11, <2>2, LimitsFacts DEF Runs, Ceiling
<1> QED
  BY <1>7, <1>8, <1>9, <1>12, <1>13, <1>14 DEF LimitsHold

LEMMA LimitsNext ==
  ASSUME LimitsHold, [Limits!Next]_admission
  PROVE  LimitsHold'
<1>1. CASE Limits!Expire
  BY <1>1, ExpireHolds
<1>2. ASSUME NEW w \in Workers,
             \/ Limits!Begin(w) \/ Limits!Raises(w) \/ Limits!Select(w) \/ Limits!Seed(w)
             \/ Limits!Roll(w) \/ Limits!Clear(w) \/ Limits!CountRunning(w) \/ Limits!Apply(w)
             \/ Limits!Claim(w) \/ Limits!Record(w) \/ Limits!Count(w)
             \/ Limits!Finish(w) \/ Limits!Mark(w) \/ Limits!Reap(w) \/ Limits!Die(w)
      PROVE  LimitsHold'
  BY <1>2, ClaimBegins, RaisesHolds, SelectHolds, SeedHolds, RollHolds, ClearHolds,
     CountRunningHolds, ApplyHolds, ClaimHolds, RecordHolds, CountHolds, FinishHolds,
     MarkHolds, ReapHolds, DieHolds
<1>3. CASE UNCHANGED admission
  <2>1. UNCHANGED <<limits, window, worker, running, abandoned, marks, admitted, lost,
                    errors, deaths>>
    BY <1>3 DEF admission
  <2>2. Limits!TypeOK /\ WindowOK /\ PoolsOK /\ CrewOK /\ Counted /\ Admits /\ Runs
    BY DEF LimitsHold
  <2>3. Limits!TypeOK' /\ WindowOK' /\ PoolsOK'
    BY <2>1, <2>2 DEF Limits!TypeOK, WindowOK, PoolsOK
  <2>4. CrewOK'
    BY <2>1, <2>2 DEF CrewOK, RateOK, RunningOK, Counting
  <2>5. Here' = Here /\ Admissible' = Admissible /\ Runnable' = Runnable
    BY <2>1 DEF Here, Admissible, Runnable, Uncounted, MayClaim, MayRun
  <2>6. Counted' /\ Admits' /\ Runs'
    BY <2>1, <2>2, <2>5, SameRows DEF Counted, Admits, Runs, Ceiling
  <2> QED
    BY <2>3, <2>4, <2>6 DEF LimitsHold
<1> QED
  BY <1>1, <1>2, <1>3 DEF Limits!Next

\* The inductive invariant of the limits' part.
THEOREM LimitsInvariant == PartSpec => [](part = "limits" => LimitsHold)
<1>1. PartInit => (part = "limits" => LimitsHold)
  BY LimitsStart DEF PartInit
<1>2. /\ part = "limits" => LimitsHold
      /\ [PartNext]_<<part, vars, batches, admission, outcome, backstop>>
      => (part = "limits" => LimitsHold)'
  <2> SUFFICES ASSUME part = "limits" => LimitsHold,
                      [PartNext]_<<part, vars, batches, admission, outcome, backstop>>,
                      part' = "limits"
               PROVE  LimitsHold'
    OBVIOUS
  <2>1. part = "limits"
    BY DEF PartNext
  <2>2. LimitsHold /\ [Limits!Next]_admission
    BY <2>1 DEF PartNext
  <2> QED
    BY <2>2, LimitsNext
<1> QED
  BY <1>1, <1>2, PTL DEF PartSpec

\* Every variable of the part keeps its type.
THEOREM LimitsTypeCorrect == PartSpec => [](part = "limits" => Limits!TypeOK)
<1>1. (part = "limits" => LimitsHold) => (part = "limits" => Limits!TypeOK)
  BY DEF LimitsHold
<1> QED
  BY <1>1, LimitsInvariant, PTL

\* rate_limits and concurrency_limits: a window admits its limit, one more per other
\* worker and what it lost the count of, the RUNNING rows stay at max + W - 1 at most,
\* and a slot that came free is seen by the next pass.
THEOREM LimitsAreOvershotNoFurther == PartSpec => []LimitsAreOvershotAsPromised
<1>1. (part = "limits" => LimitsHold) => LimitsAreOvershotAsPromised
  <2> SUFFICES ASSUME LimitsHold, part = "limits"
               PROVE  /\ Limits!RateOvershootIsBounded /\ Limits!ConcurrencyOvershootIsBounded
                      /\ Limits!FreedSlotsAreSeen
    BY DEF LimitsAreOvershotAsPromised
  <2>1. Limits!TypeOK /\ CrewOK /\ Admits /\ Runs
    BY DEF LimitsHold
  <2>2. /\ Cardinality(Admissible) \in Nat /\ Cardinality(Runnable) \in Nat
        /\ Limits!Cardinality(Workers) = Cardinality(Workers) /\ Cardinality(Workers) \in Nat
    <3>1. Admissible \in SUBSET Workers /\ Runnable \in SUBSET Workers
          /\ Workers \in SUBSET Workers
      BY DEF Admissible, Runnable
    <3> QED
      BY <3>1, CrewCounts
  <2>3. /\ admitted \in Nat /\ lost \in Nat /\ Limit \in Nat /\ MaxRunning \in Nat
        /\ Limits!AllRunning \in Nat
    BY <2>1, LimitsTypes, LimitsFacts, RowsCount
  <2>4. Limits!RateOvershootIsBounded
    <3>1. admitted <= Limit + (Cardinality(Workers) - 1) + lost
      BY <2>1, <2>2, <2>3 DEF Admits
    <3>2. \A w \in Workers : worker[w].failures <= MAX_COUNT_FAILURES
      BY <2>1 DEF CrewOK, RateOK
    <3> QED
      BY <2>2, <3>1, <3>2 DEF Limits!RateOvershootIsBounded
  <2>5. Limits!ConcurrencyOvershootIsBounded
    <3>1. Limits!AllRunning <= Ceiling
      BY <2>1, <2>2, <2>3 DEF Runs, Ceiling
    <3> QED
      BY <2>2, <3>1 DEF Limits!ConcurrencyOvershootIsBounded, Ceiling
  <2>6. Limits!FreedSlotsAreSeen
    BY <2>1 DEF CrewOK, RunningOK, Limits!FreedSlotsAreSeen
  <2> QED
    BY <2>4, <2>5, <2>6
<1> QED
  BY <1>1, LimitsInvariant, PTL

-----------------------------------------------------------------------------
(* The scan of the backstop.                                               *)

Visits(v) == v.at \in {"paging", "storing"}

\* At rest, or in a pass with both its marks.
PlaceOK(p) == p = Scan!AT_REST \/ {p.edge_hwm, p.node_hwm} \subseteq Nat

\* A visit in a pass, or with its end to store.
VisitOK(v) ==
  /\ Visits(v) => v.visited < ScanFlow
  /\ PlaceOK(v.stored)
  /\ v.at = "paging" => {v.place.edge_hwm, v.place.node_hwm} \subseteq Nat
  /\ v.at = "storing" => PlaceOK(v.place) /\ (v.place = Scan!AT_REST => v.stored # Scan!AT_REST)

VisitedFlow(v) == Scan!Visiting(v.start, v.visited + 1)

\* A pass at this place reads the row no more.
Turn(phase) == IF phase = "EDGES" THEN 1 ELSE IF phase = "NODES" THEN 2 ELSE 3
Beyond(p, x) ==
  /\ p # Scan!AT_REST
  /\ \/ Scan!Hwm(p, x[1]) < x[2].key
     \/ Turn(x[1]) < Turn(p.phase)
     \/ p.phase = x[1] /\ x[2].key <= p.position

MarkOf(v, x) == IF x[2].table = "edges" THEN v.edges ELSE v.nodes

\* A tick that may yet have a pass miss the row: one that read on beyond it from a place
\* before it, or that is to visit the workflow with marks older than the row.
ReadPast(v, x) ==
  /\ Visits(v) /\ VisitedFlow(v) = x[2].flow
  /\ v.place = Scan!AT_REST \/ Beyond(v.place, x)
  /\ ~Beyond(v.stored, x)
IsTooOld(v, x) ==
  /\ v.at = "round" \/ Visits(v)
  /\ \E i \in 1 .. ScanFlow :
       /\ i > v.visited /\ (Visits(v) => i > v.visited + 1)
       /\ Scan!Visiting(v.start, i) = x[2].flow
  /\ MarkOf(v, x) < x[2].key
MayMiss(v, x) == ReadPast(v, x) \/ IsTooOld(v, x)

Missing(x) == {t \in Visitors : MayMiss(visit[t], x)}
Past(x) == IF Beyond(scan[x[2].flow], x) THEN 1 ELSE 0
NoOverlap == Cardinality(Visitors) = 1

\* Passes that ended without the row, ticks that may have one miss it, and the one that
\* does: no more than there are ticks, and one where they overlap.
PassesOK(x) ==
  since[x] > 0 =>
    since[x] + Cardinality(Missing(x)) + Past(x)
      <= Cardinality(Visitors) + (IF NoOverlap THEN 0 ELSE 1)

ScanHolds ==
  /\ Scan!TypeOK
  /\ \A f \in Scan!Flows : PlaceOK(scan[f])
  /\ \A t \in Visitors : VisitOK(visit[t])
  /\ NoOverlap =>
       \A t \in Visitors : Visits(visit[t]) => visit[t].stored = scan[VisitedFlow(visit[t])]
  /\ \A x \in Scan!Reads : (status[x[2]] # "open" => since[x] = 0) /\ PassesOK(x)

\* Backstop takes its sets from the same module, under its own names.
LEMMA ScanSets ==
  ASSUME NEW S
  PROVE  Scan!Cardinality(S) = Cardinality(S) /\ (Scan!IsFiniteSet(S) <=> IsFiniteSet(S))
BY DEF Cardinality, Scan!Cardinality, IsFiniteSet, Scan!IsFiniteSet

LEMMA ScanFacts ==
  /\ ScanFlow \in Nat \ {0} /\ BACKSTOP_PAGE \in Nat \ {0} /\ VISIT_PAGES \in Nat \ {0}
  /\ MaxCrashes \in Nat
  /\ IsFiniteSet(ScanRows) /\ IsFiniteSet(Visitors)
  /\ Scan!Flows = 1 .. ScanFlow
  /\ \A r \in ScanRows : r.key \in Nat \ {0} /\ r.flow \in Scan!Flows
  /\ \A r, s \in ScanRows : r.table = s.table /\ r.key = s.key => r = s
<1>1. Scan!Parameters
  BY ScanAssumption
<1>2. Scan!Flows = 1 .. ScanFlow
  BY DEF Scan!Flows
<1>3. IsFiniteSet(ScanRows) /\ IsFiniteSet(Visitors)
  BY <1>1, ScanSets DEF Scan!Parameters
<1> QED
  BY <1>1, <1>2, <1>3 DEF Scan!Parameters

LEMMA ReadFacts ==
  ASSUME NEW x \in Scan!Reads
  PROVE  /\ x[1] \in {"EDGES", "NODES", "RELEASE"} /\ x[2] \in ScanRows
         /\ x[2].table = Scan!Table(x[1])
         /\ x[2].key \in Nat \ {0} /\ x[2].flow \in Scan!Flows
BY ScanFacts DEF Scan!Reads, Scan!Phases

\* The workflows of a round, each once.
LEMMA ScanTurns ==
  ASSUME NEW start \in 0 .. ScanFlow
  PROVE  /\ \A i \in 1 .. ScanFlow : Scan!Visiting(start, i) \in Scan!Flows
         /\ \A i \in 0 .. ScanFlow : Scan!Visiting(start, i) \in 0 .. ScanFlow
         /\ \A i, j \in 1 .. ScanFlow :
              Scan!Visiting(start, i) = Scan!Visiting(start, j) => i = j
BY ScanFacts DEF Scan!Visiting

\* Rows that are not none have a highest key.
LEMMA HighestRow ==
  ASSUME NEW rows \in SUBSET ScanRows, rows # {}
  PROVE  \E r \in rows : \A s \in rows : s.key <= r.key
<1> DEFINE Above(r) == {s \in rows : r.key < s.key}
           T == {Above(r) : r \in rows}
<1>1. IsWellFoundedOn(StrictSubsetOrdering(ScanRows), SUBSET ScanRows)
  BY ScanFacts, FS_StrictSubsetOrderingWellFounded, FS_FiniteSubsetsOfFinite
<1>2. T \subseteq SUBSET ScanRows /\ T # {}
  OBVIOUS
<1>3. PICK top \in T : \A below \in T : ~(<<below, top>> \in StrictSubsetOrdering(ScanRows))
  <2> HIDE DEF T
  <2> QED
    BY <1>1, <1>2, WFMin
<1>4. PICK r \in rows : top = Above(r)
  BY <1>3
<1>5. \A s \in rows : s.key \in Nat
  BY ScanFacts
<1>6. ASSUME NEW s \in rows, r.key < s.key
      PROVE  FALSE
  <2>1. Above(s) \subseteq Above(r)
    BY <1>5, <1>6
  <2>2. s \in Above(r) /\ s \notin Above(s)
    BY <1>5, <1>6
  <2>3. Above(s) \in T /\ Above(s) \in SUBSET ScanRows /\ Above(r) \in SUBSET ScanRows
    OBVIOUS
  <2>4. <<Above(s), Above(r)>> \in StrictSubsetOrdering(ScanRows)
    <3> HIDE DEF Above
    <3> QED
      BY <2>1, <2>2, <2>3 DEF StrictSubsetOrdering
  <2> QED
    BY <1>3, <1>4, <2>3, <2>4
<1> QED
  BY <1>5, <1>6

LEMMA HighestKey ==
  ASSUME NEW rows \in SUBSET ScanRows
  PROVE  /\ Scan!Highest({r.key : r \in rows}) \in Nat
         /\ \A r \in rows : r.key <= Scan!Highest({s.key : s \in rows})
         /\ rows # {} => \E r \in rows : r.key = Scan!Highest({s.key : s \in rows})
<1> DEFINE ks == {r.key : r \in rows}
<1>1. CASE rows = {}
  <2>1. ks = {}
    BY <1>1
  <2>2. Scan!Highest(ks) = 0
    BY <2>1 DEF Scan!Highest
  <2> QED
    BY <1>1, <2>2
<1>2. CASE rows # {}
  <2>1. PICK top \in rows : \A s \in rows : s.key <= top.key
    BY <1>2, HighestRow
  <2>2. /\ top.key \in ks /\ \A k \in ks : k <= top.key
        /\ ks \subseteq Nat /\ ks # {}
    BY <2>1, ScanFacts
  <2> HIDE DEF ks
  <2>3. Scan!Highest(ks) \in ks /\ \A k \in ks : k <= Scan!Highest(ks)
    BY <2>2 DEF Scan!Highest
  <2> QED
    BY <2>2, <2>3 DEF ks
<1> QED
  BY <1>1, <1>2

LEMMA HighestPks ==
  ASSUME NEW table
  PROVE  /\ Scan!HighestPk(table) \in Nat
         /\ \A r \in ScanRows : r.table = table /\ status[r] # "absent"
                                  => r.key <= Scan!HighestPk(table)
<1> DEFINE rows == {s \in ScanRows : s.table = table /\ status[s] # "absent"}
<1>1. Scan!HighestPk(table) = Scan!Highest({r.key : r \in rows})
  BY DEF Scan!HighestPk
<1>2. rows \in SUBSET ScanRows
  OBVIOUS
<1> HIDE DEF rows
<1>3. /\ Scan!HighestPk(table) \in Nat
      /\ \A r \in rows : r.key <= Scan!HighestPk(table)
  BY <1>1, <1>2, HighestKey
<1> QED
  BY <1>3 DEF rows
-----------------------------------------------------------------------------
\* What passes that end do to the count of a row that is open.
LEMMA ScanCounts ==
  ASSUME NEW S \in SUBSET Visitors
  PROVE  /\ IsFiniteSet(S) /\ Cardinality(S) \in Nat
         /\ \A R \in SUBSET S : Cardinality(R) <= Cardinality(S)
         /\ \A t \in S : \A R \in SUBSET (S \ {t}) : Cardinality(R) + 1 <= Cardinality(S)
<1>1. IsFiniteSet(S) /\ Cardinality(S) \in Nat
  BY ScanFacts, FS_Subset, FS_CardinalityType
<1>2. \A R \in SUBSET S : Cardinality(R) <= Cardinality(S)
  BY <1>1, FS_Subset
<1>3. ASSUME NEW t \in S, NEW R \in SUBSET (S \ {t})
      PROVE  Cardinality(R) + 1 <= Cardinality(S)
  <2>1. Cardinality(S \ {t}) = Cardinality(S) - 1 /\ IsFiniteSet(S \ {t})
    BY <1>1, FS_RemoveElement
  <2>2. Cardinality(R) <= Cardinality(S \ {t}) /\ Cardinality(R) \in Nat
    BY <2>1, FS_Subset, FS_CardinalityType
  <2> QED
    BY <1>1, <2>1, <2>2
<1> QED
  BY <1>1, <1>2, <1>3

LEMMA OnlyTick ==
  ASSUME NoOverlap, NEW t \in Visitors, NEW u \in Visitors
  PROVE  u = t
<1>1. CASE u # t
  <2>1. Cardinality({t}) + 1 <= Cardinality(Visitors)
    BY <1>1, ScanCounts
  <2>2. Cardinality({t}) = 1
    BY FS_Singleton
  <2> QED
    BY <2>1, <2>2 DEF NoOverlap
<1> QED
  BY <1>1

\* The row was read; no pass ended; one came to a place beyond it; or one ended without
\* it, which was beyond it, or which this tick had read past it.
Told(t, n, x, past) ==
  LET v == visit[t] IN
  \/ since'[x] = 0
  \/ /\ since'[x] = since[x] /\ past <= Past(x)
     /\ MayMiss(n, x) => MayMiss(v, x)
  \/ /\ since'[x] = since[x]
     /\ MayMiss(v, x) /\ ~MayMiss(n, x)
  \/ /\ since'[x] = since[x] + 1 /\ Past(x) = 1 /\ past = 0
     /\ ~MayMiss(n, x)
  \/ /\ since'[x] = since[x] + 1 /\ past <= Past(x) /\ (NoOverlap => past = 0)
     /\ MayMiss(v, x) /\ ~MayMiss(n, x)

LEMMA PassesStayOK ==
  ASSUME NEW x, PassesOK(x), NEW t \in Visitors, NEW n,
         visit' = [visit EXCEPT ![t] = n], visit = [u \in Visitors |-> visit[u]],
         since[x] \in Nat, NEW past, past = Past(x)', Told(t, n, x, past)
  PROVE  PassesOK(x)'
<1> DEFINE v == visit[t]
           R == Missing(x)'
           S == Missing(x)
           T == Cardinality(Visitors)
<1>1. visit'[t] = n /\ \A u \in Visitors \ {t} : visit'[u] = visit[u]
  OBVIOUS
<1>2. /\ R = {u \in Visitors : MayMiss(visit'[u], x)} /\ S = {u \in Visitors : MayMiss(visit[u], x)}
  BY DEF Missing, MayMiss, ReadPast, IsTooOld, Visits, VisitedFlow, Beyond, MarkOf, Turn
<1>3. /\ R \in SUBSET Visitors /\ S \in SUBSET Visitors
      /\ R \ {t} = S \ {t}
      /\ t \in R <=> MayMiss(n, x)
      /\ t \in S <=> MayMiss(v, x)
  BY <1>1, <1>2
<1> HIDE DEF R, S
<1>4. /\ Cardinality(R) \in Nat /\ Cardinality(S) \in Nat /\ T \in Nat
      /\ (MayMiss(n, x) => MayMiss(v, x)) => Cardinality(R) <= Cardinality(S)
      /\ MayMiss(v, x) /\ ~MayMiss(n, x) => Cardinality(R) + 1 <= Cardinality(S)
      /\ ~MayMiss(n, x) => Cardinality(R) + 1 <= T
  <2>1. Cardinality(R) \in Nat /\ Cardinality(S) \in Nat /\ T \in Nat
    BY <1>3, ScanCounts
  <2>2. ASSUME MayMiss(n, x) => MayMiss(v, x)
        PROVE  Cardinality(R) <= Cardinality(S)
    <3>1. R \in SUBSET S
      BY <1>3, <2>2
    <3> QED
      BY <1>3, <3>1, ScanCounts
  <2>3. ASSUME MayMiss(v, x), ~MayMiss(n, x)
        PROVE  Cardinality(R) + 1 <= Cardinality(S)
    <3>1. R \in SUBSET (S \ {t}) /\ t \in S
      BY <1>3, <2>3
    <3> QED
      BY <1>3, <3>1, ScanCounts
  <2>4. ASSUME ~MayMiss(n, x)
        PROVE  Cardinality(R) + 1 <= T
    <3>1. R \in SUBSET (Visitors \ {t})
      BY <1>3, <2>4
    <3> QED
      BY <3>1, ScanCounts
  <2> QED
    BY <2>1, <2>2, <2>3, <2>4
<1>5. Past(x) \in 0 .. 1 /\ past \in 0 .. 1
  BY DEF Past
<1>6. since[x] > 0 => since[x] + Cardinality(S) + Past(x) <= T + (IF NoOverlap THEN 0 ELSE 1)
  BY DEF PassesOK, S
<1>7. NoOverlap => T = 1
  BY DEF NoOverlap
<1>8. SUFFICES since'[x] > 0 =>
        since'[x] + Cardinality(R) + past <= T + (IF NoOverlap THEN 0 ELSE 1)
  <2>1. NoOverlap' <=> NoOverlap
    BY DEF NoOverlap
  <2> QED
    BY <2>1 DEF PassesOK, R
<1> HIDE DEF v, T
<1>9. CASE since'[x] = 0
  BY <1>9
<1>10. CASE /\ since'[x] = since[x] /\ past <= Past(x)
            /\ MayMiss(n, x) => MayMiss(v, x)
  BY <1>4, <1>5, <1>6, <1>10
<1>11. CASE since'[x] = since[x] /\ MayMiss(v, x) /\ ~MayMiss(n, x)
  BY <1>4, <1>5, <1>6, <1>11
<1>12. CASE since'[x] = since[x] + 1 /\ Past(x) = 1 /\ past = 0 /\ ~MayMiss(n, x)
  <2>1. Cardinality(R) <= Cardinality(S)
    BY <1>4, <1>12
  <2>2. CASE since[x] = 0
    BY <1>4, <1>12, <2>2
  <2>3. CASE since[x] > 0
    BY <1>4, <1>6, <1>12, <2>1, <2>3
  <2> QED
    BY <2>2, <2>3
<1>13. CASE /\ since'[x] = since[x] + 1 /\ past <= Past(x) /\ (NoOverlap => past = 0)
            /\ MayMiss(v, x) /\ ~MayMiss(n, x)
  <2>1. Cardinality(R) + 1 <= Cardinality(S) /\ Cardinality(R) + 1 <= T
    BY <1>4, <1>13
  <2>2. CASE since[x] = 0
    BY <1>4, <1>5, <1>7, <1>13, <2>1, <2>2
  <2>3. CASE since[x] > 0
    BY <1>4, <1>5, <1>6, <1>13, <2>1, <2>3
  <2> QED
    BY <2>2, <2>3
<1> QED
  BY <1>9, <1>10, <1>11, <1>12, <1>13 DEF Told, v
-----------------------------------------------------------------------------
LEMMA ScanTypes ==
  ASSUME ScanHolds
  PROVE  /\ scan \in [Scan!Flows -> Scan!Place] /\ after \in 0 .. ScanFlow
         /\ visit \in [Visitors -> Scan!Visit] /\ visit = [t \in Visitors |-> visit[t]]
         /\ crashes \in 0 .. MaxCrashes
         /\ since \in [Scan!Reads -> Nat] /\ stores \in [Scan!Flows -> Nat]
         /\ status \in [ScanRows -> {"absent", "open", "closed"}]
BY DEF ScanHolds, Scan!TypeOK

LEMMA VisitTypes ==
  ASSUME NEW v \in Scan!Visit
  PROVE  /\ v.at \in {"idle", "round", "paging", "storing", "moving"}
         /\ v.start \in 0 .. ScanFlow /\ v.visited \in 0 .. ScanFlow
         /\ v.edges \in Nat /\ v.nodes \in Nat /\ v.fresh \in BOOLEAN
         /\ v.place \in Scan!Place /\ v.stored \in Scan!Place /\ v.pages \in 0 .. VISIT_PAGES
BY DEF Scan!Visit

LEMMA VisitedIsAFlow ==
  ASSUME NEW v \in Scan!Visit, v.visited < ScanFlow
  PROVE  VisitedFlow(v) \in Scan!Flows
<1>1. v.start \in 0 .. ScanFlow /\ v.visited + 1 \in 1 .. ScanFlow
  BY VisitTypes, ScanFacts
<1> QED
  BY <1>1, ScanTurns DEF VisitedFlow

LEMMA PlaceTypes ==
  /\ Scan!AT_REST \in Scan!Place /\ PlaceOK(Scan!AT_REST)
  /\ \A p \in Scan!Place : /\ p.phase \in {"EDGES", "NODES", "RELEASE"} /\ p.position \in Nat
                           /\ p.edge_hwm \in Nat \cup {-1} /\ p.node_hwm \in Nat \cup {-1}
BY DEF PlaceOK, Scan!AT_REST, Scan!Place, Scan!Phases, Scan!Unset

\* A place with its marks is in a pass.
LEMMA Marked ==
  ASSUME NEW p, {p.edge_hwm, p.node_hwm} \subseteq Nat
  PROVE  p # Scan!AT_REST
BY DEF Scan!AT_REST, Scan!Unset

\* A tick with nothing in progress.
LEMMA ScanIdle ==
  ASSUME NEW n, n = Scan!NoRound
  PROVE  n \in Scan!Visit /\ n.at = "idle" /\ VisitOK(n)
<1>1. n \in Scan!Visit
  BY PlaceTypes, ScanFacts DEF Scan!Visit, Scan!NoRound
<1>2. n.at = "idle" /\ n.stored = Scan!AT_REST
  BY DEF Scan!NoRound
<1> QED
  BY <1>1, <1>2, PlaceTypes DEF VisitOK, Visits

LEMMA NoneMissed ==
  ASSUME NEW n, n.at \in {"idle", "moving"}, NEW x
  PROVE  ~MayMiss(n, x)
BY DEF MayMiss, ReadPast, IsTooOld, Visits

\* A visit that ended has no row of its workflow missed any more.
LEMMA ScanEndsVisit ==
  ASSUME NEW v \in Scan!Visit, Visits(v), VisitOK(v), NEW n, n = Scan!EndsVisit(v)
  PROVE  /\ n \in Scan!Visit /\ n.at = "round" /\ VisitOK(n)
         /\ \A x \in Scan!Reads : /\ MayMiss(n, x) => MayMiss(v, x)
                                  /\ x[2].flow = VisitedFlow(v) => ~MayMiss(n, x)
<1>1. /\ v.visited + 1 \in 1 .. ScanFlow /\ v.visited \in 0 .. ScanFlow
      /\ v.start \in 0 .. ScanFlow
  BY VisitTypes, ScanFacts DEF VisitOK
<1>2. n = [v EXCEPT !.at = "round", !.visited = v.visited + 1, !.place = Scan!AT_REST,
                    !.stored = Scan!AT_REST, !.pages = 0]
  BY DEF Scan!EndsVisit
<1>3. /\ n \in Scan!Visit /\ n.at = "round" /\ n.visited = v.visited + 1 /\ n.start = v.start
      /\ n.stored = Scan!AT_REST /\ n.edges = v.edges /\ n.nodes = v.nodes
  <2>1. /\ v.visited + 1 \in 0 .. ScanFlow /\ 0 \in 0 .. VISIT_PAGES
        /\ Scan!AT_REST \in Scan!Place
    BY <1>1, PlaceTypes, ScanFacts
  <2> QED
    BY <1>2, <2>1 DEF Scan!Visit
<1>4. VisitOK(n)
  BY <1>3, PlaceTypes DEF VisitOK, Visits
<1>5. ASSUME NEW x \in Scan!Reads, MayMiss(n, x)
      PROVE  MayMiss(v, x) /\ x[2].flow # VisitedFlow(v)
  <2>1. MarkOf(n, x) < x[2].key /\ MarkOf(v, x) = MarkOf(n, x)
    BY <1>3, <1>5 DEF MayMiss, ReadPast, IsTooOld, Visits, MarkOf
  <2>2. PICK i \in 1 .. ScanFlow : i > v.visited + 1 /\ Scan!Visiting(v.start, i) = x[2].flow
    BY <1>3, <1>5 DEF MayMiss, ReadPast, IsTooOld, Visits
  <2>3. IsTooOld(v, x)
    BY <1>1, <2>1, <2>2 DEF IsTooOld
  <2>4. x[2].flow # VisitedFlow(v)
    <3>1. \A j \in 1 .. ScanFlow :
            Scan!Visiting(v.start, i) = Scan!Visiting(v.start, j) => i = j
      BY <1>1, ScanTurns
    <3> QED
      BY <1>1, <2>2, <3>1 DEF VisitedFlow
  <2> QED
    BY <2>3, <2>4 DEF MayMiss
<1> QED
  BY <1>3, <1>4, <1>5

\* One tick goes on.
LEMMA ScanGoesOn ==
  ASSUME ScanHolds, NEW t \in Visitors, NEW n \in Scan!Visit, VisitOK(n),
         visit' = [visit EXCEPT ![t] = n], UNCHANGED <<status, after>>,
         scan' \in [Scan!Flows -> Scan!Place], \A f \in Scan!Flows : PlaceOK(scan'[f]),
         crashes' \in 0 .. MaxCrashes, since' \in [Scan!Reads -> Nat],
         stores' \in [Scan!Flows -> Nat],
         NoOverlap /\ Visits(n) => n.stored = scan'[VisitedFlow(n)],
         \A x \in Scan!Reads : status[x[2]] # "open" => since'[x] = 0,
         \A x \in Scan!Reads : status[x[2]] = "open" => Told(t, n, x, Past(x)')
  PROVE  ScanHolds'
<1>1. /\ visit' \in [Visitors -> Scan!Visit] /\ visit'[t] = n
      /\ \A u \in Visitors \ {t} : visit'[u] = visit[u]
  BY ScanTypes
<1>2. Scan!TypeOK'
  BY <1>1, ScanTypes DEF Scan!TypeOK
<1>3. \A u \in Visitors : VisitOK(visit[u])'
  <2>1. \A u \in Visitors : VisitOK(visit'[u])
    BY <1>1 DEF ScanHolds
  <2> QED
    BY <2>1 DEF VisitOK, Visits, PlaceOK
<1>4. (NoOverlap => \A u \in Visitors : Visits(visit[u]) =>
         visit[u].stored = scan[VisitedFlow(visit[u])])'
  <2>1. SUFFICES ASSUME NoOverlap, NEW u \in Visitors, Visits(visit'[u])
                 PROVE  visit'[u].stored = scan'[VisitedFlow(visit'[u])]
    BY DEF NoOverlap, Visits, VisitedFlow
  <2>2. u = t
    BY <2>1, OnlyTick
  <2> QED
    BY <1>1, <2>1, <2>2
<1>5. ASSUME NEW x \in Scan!Reads
      PROVE  (status[x[2]] # "open" => since[x] = 0)' /\ PassesOK(x)'
  <2>1. CASE status[x[2]] # "open"
    <3>1. since'[x] = 0
      BY <2>1
    <3> QED
      BY <3>1 DEF PassesOK
  <2>2. CASE status[x[2]] = "open"
    <3>1. Told(t, n, x, Past(x)') /\ PassesOK(x) /\ since[x] \in Nat
          /\ visit = [u \in Visitors |-> visit[u]]
      BY <2>2, ScanTypes DEF ScanHolds
    <3>2. PassesOK(x)'
      BY <3>1, PassesStayOK
    <3> QED
      BY <2>2, <3>2
  <2> QED
    BY <2>1, <2>2
<1>6. \A f \in Scan!Flows : PlaceOK(scan[f])'
  BY DEF PlaceOK
<1> QED
  BY <1>2, <1>3, <1>4, <1>5, <1>6 DEF ScanHolds

\* So too where it moves nothing but itself, and has no row missed that it had not.
LEMMA ScanGoesOnAlone ==
  ASSUME ScanHolds, NEW t \in Visitors, NEW n \in Scan!Visit, VisitOK(n),
         visit' = [visit EXCEPT ![t] = n], UNCHANGED <<status, after, scan, since>>,
         crashes' \in 0 .. MaxCrashes, stores' \in [Scan!Flows -> Nat],
         NoOverlap /\ Visits(n) => n.stored = scan[VisitedFlow(n)],
         \A x \in Scan!Reads : status[x[2]] = "open" =>
           (MayMiss(n, x) => MayMiss(visit[t], x))
  PROVE  ScanHolds'
<1>1. \A x \in Scan!Reads : Past(x)' = Past(x) /\ Past(x) \in 0 .. 1
  BY DEF Past, Beyond, Turn
<1>2. \A x \in Scan!Reads : status[x[2]] = "open" => Told(t, n, x, Past(x)')
  BY <1>1 DEF Told
<1>3. \A x \in Scan!Reads : status[x[2]] # "open" => since'[x] = 0
  BY DEF ScanHolds
<1>4. /\ scan' \in [Scan!Flows -> Scan!Place] /\ \A f \in Scan!Flows : PlaceOK(scan'[f])
      /\ since' \in [Scan!Reads -> Nat]
  BY ScanTypes DEF ScanHolds
<1> QED
  BY <1>2, <1>3, <1>4, ScanGoesOn
-----------------------------------------------------------------------------
\* A tick starts a round with marks that no row there is beyond.
LEMMA ScanBeginRound ==
  ASSUME ScanHolds, NEW t \in Visitors, Scan!BeginRound(t)
  PROVE  ScanHolds'
<1> DEFINE edges == Scan!HighestPk("edges")
           nodes == Scan!HighestPk("nodes")
<1>1. /\ edges \in Nat /\ nodes \in Nat
      /\ \A r \in ScanRows : /\ r.table = "edges" /\ status[r] = "open" => r.key <= edges
                             /\ r.table = "nodes" /\ status[r] = "open" => r.key <= nodes
  BY HighestPks
<1> HIDE DEF edges, nodes
<1>2. PICK n :
        /\ n = [Scan!NoRound EXCEPT !.at = "round", !.start = after, !.fresh = TRUE,
                                    !.edges = edges, !.nodes = nodes]
        /\ visit' = [visit EXCEPT ![t] = n]
        /\ UNCHANGED <<status, scan, after, crashes, since, stores>>
  BY DEF Scan!BeginRound, Scan!Becomes, edges, nodes
<1>3. PICK idle : idle = Scan!NoRound
  OBVIOUS
<1>4. idle \in Scan!Visit /\ n = [idle EXCEPT !.at = "round", !.start = after, !.fresh = TRUE,
                                              !.edges = edges, !.nodes = nodes]
  BY <1>2, <1>3, ScanIdle
<1>5. n \in Scan!Visit /\ n.at = "round" /\ n.edges = edges /\ n.nodes = nodes
  BY <1>1, <1>4, ScanTypes DEF Scan!Visit
<1>6. n.stored = Scan!AT_REST
  BY <1>2 DEF Scan!NoRound
<1>7. VisitOK(n) /\ ~Visits(n)
  BY <1>5, <1>6, PlaceTypes DEF VisitOK, Visits
<1>8. ASSUME NEW x \in Scan!Reads, status[x[2]] = "open"
      PROVE  ~MayMiss(n, x)
  <2>1. x[2] \in ScanRows /\ x[2].table \in {"edges", "nodes"} /\ x[2].key \in Nat
    BY ReadFacts DEF Scan!Table
  <2>2. x[2].key <= MarkOf(n, x) /\ MarkOf(n, x) \in Nat
    BY <1>1, <1>5, <1>8, <2>1 DEF MarkOf
  <2> QED
    BY <1>7, <2>1, <2>2 DEF MayMiss, ReadPast, IsTooOld
<1> QED
  BY <1>2, <1>5, <1>7, <1>8, ScanTypes, ScanGoesOnAlone

\* A pass that begins is beyond what the round's marks are too old for.
LEMMA ScanBeginVisit ==
  ASSUME ScanHolds, NEW t \in Visitors, Scan!BeginVisit(t)
  PROVE  ScanHolds'
<1> DEFINE v == visit[t]
           stored == scan[Scan!Flow(t)]
           place == Scan!BeginsAt(v, stored)
<1>1. /\ v.at = "round" /\ v.visited < ScanFlow
      /\ UNCHANGED <<status, scan, after, crashes, since>>
      /\ stores' = [stores EXCEPT ![Scan!Flow(t)] = 0]
  BY DEF Scan!BeginVisit
<1>2. v \in Scan!Visit /\ VisitOK(v)
  BY ScanTypes DEF ScanHolds
<1>3. /\ Scan!Flow(t) = VisitedFlow(v) /\ Scan!Flow(t) \in Scan!Flows
      /\ stored \in Scan!Place /\ PlaceOK(stored)
  <2>1. Scan!Flow(t) = VisitedFlow(v)
    BY DEF Scan!Flow, VisitedFlow
  <2>2. VisitedFlow(v) \in Scan!Flows
    BY <1>1, <1>2, VisitedIsAFlow
  <2> QED
    BY <2>1, <2>2, ScanTypes DEF ScanHolds
<1>4. \/ place = stored /\ {stored.edge_hwm, stored.node_hwm} \subseteq Nat
      \/ stored = Scan!AT_REST
         /\ place = [Scan!AT_REST EXCEPT !.edge_hwm = v.edges, !.node_hwm = v.nodes]
  <2>1. CASE stored.edge_hwm # Scan!Unset /\ stored.node_hwm # Scan!Unset
    <3>1. place = stored /\ stored # Scan!AT_REST
      BY <2>1 DEF Scan!BeginsAt, Scan!AT_REST
    <3> QED
      BY <1>3, <3>1 DEF PlaceOK
  <2>2. CASE ~(stored.edge_hwm # Scan!Unset /\ stored.node_hwm # Scan!Unset)
    <3>1. stored = Scan!AT_REST
      BY <1>3, <2>2 DEF PlaceOK, Scan!Unset
    <3> QED
      BY <2>2, <3>1 DEF Scan!BeginsAt
  <2> QED
    BY <2>1, <2>2
<1> HIDE DEF v, stored, place
<1>5. place \in Scan!Place /\ {place.edge_hwm, place.node_hwm} \subseteq Nat
      /\ (stored = Scan!AT_REST => /\ place.phase = "EDGES" /\ place.position = 0
                                   /\ place.edge_hwm = v.edges /\ place.node_hwm = v.nodes)
  <2>1. v.edges \in Nat /\ v.nodes \in Nat
    BY <1>2, VisitTypes
  <2>2. CASE place = stored /\ {stored.edge_hwm, stored.node_hwm} \subseteq Nat
    <3>1. stored # Scan!AT_REST
      BY <2>2, Marked
    <3> QED
      BY <1>3, <2>2, <3>1
  <2>3. CASE /\ stored = Scan!AT_REST
             /\ place = [Scan!AT_REST EXCEPT !.edge_hwm = v.edges, !.node_hwm = v.nodes]
    BY <2>1, <2>3 DEF Scan!AT_REST, Scan!Place, Scan!Phases
  <2> QED
    BY <1>4, <2>2, <2>3
<1>6. PICK n : /\ n = [v EXCEPT !.at = "paging", !.pages = 0, !.stored = stored, !.place = place]
               /\ visit' = [visit EXCEPT ![t] = n]
  BY DEF Scan!BeginVisit, Scan!Becomes, v, stored, place
<1>7. /\ n \in Scan!Visit /\ n.at = "paging" /\ n.stored = stored /\ n.place = place
      /\ n.start = v.start /\ n.visited = v.visited /\ n.edges = v.edges /\ n.nodes = v.nodes
  <2>1. 0 \in 0 .. VISIT_PAGES
    BY ScanFacts
  <2> QED
    BY <1>2, <1>3, <1>5, <1>6, <2>1 DEF Scan!Visit
<1>8. VisitOK(n) /\ VisitedFlow(n) = VisitedFlow(v)
  BY <1>1, <1>3, <1>5, <1>7 DEF VisitOK, Visits, VisitedFlow
<1>9. ASSUME NEW x \in Scan!Reads, MayMiss(n, x)
      PROVE  MayMiss(v, x)
  <2>1. v.start \in 0 .. ScanFlow /\ v.visited \in 0 .. ScanFlow /\ v.visited + 1 \in 1 .. ScanFlow
    BY <1>1, <1>2, VisitTypes, ScanFacts
  <2>2. CASE IsTooOld(n, x)
    <3>1. MarkOf(v, x) = MarkOf(n, x)
      BY <1>7 DEF MarkOf
    <3>2. IsTooOld(v, x)
      BY <1>1, <1>7, <2>1, <2>2, <3>1 DEF IsTooOld, Visits
    <3> QED
      BY <3>2 DEF MayMiss
  <2>3. CASE ReadPast(n, x)
    <3>1. /\ VisitedFlow(v) = x[2].flow /\ Beyond(place, x) /\ ~Beyond(stored, x)
      BY <1>5, <1>7, <1>8, <2>3, Marked DEF ReadPast
    <3>2. /\ place.phase = "EDGES" /\ place.position = 0
          /\ place.edge_hwm = v.edges /\ place.node_hwm = v.nodes
      BY <1>4, <1>5, <3>1
    <3>3. Scan!Hwm(place, x[1]) = MarkOf(v, x)
      <4>1. x[2].table = "edges" <=> x[1] = "EDGES"
        BY ReadFacts DEF Scan!Table
      <4> QED
        BY <3>2, <4>1 DEF Scan!Hwm, MarkOf
    <3>4. MarkOf(v, x) < x[2].key
      <4>1. x[2].key \in Nat \ {0} /\ x[1] \in {"EDGES", "NODES", "RELEASE"}
        BY ReadFacts
      <4> QED
        BY <3>1, <3>2, <3>3, <4>1 DEF Beyond, Turn
    <3>5. IsTooOld(v, x)
      <4>1. v.visited + 1 \in 1 .. ScanFlow /\ v.visited + 1 > v.visited
            /\ Scan!Visiting(v.start, v.visited + 1) = x[2].flow
        BY <2>1, <3>1 DEF VisitedFlow
      <4>2. ~Visits(v)
        BY <1>1 DEF Visits
      <4> QED
        BY <1>1, <3>4, <4>1, <4>2 DEF IsTooOld
    <3> QED
      BY <3>5 DEF MayMiss
  <2> QED
    BY <1>9, <2>2, <2>3 DEF MayMiss
<1>10. stores' \in [Scan!Flows -> Nat]
  BY <1>1, <1>3, ScanTypes
<1>11. n.stored = scan[VisitedFlow(n)]
  BY <1>3, <1>7, <1>8 DEF stored
<1> QED
  BY <1>1, <1>6, <1>7, <1>8, <1>9, <1>10, <1>11, ScanTypes, ScanGoesOnAlone DEF v

\* A round that ends, or is to be stored, is to visit nothing.
LEMMA ScanEndRound ==
  ASSUME ScanHolds, NEW t \in Visitors, Scan!EndRound(t)
  PROVE  ScanHolds'
<1> DEFINE v == visit[t]
<1>1. PICK n : /\ n = IF v.visited = ScanFlow THEN Scan!NoRound ELSE [v EXCEPT !.at = "moving"]
               /\ visit' = [visit EXCEPT ![t] = n]
               /\ UNCHANGED <<status, scan, after, crashes, since, stores>>
  BY DEF Scan!EndRound, Scan!Becomes
<1>2. v \in Scan!Visit /\ VisitOK(v)
  BY ScanTypes DEF ScanHolds
<1>3. n \in Scan!Visit /\ n.at \in {"idle", "moving"} /\ VisitOK(n)
  <2>1. CASE v.visited = ScanFlow
    BY <1>1, <2>1, ScanIdle
  <2>2. CASE v.visited # ScanFlow
    BY <1>1, <1>2, <2>2 DEF Scan!Visit, VisitOK, Visits
  <2> QED
    BY <2>1, <2>2
<1>4. ~Visits(n) /\ \A x \in Scan!Reads : ~MayMiss(n, x)
  BY <1>3, NoneMissed DEF Visits
<1> QED
  BY <1>1, <1>3, <1>4, ScanTypes, ScanGoesOnAlone

LEMMA ScanTickDies ==
  ASSUME ScanHolds, NEW t \in Visitors, Scan!TickDies(t)
  PROVE  ScanHolds'
<1>1. PICK n : /\ n = Scan!NoRound
               /\ visit' = [visit EXCEPT ![t] = n] /\ crashes' = crashes + 1
               /\ crashes < MaxCrashes
               /\ UNCHANGED <<status, scan, after, since, stores>>
  BY DEF Scan!TickDies, Scan!Becomes
<1>2. n \in Scan!Visit /\ n.at = "idle" /\ VisitOK(n) /\ ~Visits(n)
  BY <1>1, ScanIdle DEF Visits
<1>3. crashes' \in 0 .. MaxCrashes
  BY <1>1, ScanTypes, ScanFacts
<1>4. \A x \in Scan!Reads : ~MayMiss(n, x)
  BY <1>2, NoneMissed
<1> QED
  BY <1>1, <1>2, <1>3, <1>4, ScanTypes, ScanGoesOnAlone

\* The round that is stored leaves every visit as it was.
LEMMA ScanMoveRound ==
  ASSUME ScanHolds, NEW t \in Visitors, Scan!MoveRound(t)
  PROVE  ScanHolds'
<1>1. /\ visit' = [u \in Visitors |-> IF u = t THEN Scan!NoRound
                       ELSE [visit[u] EXCEPT !.fresh = visit[u].fresh /\ ~visit[t].fresh]]
      /\ after' = (IF visit[t].fresh THEN Scan!StoppedAt(visit[t]) ELSE after)
      /\ stores' = (IF visit[t].fresh THEN [f \in Scan!Flows |-> stores[f] + 1] ELSE stores)
      /\ UNCHANGED <<status, scan, crashes, since>>
  BY DEF Scan!MoveRound
<1>2. ASSUME NEW u \in Visitors
      PROVE  /\ visit'[u] \in Scan!Visit /\ VisitOK(visit'[u])
             /\ Visits(visit'[u]) => /\ Visits(visit[u])
                                     /\ visit'[u].stored = visit[u].stored
                                     /\ VisitedFlow(visit'[u]) = VisitedFlow(visit[u])
             /\ \A x \in Scan!Reads : MayMiss(visit'[u], x) => MayMiss(visit[u], x)
  <2>1. PICK n : n = visit'[u]
    OBVIOUS
  <2>2. CASE u = t
    <3>1. n = Scan!NoRound
      BY <1>1, <2>1, <2>2
    <3> QED
      BY <2>1, <3>1, ScanIdle, NoneMissed DEF Visits
  <2>3. CASE u # t
    <3>1. PICK v : v = visit[u]
      OBVIOUS
    <3>2. PICK b \in BOOLEAN : n = [v EXCEPT !.fresh = b]
      BY <1>1, <2>1, <2>3, <3>1
    <3>3. v \in Scan!Visit /\ VisitOK(v)
      BY <3>1, ScanTypes DEF ScanHolds
    <3>4. /\ n \in Scan!Visit
          /\ n.at = v.at /\ n.start = v.start /\ n.visited = v.visited /\ n.edges = v.edges
          /\ n.nodes = v.nodes /\ n.place = v.place /\ n.stored = v.stored
      BY <3>2, <3>3 DEF Scan!Visit
    <3>5. VisitOK(n) /\ (Visits(n) <=> Visits(v)) /\ VisitedFlow(n) = VisitedFlow(v)
      BY <3>3, <3>4 DEF VisitOK, Visits, VisitedFlow
    <3>6. \A x \in Scan!Reads : MayMiss(n, x) => MayMiss(v, x)
      BY <3>4, <3>5 DEF MayMiss, ReadPast, IsTooOld, MarkOf
    <3> QED
      BY <2>1, <3>1, <3>4, <3>5, <3>6
  <2> QED
    BY <2>2, <2>3
<1>3. Scan!TypeOK'
  <2>1. visit' \in [Visitors -> Scan!Visit]
    BY <1>1, <1>2
  <2>2. after' \in 0 .. ScanFlow
    <3>1. visit[t].start \in 0 .. ScanFlow /\ visit[t].visited \in 0 .. ScanFlow
      BY ScanTypes, VisitTypes
    <3>2. Scan!StoppedAt(visit[t]) \in 0 .. ScanFlow
      BY <3>1, ScanTurns DEF Scan!StoppedAt
    <3> QED
      BY <1>1, <3>2, ScanTypes
  <2>3. stores' \in [Scan!Flows -> Nat]
    BY <1>1, ScanTypes
  <2> QED
    BY <1>1, <2>1, <2>2, <2>3, ScanTypes DEF Scan!TypeOK
<1>4. \A u \in Visitors : VisitOK(visit[u])'
  BY <1>2 DEF VisitOK, Visits, PlaceOK
<1>5. (NoOverlap => \A u \in Visitors : Visits(visit[u]) =>
         visit[u].stored = scan[VisitedFlow(visit[u])])'
  <2> SUFFICES ASSUME NoOverlap, NEW u \in Visitors, Visits(visit'[u])
               PROVE  visit'[u].stored = scan'[VisitedFlow(visit'[u])]
    BY DEF NoOverlap, Visits, VisitedFlow
  <2>1. visit[u].stored = scan[VisitedFlow(visit[u])]
    BY <1>2 DEF ScanHolds
  <2> QED
    BY <1>1, <1>2, <2>1
<1>6. ASSUME NEW x \in Scan!Reads
      PROVE  (status[x[2]] # "open" => since[x] = 0)' /\ PassesOK(x)'
  <2>1. Missing(x)' = {u \in Visitors : MayMiss(visit'[u], x)}
    BY DEF Missing, MayMiss, ReadPast, IsTooOld, Visits, VisitedFlow, Beyond, MarkOf, Turn
  <2>2. Missing(x)' \in SUBSET Missing(x) /\ Missing(x) \in SUBSET Visitors
    BY <1>2, <2>1 DEF Missing
  <2>3. /\ Cardinality(Missing(x)') <= Cardinality(Missing(x))
        /\ Cardinality(Missing(x)') \in Nat /\ Cardinality(Missing(x)) \in Nat
        /\ Cardinality(Visitors) \in Nat
    BY <2>2, ScanCounts
  <2>4. Past(x)' = Past(x) /\ Past(x) \in 0 .. 1 /\ since'[x] = since[x] /\ since[x] \in Nat
    BY <1>1, ScanTypes DEF Past, Beyond, Turn
  <2>5. PassesOK(x) /\ (status[x[2]] # "open" => since[x] = 0)
    BY DEF ScanHolds
  <2>6. PassesOK(x)'
    BY <2>3, <2>4, <2>5 DEF PassesOK, NoOverlap
  <2> QED
    BY <1>1, <2>4, <2>5, <2>6
<1>7. \A f \in Scan!Flows : PlaceOK(scan[f])'
  BY <1>1 DEF PlaceOK, ScanHolds
<1> QED
  BY <1>3, <1>4, <1>5, <1>6, <1>7 DEF ScanHolds

\* Others add a row, or close one: the ticks have no more rows missed for it.
LEMMA ScanRowsChange ==
  ASSUME ScanHolds, NEW r \in ScanRows, Scan!AddRow(r) \/ Scan!CloseRow(r)
  PROVE  ScanHolds'
<1>1. /\ status' \in [ScanRows -> {"absent", "open", "closed"}]
      /\ since' \in [Scan!Reads -> Nat]
      /\ UNCHANGED <<scan, after, visit, crashes, stores>>
  BY ScanTypes DEF Scan!AddRow, Scan!CloseRow
<1>2. \A x \in Scan!Reads : /\ since'[x] = 0 \/ since'[x] = since[x]
                            /\ status'[x[2]] # "open" => since'[x] = 0
  <2> SUFFICES ASSUME NEW x \in Scan!Reads
               PROVE  /\ since'[x] = 0 \/ since'[x] = since[x]
                      /\ status'[x[2]] # "open" => since'[x] = 0
    OBVIOUS
  <2>1. x[2] \in ScanRows /\ (status[x[2]] # "open" => since[x] = 0)
    BY ReadFacts DEF ScanHolds
  <2> QED
    BY <2>1, ScanTypes DEF Scan!AddRow, Scan!CloseRow
<1>3. \A x \in Scan!Reads : PassesOK(x)'
  <2> SUFFICES ASSUME NEW x \in Scan!Reads
               PROVE  PassesOK(x)'
    OBVIOUS
  <2>1. Missing(x)' = Missing(x) /\ Past(x)' = Past(x)
    BY <1>1 DEF Missing, MayMiss, ReadPast, IsTooOld, Visits, VisitedFlow, Beyond, MarkOf, Turn,
         Past
  <2>2. PassesOK(x) /\ (since'[x] = 0 \/ since'[x] = since[x])
    BY <1>2 DEF ScanHolds
  <2> QED
    BY <2>1, <2>2 DEF PassesOK, NoOverlap
<1>4. Scan!TypeOK'
  BY <1>1, ScanTypes DEF Scan!TypeOK
<1>5. /\ \A f \in Scan!Flows : PlaceOK(scan[f])'
      /\ \A t \in Visitors : VisitOK(visit[t])'
  BY <1>1 DEF ScanHolds, PlaceOK, VisitOK, Visits
<1>6. (NoOverlap => \A t \in Visitors : Visits(visit[t]) =>
         visit[t].stored = scan[VisitedFlow(visit[t])])'
  BY <1>1 DEF ScanHolds, NoOverlap, Visits, VisitedFlow
<1> QED
  BY <1>2, <1>3, <1>4, <1>5, <1>6 DEF ScanHolds
-----------------------------------------------------------------------------
\* A page in hand: the place beyond it is beyond none of the workflow's open rows that
\* it does not hold and the place before it was not, and a short one leaves none.
LEMMA PageLeavesNone ==
  ASSUME ScanHolds, NEW t \in Visitors, NEW page \in SUBSET Scan!Ahead(t),
         Scan!IsPageOf(page, Scan!Ahead(t)), visit[t].at = "paging",
         NEW x \in Scan!Reads, status[x[2]] = "open", x[2].flow = Scan!Flow(t),
         x[1] = visit[t].place.phase, x[2] \notin page
  PROVE  \/ Beyond(visit[t].place, x)
         \/ /\ Scan!Cardinality(page) = BACKSTOP_PAGE
            /\ Scan!Highest({r.key : r \in page}) < x[2].key
<1> DEFINE p == visit[t].place
           top == Scan!Highest({r.key : r \in page})
<1>1. /\ p \in Scan!Place /\ {p.edge_hwm, p.node_hwm} \subseteq Nat /\ p # Scan!AT_REST
      /\ p.position \in Nat
  BY ScanTypes, VisitTypes, PlaceTypes, Marked DEF ScanHolds, VisitOK
<1>2. /\ x[2] \in ScanRows /\ x[2].table = Scan!Table(p.phase) /\ x[2].key \in Nat
      /\ Scan!Hwm(p, p.phase) \in Nat
  BY <1>1, ReadFacts DEF Scan!Hwm
<1>3. CASE ~(p.position < x[2].key /\ x[2].key <= Scan!Hwm(p, p.phase))
  BY <1>1, <1>2, <1>3 DEF Beyond
<1>4. CASE p.position < x[2].key /\ x[2].key <= Scan!Hwm(p, p.phase)
  <2>1. x[2] \in Scan!Ahead(t)
    BY <1>2, <1>4 DEF Scan!Ahead
  <2>2. page # Scan!Ahead(t)
    BY <2>1
  <2>3. Scan!Cardinality(page) = BACKSTOP_PAGE /\ \A r \in page : r.key < x[2].key
    BY <2>1, <2>2 DEF Scan!IsPageOf
  <2>4. page \in SUBSET ScanRows
    BY DEF Scan!Ahead
  <2>5. page # {}
    <3>1. Cardinality(page) = BACKSTOP_PAGE
      BY <2>3, ScanSets
    <3>2. Cardinality({}) = 0
      BY FS_EmptySet
    <3> QED
      BY <3>1, <3>2, ScanFacts
  <2>6. top < x[2].key
    BY <2>3, <2>4, <2>5, HighestKey
  <2> QED
    BY <2>3, <2>6
<1> QED
  BY <1>3, <1>4

\* So the place that a page leads to.
LEMMA PageLeadsTo ==
  ASSUME ScanHolds, NEW t \in Visitors, NEW page \in SUBSET Scan!Ahead(t),
         Scan!IsPageOf(page, Scan!Ahead(t)), visit[t].at = "paging",
         NEW x \in Scan!Reads, status[x[2]] = "open", x[2].flow = Scan!Flow(t),
         ~(x[1] = visit[t].place.phase /\ x[2] \in page), NEW q
  PROVE  /\ /\ Scan!Cardinality(page) = BACKSTOP_PAGE
            /\ q = [visit[t].place EXCEPT !.position = Scan!Highest({r.key : r \in page})]
            /\ Beyond(q, x)
            => Beyond(visit[t].place, x)
         /\ /\ Scan!Cardinality(page) # BACKSTOP_PAGE
            /\ visit[t].place.phase # "RELEASE"
            /\ q = [visit[t].place EXCEPT !.phase = Scan!FollowingPhase(@), !.position = 0]
            /\ Beyond(q, x)
            => Beyond(visit[t].place, x)
         /\ /\ Scan!Cardinality(page) # BACKSTOP_PAGE
            /\ visit[t].place.phase = "RELEASE"
            => Beyond(visit[t].place, x)
<1> DEFINE p == visit[t].place
           top == Scan!Highest({r.key : r \in page})
           full == Scan!Cardinality(page) = BACKSTOP_PAGE
<1>1. /\ p \in Scan!Place /\ {p.edge_hwm, p.node_hwm} \subseteq Nat /\ p # Scan!AT_REST
      /\ p.position \in Nat /\ p.phase \in {"EDGES", "NODES", "RELEASE"}
  BY ScanTypes, VisitTypes, PlaceTypes, Marked DEF ScanHolds, VisitOK
<1>2. x[1] \in {"EDGES", "NODES", "RELEASE"} /\ x[2].key \in Nat \ {0}
  BY ReadFacts
<1>3. x[1] = p.phase => Beyond(p, x) \/ (full /\ top < x[2].key)
  BY PageLeavesNone
<1>4. top \in Nat
  <2>1. page \in SUBSET ScanRows
    BY DEF Scan!Ahead
  <2> QED
    BY <2>1, HighestKey
<1> HIDE DEF p, top, full
<1>5. ASSUME q = [p EXCEPT !.position = top], Beyond(q, x)
      PROVE  Beyond(p, x)
  <2>1. /\ q.phase = p.phase /\ q.position = top
        /\ q.edge_hwm = p.edge_hwm /\ q.node_hwm = p.node_hwm
    BY <1>1, <1>5 DEF Scan!Place
  <2>2. Scan!Hwm(q, x[1]) = Scan!Hwm(p, x[1])
    BY <2>1 DEF Scan!Hwm
  <2>3. CASE q.phase = x[1] /\ x[2].key <= q.position
    BY <1>2, <1>3, <1>4, <2>1, <2>3
  <2>4. CASE Scan!Hwm(q, x[1]) < x[2].key \/ Turn(x[1]) < Turn(q.phase)
    BY <1>1, <2>1, <2>2, <2>4 DEF Beyond
  <2> QED
    BY <1>5, <2>3, <2>4 DEF Beyond
<1>6. ASSUME ~full, p.phase # "RELEASE",
             q = [p EXCEPT !.phase = Scan!FollowingPhase(@), !.position = 0], Beyond(q, x)
      PROVE  Beyond(p, x)
  <2>1. /\ q.phase = Scan!FollowingPhase(p.phase) /\ q.position = 0
        /\ q.edge_hwm = p.edge_hwm /\ q.node_hwm = p.node_hwm
    BY <1>1, <1>6 DEF Scan!Place
  <2>2. Scan!Hwm(q, x[1]) = Scan!Hwm(p, x[1])
    BY <2>1 DEF Scan!Hwm
  <2>3. CASE Scan!Hwm(q, x[1]) < x[2].key
    BY <1>1, <2>2, <2>3 DEF Beyond
  <2>4. CASE Turn(x[1]) < Turn(q.phase)
    <3>1. x[1] = p.phase \/ Turn(x[1]) < Turn(p.phase)
      BY <1>1, <1>2, <1>6, <2>1, <2>4 DEF Turn, Scan!FollowingPhase
    <3> QED
      BY <1>1, <1>3, <1>6, <3>1 DEF Beyond
  <2>5. ~(q.phase = x[1] /\ x[2].key <= q.position)
    BY <1>2, <2>1
  <2> QED
    BY <1>6, <2>3, <2>4, <2>5 DEF Beyond
<1>7. ASSUME ~full, p.phase = "RELEASE"
      PROVE  Beyond(p, x)
  BY <1>1, <1>2, <1>3, <1>7 DEF Beyond, Turn
<1> QED
  BY <1>5, <1>6, <1>7 DEF p, top, full

LEMMA PagedPlaces ==
  ASSUME NEW p \in Scan!Place, {p.edge_hwm, p.node_hwm} \subseteq Nat, NEW k \in Nat, NEW q,
         \/ q = [p EXCEPT !.position = k]
         \/ q = [p EXCEPT !.phase = Scan!FollowingPhase(@), !.position = 0]
  PROVE  q \in Scan!Place /\ {q.edge_hwm, q.node_hwm} \subseteq Nat
<1> DEFINE following == Scan!FollowingPhase(p.phase)
<1>1. following \in Scan!Phases
  BY DEF Scan!FollowingPhase, Scan!Phases
<1> HIDE DEF following
<1>2. CASE q = [p EXCEPT !.position = k]
  BY <1>2 DEF Scan!Place
<1>3. CASE q = [p EXCEPT !.phase = Scan!FollowingPhase(@), !.position = 0]
  <2>1. q = [p EXCEPT !.phase = following, !.position = 0]
    BY <1>3 DEF following
  <2> QED
    BY <1>1, <2>1 DEF Scan!Place
<1> QED
  BY <1>2, <1>3

\* A visit of a tick: its workflow, and what is known of its places.
LEMMA VisitHolds ==
  ASSUME ScanHolds, NEW t \in Visitors, Visits(visit[t])
  PROVE  /\ visit[t] \in Scan!Visit /\ VisitOK(visit[t])
         /\ Scan!Flow(t) = VisitedFlow(visit[t]) /\ Scan!Flow(t) \in Scan!Flows
         /\ visit[t].stored \in Scan!Place /\ PlaceOK(visit[t].stored)
         /\ visit[t].place \in Scan!Place /\ PlaceOK(visit[t].place)
         /\ NoOverlap => visit[t].stored = scan[Scan!Flow(t)]
<1>1. visit[t] \in Scan!Visit /\ VisitOK(visit[t])
  BY ScanTypes DEF ScanHolds
<1>2. visit[t].visited < ScanFlow /\ PlaceOK(visit[t].stored) /\ PlaceOK(visit[t].place)
  BY <1>1 DEF VisitOK, Visits, PlaceOK
<1>3. Scan!Flow(t) = VisitedFlow(visit[t])
  BY DEF Scan!Flow, VisitedFlow
<1>4. NoOverlap => visit[t].stored = scan[Scan!Flow(t)]
  BY <1>3 DEF ScanHolds
<1> QED
  BY <1>1, <1>2, <1>3, <1>4, VisitTypes, VisitedIsAFlow

\* A visit stops part-way.
LEMMA ScanStopVisit ==
  ASSUME ScanHolds, NEW t \in Visitors, Scan!StopVisit(t)
  PROVE  ScanHolds'
<1> DEFINE v == visit[t]
<1>1. v.at = "paging" /\ UNCHANGED <<status, scan, after, crashes, since, stores>>
  BY DEF Scan!StopVisit
<1>2. Visits(v) /\ v \in Scan!Visit /\ VisitOK(v)
  BY <1>1, VisitHolds DEF Visits
<1>3. PICK n : /\ visit' = [visit EXCEPT ![t] = n]
               /\ \/ n = Scan!EndsVisit(v)
                  \/ n = [v EXCEPT !.at = "storing", !.pages = VISIT_PAGES]
  BY DEF Scan!StopVisit, Scan!Becomes
<1>4. /\ n \in Scan!Visit /\ VisitOK(n)
      /\ \A x \in Scan!Reads : MayMiss(n, x) => MayMiss(v, x)
      /\ NoOverlap /\ Visits(n) => n.stored = scan[VisitedFlow(n)]
  <2>1. CASE n = Scan!EndsVisit(v)
    <3>1. /\ n \in Scan!Visit /\ VisitOK(n) /\ n.at = "round"
          /\ \A x \in Scan!Reads : MayMiss(n, x) => MayMiss(v, x)
      BY <1>2, <2>1, ScanEndsVisit
    <3> QED
      BY <3>1 DEF Visits
  <2>2. CASE n = [v EXCEPT !.at = "storing", !.pages = VISIT_PAGES]
    <3>1. VISIT_PAGES \in 0 .. VISIT_PAGES
      BY ScanFacts
    <3>2. /\ n \in Scan!Visit /\ n.at = "storing" /\ n.start = v.start /\ n.visited = v.visited
          /\ n.edges = v.edges /\ n.nodes = v.nodes /\ n.place = v.place /\ n.stored = v.stored
      BY <1>2, <2>2, <3>1 DEF Scan!Visit
    <3>3. PlaceOK(v.place) /\ v.place # Scan!AT_REST
      BY <1>1, <1>2, Marked DEF VisitOK, PlaceOK
    <3>4. VisitOK(n) /\ Visits(n) /\ VisitedFlow(n) = VisitedFlow(v)
      BY <1>1, <1>2, <3>2, <3>3 DEF VisitOK, Visits, VisitedFlow
    <3>5. \A x \in Scan!Reads : MayMiss(n, x) => MayMiss(v, x)
      BY <1>2, <3>2, <3>4 DEF MayMiss, ReadPast, IsTooOld, MarkOf
    <3> QED
      BY <1>2, <3>2, <3>4, <3>5, VisitHolds
  <2> QED
    BY <1>3, <2>1, <2>2
<1> QED
  BY <1>1, <1>3, <1>4, ScanTypes, ScanGoesOnAlone

\* A visit reads on: it is beyond no open row it has not read that it was not beyond.
LEMMA ScanReadsOn ==
  ASSUME ScanHolds, NEW t \in Visitors, Visits(visit[t]), NEW n \in Scan!Visit, VisitOK(n), Visits(n),
         visit' = [visit EXCEPT ![t] = n], UNCHANGED <<status, scan, after, crashes, stores>>,
         since' \in [Scan!Reads -> Nat],
         n.start = visit[t].start, n.visited = visit[t].visited, n.stored = visit[t].stored,
         n.edges = visit[t].edges, n.nodes = visit[t].nodes,
         \A x \in Scan!Reads : status[x[2]] # "open" => since'[x] = 0,
         \A x \in Scan!Reads : status[x[2]] = "open" =>
           \/ since'[x] = 0
           \/ /\ since'[x] = since[x]
              /\ x[2].flow = Scan!Flow(t) /\ (n.place = Scan!AT_REST \/ Beyond(n.place, x))
                   => Beyond(visit[t].place, x)
  PROVE  ScanHolds'
<1> DEFINE v == visit[t]
<1>1. /\ v \in Scan!Visit /\ VisitedFlow(n) = VisitedFlow(v) /\ Scan!Flow(t) = VisitedFlow(v)
      /\ NoOverlap => v.stored = scan[VisitedFlow(v)]
  BY VisitHolds DEF VisitedFlow
<1>2. \A x \in Scan!Reads : Past(x)' = Past(x) /\ Past(x) \in 0 .. 1
  BY DEF Past, Beyond, Turn
<1>3. ASSUME NEW x \in Scan!Reads, status[x[2]] = "open"
      PROVE  Told(t, n, x, Past(x)')
  <2>1. CASE since'[x] = 0
    BY <2>1 DEF Told
  <2>2. CASE /\ since'[x] = since[x]
             /\ x[2].flow = Scan!Flow(t) /\ (n.place = Scan!AT_REST \/ Beyond(n.place, x))
                  => Beyond(v.place, x)
    <3>1. ReadPast(n, x) => ReadPast(v, x)
      BY <1>1, <2>2 DEF ReadPast
    <3>2. IsTooOld(n, x) => IsTooOld(v, x)
      BY DEF IsTooOld, MarkOf
    <3> QED
      BY <1>2, <2>2, <3>1, <3>2 DEF Told, MayMiss
  <2> QED
    BY <1>3, <2>1, <2>2
<1>4. /\ scan' \in [Scan!Flows -> Scan!Place] /\ \A f \in Scan!Flows : PlaceOK(scan'[f])
      /\ crashes' \in 0 .. MaxCrashes /\ stores' \in [Scan!Flows -> Nat]
  BY ScanTypes DEF ScanHolds
<1>5. NoOverlap /\ Visits(n) => n.stored = scan'[VisitedFlow(n)]
  BY <1>1
<1> QED
  BY <1>3, <1>4, <1>5, ScanGoesOn

\* A page that comes back: the tick reads on, or its pass ends.
LEMMA ScanReadPage ==
  ASSUME ScanHolds, NEW t \in Visitors, Scan!ReadPage(t)
  PROVE  ScanHolds'
<1> DEFINE v == visit[t]
           following == [v.place EXCEPT !.phase = Scan!FollowingPhase(@), !.position = 0]
<1>1. /\ v.at = "paging" /\ v.pages < VISIT_PAGES
      /\ UNCHANGED <<status, scan, after, crashes, stores>>
  BY DEF Scan!ReadPage
<1>2. PICK page \in SUBSET Scan!Ahead(t) :
        LET read == [v EXCEPT !.pages = @ + 1]
            full == Scan!Cardinality(page) = BACKSTOP_PAGE
            over == ~full /\ v.place.phase = "RELEASE"
        IN  /\ Scan!IsPageOf(page, Scan!Ahead(t))
            /\ since' = [x \in Scan!Reads |->
                 IF x[1] = v.place.phase /\ x[2] \in page THEN 0
                 ELSE IF over /\ v.stored = Scan!AT_REST /\ Scan!EndsPass(t, x) THEN since[x] + 1
                 ELSE since[x]]
            /\ visit' = [visit EXCEPT ![t] =
                 IF full THEN [read EXCEPT !.at = "storing",
                                !.place.position = Scan!Highest({r.key : r \in page})]
                 ELSE IF ~over THEN [read EXCEPT !.place.phase = Scan!FollowingPhase(@),
                                                 !.place.position = 0]
                 ELSE IF v.stored = Scan!AT_REST THEN Scan!EndsVisit(v)
                 ELSE [read EXCEPT !.at = "storing", !.place = Scan!AT_REST]]
  BY DEF Scan!ReadPage, Scan!Becomes
<1> DEFINE full == Scan!Cardinality(page) = BACKSTOP_PAGE
           top == Scan!Highest({r.key : r \in page})
           over == ~full /\ v.place.phase = "RELEASE"
           HasRead(x) == x[1] = v.place.phase /\ x[2] \in page
<1>3. /\ Visits(v) /\ v \in Scan!Visit /\ VisitOK(v)
      /\ Scan!Flow(t) = VisitedFlow(v) /\ Scan!Flow(t) \in Scan!Flows
      /\ NoOverlap => v.stored = scan[Scan!Flow(t)]
  BY <1>1, VisitHolds DEF Visits
<1>4. /\ v.place \in Scan!Place /\ {v.place.edge_hwm, v.place.node_hwm} \subseteq Nat
      /\ v.stored \in Scan!Place /\ PlaceOK(v.stored) /\ v.pages + 1 \in 0 .. VISIT_PAGES
  BY <1>1, <1>3, VisitTypes, ScanFacts DEF VisitOK
<1>5. top \in Nat
  <2>1. page \in SUBSET ScanRows
    BY DEF Scan!Ahead
  <2> QED
    BY <2>1, HighestKey
<1>6. since' = [x \in Scan!Reads |->
        IF HasRead(x) THEN 0
        ELSE IF over /\ v.stored = Scan!AT_REST /\ Scan!EndsPass(t, x) THEN since[x] + 1
        ELSE since[x]]
  BY <1>2
<1>7. ASSUME NEW x \in Scan!Reads, status[x[2]] = "open", x[2].flow = Scan!Flow(t), ~HasRead(x)
      PROVE  /\ \A q : full /\ q = [v.place EXCEPT !.position = top] /\ Beyond(q, x)
                       => Beyond(v.place, x)
             /\ \A q : ~full /\ ~over /\ q = following /\ Beyond(q, x) => Beyond(v.place, x)
             /\ over => Beyond(v.place, x)
  BY <1>1, <1>2, <1>7, PageLeadsTo
<1>8. /\ since' \in [Scan!Reads -> Nat]
      /\ \A x \in Scan!Reads : status[x[2]] # "open" => since'[x] = 0
  <2>1. \A x \in Scan!Reads : since[x] \in Nat /\ (status[x[2]] # "open" => since[x] = 0)
    BY ScanTypes DEF ScanHolds
  <2> HIDE DEF HasRead, over
  <2> QED
    BY <1>6, <2>1 DEF Scan!EndsPass
<1>9. PICK n, q :
         /\ visit' = [visit EXCEPT ![t] = n]
         /\ \/ /\ full /\ q = [v.place EXCEPT !.position = top]
               /\ n = [v EXCEPT !.pages = v.pages + 1, !.at = "storing", !.place = q]
            \/ /\ ~full /\ ~over /\ q = following
               /\ n = [v EXCEPT !.pages = v.pages + 1, !.place = q]
            \/ over /\ v.stored = Scan!AT_REST /\ n = Scan!EndsVisit(v)
            \/ /\ over /\ v.stored # Scan!AT_REST /\ q = Scan!AT_REST
               /\ n = [v EXCEPT !.pages = v.pages + 1, !.at = "storing", !.place = q]
  <2> DEFINE read == [v EXCEPT !.pages = @ + 1]
  <2>1. CASE full
    <3>1. visit' = [visit EXCEPT ![t] = [read EXCEPT !.at = "storing", !.place.position = top]]
      BY <1>2, <2>1
    <3>2. [read EXCEPT !.at = "storing", !.place.position = top]
            = [v EXCEPT !.pages = v.pages + 1, !.at = "storing",
                        !.place = [v.place EXCEPT !.position = top]]
      BY <1>3 DEF Scan!Visit
    <3> QED
      BY <2>1, <3>1, <3>2
  <2>2. CASE ~full /\ ~over
    <3>1. visit' = [visit EXCEPT ![t] = [read EXCEPT !.place.phase = Scan!FollowingPhase(@),
                                                     !.place.position = 0]]
      BY <1>2, <2>2
    <3>2. [read EXCEPT !.place.phase = Scan!FollowingPhase(@), !.place.position = 0]
            = [v EXCEPT !.pages = v.pages + 1, !.place = following]
      BY <1>3 DEF Scan!Visit
    <3> QED
      BY <2>2, <3>1, <3>2
  <2>3. CASE over /\ v.stored = Scan!AT_REST
    BY <1>2, <2>3
  <2>4. CASE over /\ v.stored # Scan!AT_REST
    <3>1. visit' = [visit EXCEPT ![t] = [read EXCEPT !.at = "storing", !.place = Scan!AT_REST]]
      BY <1>2, <2>4
    <3>2. [read EXCEPT !.at = "storing", !.place = Scan!AT_REST]
            = [v EXCEPT !.pages = v.pages + 1, !.at = "storing", !.place = Scan!AT_REST]
      BY <1>3 DEF Scan!Visit
    <3> QED
      BY <2>4, <3>1, <3>2
  <2> QED
    BY <2>1, <2>2, <2>3, <2>4
<1> HIDE DEF v, full, top, following, over, HasRead
<1>10. CASE over /\ v.stored = Scan!AT_REST /\ n = Scan!EndsVisit(v)
  <2>1. /\ n \in Scan!Visit /\ n.at = "round" /\ VisitOK(n)
        /\ \A x \in Scan!Reads : /\ MayMiss(n, x) => MayMiss(v, x)
                                 /\ x[2].flow = VisitedFlow(v) => ~MayMiss(n, x)
    BY <1>3, <1>10, ScanEndsVisit
  <2>2. ASSUME NEW x \in Scan!Reads, status[x[2]] = "open"
        PROVE  Told(t, n, x, Past(x)')
    <3>1. Past(x)' = Past(x) /\ Past(x) \in 0 .. 1
      BY <1>1 DEF Past, Beyond, Turn
    <3>2. CASE HasRead(x)
      BY <1>6, <3>2 DEF Told
    <3>3. CASE ~HasRead(x) /\ x[2].flow # Scan!Flow(t)
      <4>1. since'[x] = since[x]
        BY <1>6, <3>3 DEF Scan!EndsPass
      <4> QED
        BY <2>1, <3>1, <4>1 DEF Told, v
    <3>4. CASE ~HasRead(x) /\ x[2].flow = Scan!Flow(t)
      <4>1. since'[x] = since[x] + 1
        BY <1>6, <1>10, <2>2, <3>4 DEF Scan!EndsPass
      <4>2. ~Beyond(v.stored, x)
        BY <1>10 DEF Beyond
      <4>3. MayMiss(v, x)
        BY <1>3, <1>7, <1>10, <2>2, <3>4, <4>2 DEF MayMiss, ReadPast
      <4>4. NoOverlap => Past(x)' = 0
        BY <1>3, <3>1, <3>4, <4>2 DEF Past
      <4>5. ~MayMiss(n, x)
        BY <1>3, <2>1, <3>4
      <4> QED
        BY <3>1, <4>1, <4>3, <4>4, <4>5 DEF Told, v
    <3> QED
      BY <3>2, <3>3, <3>4
  <2>3. ~Visits(n)
    BY <2>1 DEF Visits
  <2>4. /\ scan' \in [Scan!Flows -> Scan!Place] /\ \A f \in Scan!Flows : PlaceOK(scan'[f])
        /\ crashes' \in 0 .. MaxCrashes /\ stores' \in [Scan!Flows -> Nat]
    BY <1>1, ScanTypes DEF ScanHolds
  <2> QED
    BY <1>1, <1>8, <1>9, <2>1, <2>2, <2>3, <2>4, ScanGoesOn
<1>11. CASE ~(over /\ v.stored = Scan!AT_REST /\ n = Scan!EndsVisit(v))
  <2>7. q = following => q \in Scan!Place /\ {q.edge_hwm, q.node_hwm} \subseteq Nat
    <3> SUFFICES ASSUME q = following
                 PROVE  q \in Scan!Place /\ {q.edge_hwm, q.node_hwm} \subseteq Nat
      OBVIOUS
    <3>1. q = [v.place EXCEPT !.phase = Scan!FollowingPhase(@), !.position = 0]
      BY DEF following
    <3> QED
      BY <1>4, <3>1, PagedPlaces
  <2>1. q \in Scan!Place /\ (q = Scan!AT_REST \/ {q.edge_hwm, q.node_hwm} \subseteq Nat)
    <3>1. q = [v.place EXCEPT !.position = top] =>
            q \in Scan!Place /\ {q.edge_hwm, q.node_hwm} \subseteq Nat
      BY <1>4, <1>5, PagedPlaces
    <3> QED
      BY <1>9, <1>11, <2>7, <3>1, PlaceTypes
  <2>2. /\ n \in Scan!Visit /\ n.place = q
        /\ n.start = v.start /\ n.visited = v.visited /\ n.stored = v.stored
        /\ n.edges = v.edges /\ n.nodes = v.nodes
        /\ n.at \in {"paging", "storing"}
        /\ n.at = "paging" => {q.edge_hwm, q.node_hwm} \subseteq Nat
        /\ q = Scan!AT_REST => n.at = "storing" /\ v.stored # Scan!AT_REST
    <3>1. CASE /\ full /\ q = [v.place EXCEPT !.position = top]
               /\ n = [v EXCEPT !.pages = v.pages + 1, !.at = "storing", !.place = q]
      <4>1. {q.edge_hwm, q.node_hwm} \subseteq Nat
        BY <1>4, <1>5, <3>1, PagedPlaces
      <4>2. q # Scan!AT_REST
        BY <4>1, Marked
      <4> QED
        BY <1>3, <1>4, <2>1, <3>1, <4>2 DEF Scan!Visit
    <3>2. CASE /\ ~full /\ ~over /\ q = following
               /\ n = [v EXCEPT !.pages = v.pages + 1, !.place = q]
      <4>1. {q.edge_hwm, q.node_hwm} \subseteq Nat
        BY <2>7, <3>2
      <4>2. q # Scan!AT_REST
        BY <4>1, Marked
      <4>3. v.at = "paging"
        BY <1>1 DEF v
      <4> QED
        BY <1>3, <1>4, <2>1, <3>2, <4>1, <4>2, <4>3 DEF Scan!Visit
    <3>3. CASE /\ over /\ v.stored # Scan!AT_REST /\ q = Scan!AT_REST
               /\ n = [v EXCEPT !.pages = v.pages + 1, !.at = "storing", !.place = q]
      BY <1>3, <1>4, <2>1, <3>3 DEF Scan!Visit
    <3> QED
      BY <1>9, <1>11, <3>1, <3>2, <3>3
  <2>3. VisitOK(n) /\ Visits(n)
    BY <1>3, <2>1, <2>2 DEF VisitOK, Visits, PlaceOK
  <2>4. ASSUME NEW x \in Scan!Reads, status[x[2]] = "open"
        PROVE  \/ since'[x] = 0
               \/ /\ since'[x] = since[x]
                  /\ x[2].flow = Scan!Flow(t) /\ (q = Scan!AT_REST \/ Beyond(q, x))
                       => Beyond(v.place, x)
    <3>1. CASE HasRead(x)
      BY <1>6, <3>1
    <3>2. CASE ~HasRead(x)
      <4>1. ~(over /\ v.stored = Scan!AT_REST)
        BY <1>9, <1>11 DEF over
      <4>2. since'[x] = since[x]
        BY <1>6, <3>2, <4>1
      <4>3. ASSUME x[2].flow = Scan!Flow(t), q = Scan!AT_REST \/ Beyond(q, x)
            PROVE  Beyond(v.place, x)
        <5>1. CASE full /\ q = [v.place EXCEPT !.position = top]
          <6>1. Beyond(q, x)
            <7>1. {q.edge_hwm, q.node_hwm} \subseteq Nat
              BY <1>4, <1>5, <5>1, PagedPlaces
            <7> QED
              BY <4>3, <7>1, Marked
          <6> QED
            BY <1>7, <2>4, <3>2, <4>3, <5>1, <6>1
        <5>2. CASE ~full /\ ~over /\ q = following
          <6>1. Beyond(q, x)
            <7>1. {q.edge_hwm, q.node_hwm} \subseteq Nat
              BY <2>7, <5>2
            <7> QED
              BY <4>3, <7>1, Marked
          <6> QED
            BY <1>7, <2>4, <3>2, <4>3, <5>2, <6>1
        <5>3. CASE over
          BY <1>7, <2>4, <3>2, <4>3, <5>3
        <5> QED
          BY <1>9, <4>1, <5>1, <5>2, <5>3
      <4> QED
        BY <4>2, <4>3
    <3> QED
      BY <3>1, <3>2
  <2>5. /\ Visits(visit[t]) /\ visit' = [visit EXCEPT ![t] = n]
        /\ n.start = visit[t].start /\ n.visited = visit[t].visited
        /\ n.stored = visit[t].stored /\ n.edges = visit[t].edges /\ n.nodes = visit[t].nodes
    BY <1>3, <1>9, <2>2 DEF v
  <2>6. ASSUME NEW x \in Scan!Reads, status[x[2]] = "open"
        PROVE  \/ since'[x] = 0
               \/ /\ since'[x] = since[x]
                  /\ x[2].flow = Scan!Flow(t) /\ (n.place = Scan!AT_REST \/ Beyond(n.place, x))
                       => Beyond(visit[t].place, x)
    BY <2>2, <2>4, <2>6 DEF v
  <2> QED
    BY <1>1, <1>8, <2>2, <2>3, <2>5, <2>6, ScanReadsOn
<1> QED
  BY <1>10, <1>11

\* A place is stored, or the end of a pass: the ticks that read on from an earlier place
\* are those that may miss the row.
LEMMA ScanStoreScan ==
  ASSUME ScanHolds, NEW t \in Visitors, Scan!StoreScan(t)
  PROVE  ScanHolds'
<1> DEFINE v == visit[t]
           flow == Scan!Flow(t)
           over == v.place = Scan!AT_REST
           wins == scan[flow] = v.stored
<1>1. /\ v.at = "storing" /\ UNCHANGED <<status, after, crashes, stores>>
      /\ scan' = IF wins THEN [scan EXCEPT ![flow] = v.place] ELSE scan
      /\ since' = [x \in Scan!Reads |->
           IF wins /\ over /\ Scan!EndsPass(t, x) THEN since[x] + 1 ELSE since[x]]
  BY DEF Scan!StoreScan, Scan!Wins
<1>2. PICK n : /\ visit' = [visit EXCEPT ![t] = n]
               /\ n = IF wins /\ ~over THEN [v EXCEPT !.at = "paging", !.stored = v.place]
                      ELSE Scan!EndsVisit(v)
  BY DEF Scan!StoreScan, Scan!Becomes, Scan!Wins
<1>3. /\ Visits(v) /\ v \in Scan!Visit /\ VisitOK(v)
      /\ flow = VisitedFlow(v) /\ flow \in Scan!Flows
      /\ v.place \in Scan!Place /\ PlaceOK(v.place)
      /\ NoOverlap => wins
  BY <1>1, VisitHolds DEF Visits
<1>4. /\ scan' \in [Scan!Flows -> Scan!Place] /\ scan \in [Scan!Flows -> Scan!Place]
      /\ \A f \in Scan!Flows : PlaceOK(scan'[f]) /\ (f # flow \/ ~wins => scan'[f] = scan[f])
      /\ wins => scan'[flow] = v.place
  <2> HIDE DEF v, flow, wins
  <2>1. scan \in [Scan!Flows -> Scan!Place] /\ \A f \in Scan!Flows : PlaceOK(scan[f])
    BY ScanTypes DEF ScanHolds
  <2> QED
    BY <1>1, <1>3, <2>1
<1>5. /\ since' \in [Scan!Reads -> Nat]
      /\ \A x \in Scan!Reads : status[x[2]] # "open" => since'[x] = 0
  <2>1. \A x \in Scan!Reads : since[x] \in Nat /\ (status[x[2]] # "open" => since[x] = 0)
    BY ScanTypes DEF ScanHolds
  <2> HIDE DEF wins, over
  <2> QED
    BY <1>1, <2>1 DEF Scan!EndsPass
<1>6. ASSUME NEW x \in Scan!Reads
      PROVE  /\ Past(x) \in 0 .. 1 /\ (Past(x) = 1 <=> Beyond(scan[x[2].flow], x))
             /\ Past(x)' \in 0 .. 1 /\ (Past(x)' = 1 <=> Beyond(scan'[x[2].flow], x))
             /\ x[2].flow # flow \/ ~wins => Past(x)' = Past(x)
  <2>1. x[2].flow \in Scan!Flows
    BY ReadFacts
  <2>2. Past(x)' = IF Beyond(scan'[x[2].flow], x) THEN 1 ELSE 0
    BY DEF Past, Beyond, Turn
  <2> HIDE DEF wins, flow
  <2> QED
    BY <1>4, <2>1, <2>2 DEF Past
<1>7. crashes' \in 0 .. MaxCrashes /\ stores' \in [Scan!Flows -> Nat]
  BY <1>1, ScanTypes
<1> HIDE DEF v, flow, over, wins
<1>8. CASE wins /\ ~over
  <2>1. n = [v EXCEPT !.at = "paging", !.stored = v.place]
    BY <1>2, <1>8
  <2>2. /\ n \in Scan!Visit /\ n.at = "paging" /\ n.start = v.start /\ n.visited = v.visited
        /\ n.edges = v.edges /\ n.nodes = v.nodes /\ n.place = v.place /\ n.stored = v.place
    BY <1>3, <2>1 DEF Scan!Visit
  <2>3. VisitOK(n) /\ Visits(n) /\ VisitedFlow(n) = flow
    BY <1>3, <1>8, <2>2 DEF VisitOK, Visits, VisitedFlow, PlaceOK, over
  <2>4. ASSUME NEW x \in Scan!Reads, status[x[2]] = "open"
        PROVE  Told(t, n, x, Past(x)')
    <3>1. since'[x] = since[x]
      BY <1>1, <1>8
    <3>2. ~ReadPast(n, x)
      BY <1>8, <2>2 DEF ReadPast, over
    <3>3. IsTooOld(n, x) => IsTooOld(v, x) /\ x[2].flow # flow
      <4> SUFFICES ASSUME IsTooOld(n, x)
                   PROVE  IsTooOld(v, x) /\ x[2].flow # flow
        OBVIOUS
      <4>1. IsTooOld(v, x)
        BY <1>3, <2>2, <2>3 DEF IsTooOld, MarkOf
      <4>2. PICK i \in 1 .. ScanFlow :
              i > v.visited + 1 /\ Scan!Visiting(v.start, i) = x[2].flow
        BY <2>2, <2>3 DEF IsTooOld
      <4>3. v.visited + 1 \in 1 .. ScanFlow /\ v.start \in 0 .. ScanFlow
        BY <1>3, VisitTypes, ScanFacts DEF VisitOK
      <4>4. \A j \in 1 .. ScanFlow :
              Scan!Visiting(v.start, i) = Scan!Visiting(v.start, j) => i = j
        BY <4>3, ScanTurns
      <4> QED
        BY <1>3, <4>1, <4>2, <4>3, <4>4 DEF VisitedFlow
    <3>4. MayMiss(n, x) => MayMiss(v, x) /\ x[2].flow # flow
      BY <3>2, <3>3 DEF MayMiss
    <3>5. CASE Past(x)' <= Past(x)
      BY <3>1, <3>4, <3>5 DEF Told, v
    <3>6. CASE ~(Past(x)' <= Past(x))
      <4>1. /\ Past(x) = 0 /\ Past(x)' = 1 /\ x[2].flow = flow
        BY <1>6, <3>6
      <4>2. Beyond(v.place, x) /\ ~Beyond(v.stored, x)
        BY <1>4, <1>6, <1>8, <4>1 DEF wins
      <4>3. MayMiss(v, x)
        BY <1>3, <4>1, <4>2 DEF MayMiss, ReadPast
      <4> QED
        BY <3>1, <3>4, <4>1, <4>3 DEF Told, v
    <3> QED
      BY <3>5, <3>6
  <2>5. n.stored = scan'[VisitedFlow(n)]
    BY <1>4, <1>8, <2>2, <2>3
  <2> QED
    BY <1>1, <1>2, <1>4, <1>5, <1>7, <2>2, <2>3, <2>4, <2>5, ScanGoesOn
<1>9. CASE ~(wins /\ ~over)
  <2>1. n = Scan!EndsVisit(v)
    BY <1>2, <1>9
  <2>2. /\ n \in Scan!Visit /\ n.at = "round" /\ VisitOK(n)
        /\ \A x \in Scan!Reads : /\ MayMiss(n, x) => MayMiss(v, x)
                                 /\ x[2].flow = flow => ~MayMiss(n, x)
    BY <1>3, <2>1, ScanEndsVisit
  <2>3. ~Visits(n)
    BY <2>2 DEF Visits
  <2>4. ASSUME NEW x \in Scan!Reads, status[x[2]] = "open"
        PROVE  Told(t, n, x, Past(x)')
    <3>1. CASE ~wins \/ x[2].flow # flow
      <4>1. since'[x] = since[x] /\ Past(x)' = Past(x)
        BY <1>1, <1>6, <3>1 DEF Scan!EndsPass, flow
      <4> QED
        BY <1>6, <2>2, <4>1 DEF Told, v
    <3>2. CASE wins /\ x[2].flow = flow
      <4>1. over /\ v.place = Scan!AT_REST
        BY <1>9, <3>2 DEF over
      <4>2. since'[x] = since[x] + 1
        BY <1>1, <2>4, <3>2, <4>1 DEF Scan!EndsPass, flow
      <4>3. Past(x)' = 0
        BY <1>4, <1>6, <3>2, <4>1 DEF Beyond
      <4>4. ~MayMiss(n, x)
        BY <2>2, <3>2
      <4>5. CASE Past(x) = 1
        BY <4>2, <4>3, <4>4, <4>5 DEF Told
      <4>6. CASE Past(x) = 0
        <5>1. ~Beyond(v.stored, x)
          BY <1>6, <3>2, <4>6 DEF wins
        <5>2. MayMiss(v, x)
          BY <1>3, <3>2, <4>1, <5>1 DEF MayMiss, ReadPast
        <5> QED
          BY <4>2, <4>3, <4>4, <4>6, <5>2 DEF Told, v
      <4> QED
        BY <1>6, <4>5, <4>6
    <3> QED
      BY <3>1, <3>2
  <2> QED
    BY <1>1, <1>2, <1>4, <1>5, <1>7, <2>2, <2>3, <2>4, ScanGoesOn
<1> QED
  BY <1>8, <1>9

-----------------------------------------------------------------------------
LEMMA ScanStart == Scan!Init => ScanHolds
<1> SUFFICES ASSUME Scan!Init
             PROVE  ScanHolds
  OBVIOUS
<1>1. /\ status \in [ScanRows -> {"absent", "open"}]
      /\ scan = [f \in Scan!Flows |-> Scan!AT_REST] /\ after = 0
      /\ visit = [t \in Visitors |-> Scan!NoRound] /\ crashes = 0
      /\ since = [x \in Scan!Reads |-> 0] /\ stores = [f \in Scan!Flows |-> 0]
  BY DEF Scan!Init
<1>2. \A t \in Visitors : visit[t] \in Scan!Visit /\ VisitOK(visit[t]) /\ ~Visits(visit[t])
  BY <1>1, ScanIdle DEF Visits
<1>3. Scan!TypeOK
  <2>1. Scan!AT_REST \in Scan!Place /\ 0 \in 0 .. ScanFlow /\ 0 \in 0 .. MaxCrashes
    BY PlaceTypes, ScanFacts
  <2>2. visit \in [Visitors -> Scan!Visit]
    BY <1>1, <1>2
  <2>3. status \in [ScanRows -> {"absent", "open", "closed"}]
    BY <1>1
  <2> QED
    BY <1>1, <2>1, <2>2, <2>3 DEF Scan!TypeOK
<1>4. \A f \in Scan!Flows : PlaceOK(scan[f])
  BY <1>1, PlaceTypes
<1>5. \A x \in Scan!Reads : (status[x[2]] # "open" => since[x] = 0) /\ PassesOK(x)
  BY <1>1 DEF PassesOK
<1> QED
  BY <1>2, <1>3, <1>4, <1>5 DEF ScanHolds

LEMMA ScanNext ==
  ASSUME ScanHolds, [Scan!ScanNext]_backstop
  PROVE  ScanHolds'
<1>1. CASE UNCHANGED backstop
  BY <1>1 DEF backstop, ScanHolds, Scan!TypeOK, PlaceOK, VisitOK, Visits, NoOverlap, VisitedFlow,
       PassesOK, Missing, MayMiss, ReadPast, IsTooOld, MarkOf, Beyond, Past, Turn
<1>2. ASSUME NEW t \in Visitors, Scan!TickStep(t)
      PROVE  ScanHolds'
  BY <1>2, ScanBeginRound, ScanBeginVisit, ScanEndRound, ScanMoveRound, ScanReadPage,
     ScanStopVisit, ScanStoreScan DEF Scan!TickStep
<1>3. ASSUME NEW t \in Visitors, Scan!TickDies(t)
      PROVE  ScanHolds'
  BY <1>3, ScanTickDies
<1>4. ASSUME NEW r \in ScanRows, Scan!AddRow(r) \/ Scan!CloseRow(r)
      PROVE  ScanHolds'
  BY <1>4, ScanRowsChange
<1> QED
  BY <1>1, <1>2, <1>3, <1>4 DEF Scan!ScanNext

\* The inductive invariant, over the behaviours of the run's that are of the scan.
THEOREM ScanInvariant == PartSpec => [](part = "scan" => ScanHolds)
<1>1. PartInit => (part = "scan" => ScanHolds)
  BY ScanStart DEF PartInit
<1>2. /\ part = "scan" => ScanHolds
      /\ [PartNext]_<<part, vars, batches, admission, outcome, backstop>>
      => (part = "scan" => ScanHolds)'
  <2> SUFFICES ASSUME part = "scan" => ScanHolds,
                      [PartNext]_<<part, vars, batches, admission, outcome, backstop>>,
                      part' = "scan"
               PROVE  ScanHolds'
    OBVIOUS
  <2>1. part = "scan"
    BY DEF PartNext
  <2>2. ScanHolds /\ [Scan!ScanNext]_backstop
    BY <2>1 DEF PartNext
  <2> QED
    BY <2>2, ScanNext
<1> QED
  BY <1>1, <1>2, PTL DEF PartSpec

\* Every variable of the part keeps its type.
THEOREM ScanTypeCorrect == PartSpec => [](part = "scan" => Scan!TypeOK)
<1>1. (part = "scan" => ScanHolds) => (part = "scan" => Scan!TypeOK)
  BY DEF ScanHolds
<1> QED
  BY <1>1, ScanInvariant, PTL

-----------------------------------------------------------------------------
(* The round of the backstop.                                              *)

\* A tick, of which only its round is told: whatever its visit holds.
IsVisit(v) ==
  /\ v \in [at : {"idle", "round", "paging", "storing", "moving"},
           start : 0 .. RoundFlow, visited : 0 .. RoundFlow, edges : {v.edges}, nodes : {v.nodes},
           fresh : BOOLEAN, place : {v.place}, stored : {v.stored}, pages : {v.pages}]
  /\ v.at = "moving" => v.visited > 0
  /\ Visits(v) => v.visited < RoundFlow

\* While nobody has moved the round, what it has visited was visited since it last moved.
FreshOK(v) ==
  v.at # "idle" /\ v.fresh =>
    /\ v.start = after
    /\ \A i \in 1 .. RoundFlow :
         i <= v.visited \/ (Visits(v) /\ i = v.visited + 1) => stores[Round!Visiting(after, i)] = 0

\* How far the round is before a workflow.
Distance(f) == IF f > after THEN f - after ELSE f - after + RoundFlow

\* A workflow is reached before the round has moved more often than it is far.
RoundHolds ==
  /\ after \in 0 .. RoundFlow /\ stores \in [Round!Flows -> Nat]
  /\ visit = [t \in Visitors |-> visit[t]]
  /\ \A t \in Visitors : IsVisit(visit[t]) /\ FreshOK(visit[t])
  /\ \A f \in Round!Flows : stores[f] + Distance(f) <= RoundFlow + 1

LEMMA RoundFacts == RoundFlow \in Nat \ {0} /\ Round!Flows = 1 .. RoundFlow
BY RoundAssumption DEF Round!Parameters, Round!Flows

\* The workflow at each distance, and the distance of each.
LEMMA RoundTurns ==
  ASSUME after \in 0 .. RoundFlow
  PROVE  /\ \A i \in 1 .. RoundFlow : /\ Round!Visiting(after, i) \in Round!Flows
                                      /\ Distance(Round!Visiting(after, i)) = i
         /\ \A f \in Round!Flows : /\ Distance(f) \in 1 .. RoundFlow
                                   /\ Round!Visiting(after, Distance(f)) = f
BY RoundFacts DEF Round!Visiting, Distance

\* A tick with nothing in progress, and one whose visit ended.
LEMMA RoundIdle ==
  ASSUME NEW n, n = Round!NoRound
  PROVE  IsVisit(n) /\ n.at = "idle"
BY RoundFacts DEF IsVisit, Visits, Round!NoRound

LEMMA RoundEndsVisit ==
  ASSUME NEW v, IsVisit(v), Visits(v), NEW n, n = Round!EndsVisit(v)
  PROVE  /\ IsVisit(n) /\ n.at = "round" /\ n.visited = v.visited + 1
         /\ n.start = v.start /\ n.fresh = v.fresh
<1>1. v.visited + 1 \in 0 .. RoundFlow
  BY RoundFacts DEF IsVisit
<1>2. n = [v EXCEPT !.at = "round", !.visited = v.visited + 1, !.place = Round!AT_REST,
                    !.stored = Round!AT_REST, !.pages = 0]
  BY DEF Round!EndsVisit
<1> QED
  BY <1>1, <1>2 DEF IsVisit, Visits

LEMMA RoundStart == Round!Init => RoundHolds
<1> SUFFICES ASSUME Round!Init
             PROVE  RoundHolds
  OBVIOUS
<1>1. after = 0 /\ \A f \in Round!Flows : stores[f] = 0
  BY DEF Round!Init
<1>2. \A t \in Visitors : visit[t] = Round!NoRound
  BY DEF Round!Init
<1>3. \A t \in Visitors : IsVisit(visit[t]) /\ FreshOK(visit[t])
  BY <1>2, RoundIdle DEF FreshOK
<1>4. \A f \in Round!Flows : stores[f] + Distance(f) <= RoundFlow + 1
  BY <1>1, RoundFacts DEF Distance
<1>5. after \in 0 .. RoundFlow /\ stores \in [Round!Flows -> Nat]
  BY <1>1, RoundFacts DEF Round!Init
<1>6. visit = [t \in Visitors |-> visit[t]]
  BY DEF Round!Init
<1> QED
  BY <1>3, <1>4, <1>5, <1>6 DEF RoundHolds

\* One tick goes on, and workflows are visited.
LEMMA RoundGoesOn ==
  ASSUME RoundHolds, NEW t \in Visitors, NEW n,
         visit' = [visit EXCEPT ![t] = n], after' = after,
         stores' \in [Round!Flows -> Nat],
         \A f \in Round!Flows : stores'[f] = 0 \/ stores'[f] = stores[f],
         IsVisit(n), FreshOK(n)'
  PROVE  RoundHolds'
<1>1. visit' = [u \in Visitors |-> visit'[u]] /\ visit'[t] = n
      /\ \A u \in Visitors \ {t} : visit'[u] = visit[u]
  BY DEF RoundHolds
<1>2. \A u \in Visitors : IsVisit(visit'[u])
  BY <1>1 DEF RoundHolds
<1>3. ASSUME NEW u \in Visitors \ {t}
      PROVE  FreshOK(visit[u])'
  <2>1. FreshOK(visit[u]) /\ visit'[u] = visit[u] /\ after \in 0 .. RoundFlow
    BY <1>1 DEF RoundHolds
  <2> QED
    BY <2>1, RoundTurns DEF FreshOK
<1>4. \A u \in Visitors : FreshOK(visit[u])'
  BY <1>1, <1>3
<1>5. \A f \in Round!Flows : stores'[f] + Distance(f)' <= RoundFlow + 1
  <2> SUFFICES ASSUME NEW f \in Round!Flows
               PROVE  stores'[f] + Distance(f)' <= RoundFlow + 1
    OBVIOUS
  <2>1. /\ Distance(f)' = Distance(f) /\ Distance(f) \in 1 .. RoundFlow
        /\ stores[f] + Distance(f) <= RoundFlow + 1
        /\ after \in 0 .. RoundFlow
    BY RoundTurns DEF Distance, RoundHolds
  <2> QED
    BY <2>1, RoundFacts
<1>6. \A u \in Visitors : IsVisit(visit[u])'
  BY <1>2 DEF IsVisit, Visits
<1> QED
  BY <1>1, <1>4, <1>5, <1>6 DEF RoundHolds

\* A visit goes on, or ends: its workflow has been visited.
LEMMA RoundPagesOn ==
  ASSUME RoundHolds, NEW t \in Visitors, NEW n,
         visit' = [visit EXCEPT ![t] = n], UNCHANGED <<after, stores>>,
         Visits(visit[t]), n.start = visit[t].start, n.fresh = visit[t].fresh,
         IsVisit(n),
         \/ Visits(n) /\ n.visited = visit[t].visited
         \/ n.at = "round" /\ n.visited = visit[t].visited + 1
  PROVE  RoundHolds'
<1>1. FreshOK(n)'
  <2>1. FreshOK(visit[t]) /\ IsVisit(visit[t])
    BY DEF RoundHolds
  <2> QED
    BY <2>1, RoundFacts DEF FreshOK, Visits, IsVisit
<1>2. stores \in [Round!Flows -> Nat]
  BY DEF RoundHolds
<1> QED
  BY <1>1, <1>2, RoundGoesOn

LEMMA RoundBeginRound ==
  ASSUME RoundHolds, NEW t \in Visitors, Round!BeginRound(t)
  PROVE  RoundHolds'
<1> DEFINE edges == Round!HighestPk("edges")
           nodes == Round!HighestPk("nodes")
<1> HIDE DEF edges, nodes
<1>1. PICK n :
        /\ n = [Round!NoRound EXCEPT !.at = "round", !.start = after, !.fresh = TRUE,
                                     !.edges = edges, !.nodes = nodes]
        /\ visit' = [visit EXCEPT ![t] = n] /\ UNCHANGED <<after, stores>>
  BY DEF Round!BeginRound, Round!Becomes, edges, nodes
<1>2. after \in 0 .. RoundFlow /\ stores \in [Round!Flows -> Nat]
  BY DEF RoundHolds
<1>3. n.at = "round" /\ n.start = after /\ n.visited = 0
  BY <1>1 DEF Round!NoRound
<1>4. IsVisit(n)
  <2>1. n.fresh = TRUE
    BY <1>1 DEF Round!NoRound
  <2>2. PICK m : m = Round!NoRound
    OBVIOUS
  <2>3. IsVisit(m)
    BY <2>2, RoundIdle
  <2>4. n = [m EXCEPT !.at = "round", !.start = after, !.fresh = TRUE, !.edges = edges,
                      !.nodes = nodes]
    BY <1>1, <2>2
  <2> QED
    BY <1>2, <1>3, <2>1, <2>3, <2>4 DEF IsVisit, Visits
<1>5. FreshOK(n)'
  BY <1>1, <1>3 DEF FreshOK, Visits
<1> QED
  BY <1>1, <1>2, <1>4, <1>5, RoundGoesOn

LEMMA RoundBeginVisit ==
  ASSUME RoundHolds, NEW t \in Visitors, Round!BeginVisit(t)
  PROVE  RoundHolds'
<1> DEFINE v == visit[t]
           stored == scan[Round!Flow(t)]
           place == Round!BeginsAt(v, stored)
<1> HIDE DEF stored, place
<1>1. PICK n :
        /\ n = [v EXCEPT !.at = "paging", !.pages = 0, !.stored = stored, !.place = place]
        /\ visit' = [visit EXCEPT ![t] = n] /\ after' = after
        /\ stores' = [stores EXCEPT ![Round!Flow(t)] = 0]
        /\ v.at = "round" /\ v.visited < RoundFlow
  BY DEF Round!BeginVisit, Round!Becomes, stored, place
<1>2. IsVisit(v) /\ FreshOK(v) /\ after \in 0 .. RoundFlow /\ stores \in [Round!Flows -> Nat]
  BY DEF RoundHolds
<1>3. IsVisit(n) /\ n.at = "paging" /\ n.start = v.start /\ n.visited = v.visited
      /\ n.fresh = v.fresh
  BY <1>1, <1>2 DEF IsVisit, Visits
<1>4. stores' \in [Round!Flows -> Nat]
      /\ \A f \in Round!Flows : stores'[f] = 0 \/ stores'[f] = stores[f]
  BY <1>1, <1>2
<1>5. FreshOK(n)'
  <2> SUFFICES ASSUME n.fresh
               PROVE  /\ n.start = after'
                      /\ \A i \in 1 .. RoundFlow :
                           i <= n.visited \/ i = n.visited + 1
                             => stores'[Round!Visiting(after', i)] = 0
    BY <1>3 DEF FreshOK, Visits
  <2>1. v.start = after /\ n.start = v.start /\ n.visited = v.visited
        /\ \A i \in 1 .. RoundFlow : i <= v.visited => stores[Round!Visiting(after, i)] = 0
    BY <1>1, <1>2, <1>3 DEF FreshOK
  <2>2. Round!Flow(t) = Round!Visiting(after, v.visited + 1)
    BY <2>1 DEF Round!Flow
  <2>3. \A i \in 1 .. RoundFlow : Round!Visiting(after, i) \in Round!Flows
    BY <1>2, RoundTurns
  <2> QED
    BY <1>1, <1>2, <1>4, <2>1, <2>2, <2>3
<1> QED
  BY <1>1, <1>3, <1>4, <1>5, RoundGoesOn

LEMMA RoundEndRound ==
  ASSUME RoundHolds, NEW t \in Visitors, Round!EndRound(t)
  PROVE  RoundHolds'
<1> DEFINE v == visit[t]
<1>1. PICK n :
      /\ n = IF v.visited = RoundFlow THEN Round!NoRound ELSE [v EXCEPT !.at = "moving"]
      /\ visit' = [visit EXCEPT ![t] = n] /\ UNCHANGED <<after, stores>>
      /\ v.at = "round" /\ v.visited > 0
  BY DEF Round!EndRound, Round!Becomes
<1>2. IsVisit(v) /\ FreshOK(v) /\ stores \in [Round!Flows -> Nat]
  BY DEF RoundHolds
<1>3. IsVisit(n) /\ FreshOK(n)'
  <2>1. CASE v.visited = RoundFlow
    BY <1>1, <2>1, RoundIdle DEF FreshOK
  <2>2. CASE v.visited # RoundFlow
    <3>1. IsVisit(n) /\ n.at = "moving" /\ n.start = v.start /\ n.visited = v.visited
          /\ n.fresh = v.fresh
      BY <1>1, <1>2, <2>2 DEF IsVisit, Visits
    <3> QED
      BY <1>1, <1>2, <3>1 DEF IsVisit, FreshOK, Visits
  <2> QED
    BY <2>1, <2>2
<1> QED
  BY <1>1, <1>2, <1>3, RoundGoesOn

\* The round moves to the last it visited: what it visited was reached, and what it did
\* not is nearer.
LEMMA RoundMoveRound ==
  ASSUME RoundHolds, NEW t \in Visitors, Round!MoveRound(t)
  PROVE  RoundHolds'
<1> DEFINE v == visit[t]
<1>1. /\ v.at = "moving"
      /\ visit' = [u \in Visitors |-> IF u = t THEN Round!NoRound
                                     ELSE [visit[u] EXCEPT !.fresh = @ /\ ~v.fresh]]
      /\ after' = (IF v.fresh THEN Round!StoppedAt(v) ELSE after)
      /\ stores' = (IF v.fresh THEN [f \in Round!Flows |-> stores[f] + 1] ELSE stores)
  BY DEF Round!MoveRound
<1>2. /\ IsVisit(v) /\ FreshOK(v) /\ v.visited > 0
      /\ after \in 0 .. RoundFlow /\ stores \in [Round!Flows -> Nat]
      /\ \A f \in Round!Flows : stores[f] + Distance(f) <= RoundFlow + 1
  BY <1>1 DEF RoundHolds, IsVisit
<1>3. visit' = [u \in Visitors |-> visit'[u]]
  BY <1>1
<1>4. ASSUME NEW u \in Visitors \ {t}
      PROVE  /\ IsVisit(visit'[u])
             /\ ~v.fresh => visit'[u] = visit[u]
             /\ v.fresh => ~visit'[u].fresh
  <2>1. IsVisit(visit[u]) /\ v.fresh \in BOOLEAN
    BY <1>2 DEF RoundHolds, IsVisit
  <2>2. visit'[u] = [visit[u] EXCEPT !.fresh = visit[u].fresh /\ ~v.fresh]
    BY <1>1
  <2>3. CASE v.fresh
    <3>1. (visit[u].fresh /\ ~v.fresh) = FALSE
      BY <2>3
    <3>2. PICK n : n = visit'[u] /\ n = [visit[u] EXCEPT !.fresh = FALSE]
      BY <2>2, <3>1
    <3>3. IsVisit(n) /\ n.fresh = FALSE
      BY <2>1, <3>2 DEF IsVisit, Visits
    <3> QED
      BY <2>3, <3>2, <3>3
  <2>4. CASE ~v.fresh
    <3>1. (visit[u].fresh /\ ~v.fresh) = visit[u].fresh
      BY <2>1, <2>4 DEF IsVisit
    <3>2. visit'[u] = [visit[u] EXCEPT !.fresh = visit[u].fresh]
      BY <2>2, <3>1
    <3>3. visit'[u] = visit[u]
      BY <2>1, <3>2 DEF IsVisit
    <3> QED
      BY <2>1, <2>4, <3>3
  <2> QED
    BY <2>1, <2>3, <2>4
<1>5. IsVisit(visit'[t]) /\ visit'[t].at = "idle"
  BY <1>1, RoundIdle
<1>6. \A u \in Visitors : IsVisit(visit[u])'
  <2>1. \A u \in Visitors : IsVisit(visit'[u])
    BY <1>4, <1>5
  <2> QED
    BY <2>1 DEF IsVisit, Visits
<1>7. CASE ~v.fresh
  <2>1. UNCHANGED <<after, stores>>
    BY <1>1, <1>7
  <2>2. \A f \in Round!Flows : Distance(f)' = Distance(f)
    BY <2>1 DEF Distance
  <2>3. ASSUME NEW u \in Visitors
        PROVE  FreshOK(visit[u])'
    <3>1. CASE u = t
      BY <1>5, <3>1 DEF FreshOK
    <3>2. CASE u # t
      <4>1. FreshOK(visit[u])
        BY DEF RoundHolds
      <4>2. visit'[u] = visit[u]
        BY <1>4, <1>7, <3>2
      <4> QED
        BY <2>1, <4>1, <4>2 DEF FreshOK, Visits
    <3> QED
      BY <3>1, <3>2
  <2> QED
    BY <1>2, <1>3, <1>6, <2>1, <2>2, <2>3 DEF RoundHolds
<1>8. CASE v.fresh
  <2>1. /\ v.start = after /\ v.visited \in 1 .. RoundFlow
        /\ \A i \in 1 .. RoundFlow : i <= v.visited => stores[Round!Visiting(after, i)] = 0
    BY <1>1, <1>2, <1>8 DEF FreshOK, IsVisit
  <2>2. after' = Round!Visiting(after, v.visited) /\ after' \in 0 .. RoundFlow
    <3>1. Round!Visiting(after, v.visited) \in Round!Flows
      BY <1>2, <2>1, RoundTurns
    <3> QED
      BY <1>1, <1>8, <2>1, <3>1, RoundFacts DEF Round!StoppedAt
  <2>3. stores' \in [Round!Flows -> Nat] /\ \A f \in Round!Flows : stores'[f] = stores[f] + 1
    BY <1>1, <1>2, <1>8
  <2>4. ASSUME NEW f \in Round!Flows
        PROVE  stores'[f] + Distance(f)' <= RoundFlow + 1
    <3>1. /\ Distance(f) \in 1 .. RoundFlow /\ Round!Visiting(after, Distance(f)) = f
          /\ stores[f] \in Nat /\ stores[f] + Distance(f) <= RoundFlow + 1
      BY <1>2, RoundTurns
    <3>2. CASE Distance(f) <= v.visited
      <4>1. stores'[f] = 1
        BY <2>1, <2>3, <3>1, <3>2
      <4>2. Distance(f)' \in 1 .. RoundFlow
        <5>1. \A a \in 0 .. RoundFlow :
                (IF f > a THEN f - a ELSE f - a + RoundFlow) \in 1 .. RoundFlow
          BY RoundFacts
        <5> QED
          BY <2>2, <5>1 DEF Distance
      <4> QED
        BY <4>1, <4>2, RoundFacts
    <3>3. CASE Distance(f) > v.visited
      <4>1. Distance(f)' = Distance(f) - v.visited
        <5>1. ASSUME NEW a \in 0 .. RoundFlow, NEW k \in 1 .. RoundFlow, NEW b, NEW d,
                     d = (IF f > a THEN f - a ELSE f - a + RoundFlow), k < d,
                     b = (IF a + k <= RoundFlow THEN a + k ELSE a + k - RoundFlow)
              PROVE  (IF f > b THEN f - b ELSE f - b + RoundFlow) = d - k
          BY <5>1, RoundFacts
        <5> QED
          BY <1>2, <2>1, <2>2, <3>1, <3>3, <5>1 DEF Distance, Round!Visiting
      <4>2. stores'[f] = stores[f] + 1 /\ v.visited \in 1 .. RoundFlow
        BY <2>1, <2>3
      <4> QED
        BY <3>1, <4>1, <4>2, RoundFacts
    <3> QED
      BY <2>1, <3>1, <3>2, <3>3
  <2>5. ASSUME NEW u \in Visitors
        PROVE  FreshOK(visit[u])'
    BY <1>4, <1>5, <1>8 DEF FreshOK
  <2> QED
    BY <1>3, <1>6, <2>2, <2>3, <2>4, <2>5 DEF RoundHolds
<1> QED
  BY <1>7, <1>8

LEMMA RoundReadPage ==
  ASSUME RoundHolds, NEW t \in Visitors, Round!ReadPage(t)
  PROVE  RoundHolds'
<1> DEFINE v == visit[t]
           read == [v EXCEPT !.pages = @ + 1]
<1>1. v.at = "paging" /\ UNCHANGED <<after, stores>>
  BY DEF Round!ReadPage
<1>2. PICK page \in SUBSET Round!Ahead(t) :
        LET full == Round!Cardinality(page) = BACKSTOP_PAGE
            over == ~full /\ v.place.phase = "RELEASE"
        IN  visit' = [visit EXCEPT ![t] =
              IF full THEN [read EXCEPT !.at = "storing",
                                        !.place.position = Round!Highest({r.key : r \in page})]
              ELSE IF ~over THEN [read EXCEPT !.place.phase = Round!FollowingPhase(@),
                                              !.place.position = 0]
              ELSE IF v.stored = Round!AT_REST THEN Round!EndsVisit(v)
              ELSE [read EXCEPT !.at = "storing", !.place = Round!AT_REST]]
  BY DEF Round!ReadPage, Round!Becomes
<1>3. IsVisit(v)
  BY DEF RoundHolds
<1>4. PICK n : /\ visit' = [visit EXCEPT ![t] = n]
               /\ \/ n = [read EXCEPT !.at = "storing",
                                       !.place.position = Round!Highest({r.key : r \in page})]
                  \/ n = [read EXCEPT !.place.phase = Round!FollowingPhase(@),
                                      !.place.position = 0]
                  \/ n = [read EXCEPT !.at = "storing", !.place = Round!AT_REST]
                  \/ n = Round!EndsVisit(v)
  BY <1>2
<1>5. /\ IsVisit(n) /\ n.start = v.start /\ n.fresh = v.fresh
      /\ \/ Visits(n) /\ n.visited = v.visited
         \/ n.at = "round" /\ n.visited = v.visited + 1
  <2>1. CASE n = Round!EndsVisit(v)
    BY <1>1, <1>3, <2>1, RoundEndsVisit DEF Visits
  <2>2. CASE n # Round!EndsVisit(v)
    BY <1>1, <1>3, <1>4, <2>2 DEF Visits, IsVisit
  <2> QED
    BY <2>1, <2>2
<1> QED
  BY <1>1, <1>4, <1>5, RoundPagesOn DEF Visits

LEMMA RoundStopVisit ==
  ASSUME RoundHolds, NEW t \in Visitors, Round!StopVisit(t)
  PROVE  RoundHolds'
<1> DEFINE v == visit[t]
<1>1. v.at = "paging" /\ UNCHANGED <<after, stores>> /\ IsVisit(v)
  BY DEF Round!StopVisit, RoundHolds
<1>2. PICK n : /\ visit' = [visit EXCEPT ![t] = n]
               /\ \/ n = Round!EndsVisit(v)
                  \/ n = [v EXCEPT !.at = "storing", !.pages = VISIT_PAGES]
  BY DEF Round!StopVisit, Round!Becomes
<1>3. /\ IsVisit(n) /\ n.start = v.start /\ n.fresh = v.fresh
      /\ \/ Visits(n) /\ n.visited = v.visited
         \/ n.at = "round" /\ n.visited = v.visited + 1
  <2>1. CASE n = Round!EndsVisit(v)
    BY <1>1, <2>1, RoundEndsVisit DEF Visits
  <2>2. CASE n # Round!EndsVisit(v)
    BY <1>1, <1>2, <2>2 DEF Visits, IsVisit
  <2> QED
    BY <2>1, <2>2
<1> QED
  BY <1>1, <1>2, <1>3, RoundPagesOn DEF Visits

LEMMA RoundStoreScan ==
  ASSUME RoundHolds, NEW t \in Visitors, Round!StoreScan(t)
  PROVE  RoundHolds'
<1> DEFINE v == visit[t]
<1>1. v.at = "storing" /\ UNCHANGED <<after, stores>> /\ IsVisit(v)
  BY DEF Round!StoreScan, RoundHolds
<1>2. PICK n : /\ visit' = [visit EXCEPT ![t] = n]
               /\ \/ n = Round!EndsVisit(v)
                  \/ n = [v EXCEPT !.at = "paging", !.stored = v.place]
  BY DEF Round!StoreScan, Round!Becomes
<1>3. /\ IsVisit(n) /\ n.start = v.start /\ n.fresh = v.fresh
      /\ \/ Visits(n) /\ n.visited = v.visited
         \/ n.at = "round" /\ n.visited = v.visited + 1
  <2>1. CASE n = Round!EndsVisit(v)
    BY <1>1, <2>1, RoundEndsVisit DEF Visits
  <2>2. CASE n # Round!EndsVisit(v)
    BY <1>1, <1>2, <2>2 DEF Visits, IsVisit
  <2> QED
    BY <2>1, <2>2
<1> QED
  BY <1>1, <1>2, <1>3, RoundPagesOn DEF Visits

LEMMA RoundTickDies ==
  ASSUME RoundHolds, NEW t \in Visitors, Round!TickDies(t)
  PROVE  RoundHolds'
<1>1. visit' = [visit EXCEPT ![t] = Round!NoRound] /\ UNCHANGED <<after, stores>>
  BY DEF Round!TickDies, Round!Becomes
<1>2. IsVisit(Round!NoRound) /\ FreshOK(Round!NoRound)'
  BY RoundIdle DEF FreshOK
<1>3. stores \in [Round!Flows -> Nat]
  BY DEF RoundHolds
<1> QED
  BY <1>1, <1>2, <1>3, RoundGoesOn

\* Nothing of the round moves.
LEMMA RoundStays ==
  ASSUME RoundHolds, UNCHANGED <<after, visit, stores>>
  PROVE  RoundHolds'
<1>1. /\ \A v : IsVisit(v)' <=> IsVisit(v)
      /\ \A f : Distance(f)' = Distance(f)
  BY DEF IsVisit, Visits, Distance
<1>2. \A t \in Visitors : FreshOK(visit[t])'
  BY DEF FreshOK, Visits, RoundHolds
<1> QED
  BY <1>1, <1>2 DEF RoundHolds, IsVisit, Visits

LEMMA RoundNext ==
  ASSUME RoundHolds, [Round!ScanNext]_backstop
  PROVE  RoundHolds'
<1>1. CASE UNCHANGED backstop
  BY <1>1, RoundStays DEF backstop
<1>2. ASSUME NEW t \in Visitors, Round!TickStep(t)
      PROVE  RoundHolds'
  BY <1>2, RoundBeginRound, RoundBeginVisit, RoundEndRound, RoundMoveRound, RoundReadPage,
     RoundStopVisit, RoundStoreScan DEF Round!TickStep
<1>3. ASSUME NEW t \in Visitors, Round!TickDies(t)
      PROVE  RoundHolds'
  BY <1>3, RoundTickDies
<1>4. ASSUME NEW r \in RoundRows, Round!AddRow(r) \/ Round!CloseRow(r)
      PROVE  RoundHolds'
  BY <1>4, RoundStays DEF Round!AddRow, Round!CloseRow
<1> QED
  BY <1>1, <1>2, <1>3, <1>4 DEF Round!ScanNext

\* The inductive invariant, over the behaviours of the run's that are of the round.
THEOREM RoundInvariant == PartSpec => [](part = "round" => RoundHolds)
<1>1. PartInit => (part = "round" => RoundHolds)
  BY RoundStart DEF PartInit
<1>2. /\ part = "round" => RoundHolds
      /\ [PartNext]_<<part, vars, batches, admission, outcome, backstop>>
      => (part = "round" => RoundHolds)'
  <2> SUFFICES ASSUME part = "round" => RoundHolds,
                      [PartNext]_<<part, vars, batches, admission, outcome, backstop>>,
                      part' = "round"
               PROVE  RoundHolds'
    OBVIOUS
  <2>1. part = "round"
    BY DEF PartNext
  <2>2. RoundHolds /\ [Round!ScanNext]_backstop
    BY <2>1 DEF PartNext
  <2> QED
    BY <2>2, RoundNext
<1> QED
  BY <1>1, <1>2, PTL DEF PartSpec

\* _release_backstop: an open row is read within two passes over its workflow, or one
\* more for each tick where they overlap, and the round passes no workflow by.
THEOREM BackstopReachesRows == PartSpec => []BackstopReachesEveryRow
<1>1. (part = "scan" => ScanHolds) /\ (part = "round" => RoundHolds) => BackstopReachesEveryRow
  <2>1. ASSUME ScanHolds, NEW x \in Scan!Reads
        PROVE  since[x] <= IF Scan!Cardinality(Visitors) = 1 THEN 1
                           ELSE Scan!Cardinality(Visitors) + 1
    <3>1. /\ PassesOK(x) /\ since[x] \in Nat /\ Past(x) \in 0 .. 1
          /\ Scan!Cardinality(Visitors) = Cardinality(Visitors)
      BY <2>1, ScanTypes, ScanSets DEF ScanHolds, Past
    <3>2. Cardinality(Missing(x)) \in Nat /\ Cardinality(Visitors) \in Nat
      <4>1. Missing(x) \in SUBSET Visitors
        BY DEF Missing
      <4> QED
        BY <4>1, ScanCounts
    <3> QED
      BY <3>1, <3>2 DEF PassesOK, NoOverlap
  <2>2. ASSUME RoundHolds, NEW f \in Round!Flows
        PROVE  stores[f] <= RoundFlow
    <3>1. Distance(f) \in 1 .. RoundFlow /\ stores[f] \in Nat
          /\ stores[f] + Distance(f) <= RoundFlow + 1
      BY <2>2, RoundTurns DEF RoundHolds
    <3> QED
      BY <3>1, RoundFacts
  <2> QED
    BY <2>1, <2>2 DEF BackstopReachesEveryRow, Scan!RowsAreReadInTime, Round!NoFlowIsPassedBy
<1> QED
  BY <1>1, ScanInvariant, RoundInvariant, PTL
=============================================================================
