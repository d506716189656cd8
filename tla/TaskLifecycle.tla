---------------------------- MODULE TaskLifecycle ----------------------------
(***************************************************************************)
(* What a task promises to whoever enqueued it, with no lease, epoch or    *)
(* stale read in sight: at any moment at most one worker's answer would be *)
(* accepted, a stored answer is that worker's, and LOST leaves the         *)
(* question open to it.  TaskLease implements this.                        *)
(***************************************************************************)
CONSTANTS Tasks, Workers, Nobody

VARIABLES
  status,   \* the task's status
  holder,   \* the worker whose answer would be accepted, or Nobody
  answer    \* the worker whose return value is stored, or Nobody

vars == <<status, holder, answer>>

Init ==
  /\ status \in [Tasks -> {"READY", "WAITING"}]
  /\ holder = [t \in Tasks |-> Nobody]
  /\ answer = [t \in Tasks |-> Nobody]

Becomes(t, from, to) == status[t] \in from /\ status'[t] \in to

Grant(t) ==
  /\ Becomes(t, {"READY"}, {"RUNNING"})
  /\ holder'[t] \in Workers
  /\ answer'[t] = answer[t]

\* The holder's own answer: a value, or a failure with or without a retry.
Answer(t) ==
  /\ Becomes(t, {"RUNNING", "LOST"}, {"SUCCESSFUL", "FAILED", "READY"})
  /\ holder'[t] = Nobody
  /\ answer'[t] = IF status'[t] = "SUCCESSFUL" THEN holder[t] ELSE answer[t]

\* The question is closed without an answer, or put back.
TakeBack(t) ==
  /\ \/ Becomes(t, {"RUNNING", "FAILED", "LOST", "WAITING"}, {"READY"})
     \/ Becomes(t, {"READY", "WAITING", "FAILED", "LOST"}, {"DISCARDED"})
     \/ Becomes(t, {"DISCARDED"}, {"WAITING"})
  /\ holder'[t] = Nobody
  /\ answer'[t] = answer[t]

\* Nobody has heard from the holder, which may still answer.
GiveUp(t) ==
  /\ Becomes(t, {"RUNNING"}, {"LOST"})
  /\ holder'[t] = holder[t]
  /\ answer'[t] = answer[t]

Same(t) ==
  /\ status'[t] = status[t]
  /\ holder'[t] = holder[t]
  /\ answer'[t] = answer[t]

\* One statement of the database may move several rows.
Next ==
  \A t \in Tasks : Grant(t) \/ Answer(t) \/ TakeBack(t) \/ GiveUp(t) \/ Same(t)

Spec == Init /\ [][Next]_vars
=============================================================================
