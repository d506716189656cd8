--------------------------- MODULE MCWorkerProcess ---------------------------
(* Instances of WorkerProcess for TLC. *)
EXTENDS WorkerProcess

CONSTANTS a, b, c, t1, t2

Service == [batch |-> FALSE, limit |-> 9, timed |-> {a}, ready |-> {a, b}, later |-> "never",
             events |-> 1]
Batch == [Service EXCEPT !.batch = TRUE, !.timed = {}, !.ready = {a}, !.later = "by a task"]

\* One of two tasks has a timeout, or both have; a task limit; a batch with a
\* follow-up, and one with a due tick.
SampleModes ==
  {Service, [Service EXCEPT !.timed = {a, b}, !.events = 0], [Service EXCEPT !.limit = 1],
   Batch, [Batch EXCEPT !.later = "by a tick"]}
=============================================================================
