-------------------------- MODULE MCStoredSchedule --------------------------
(* Instances of StoredSchedule for TLC. *)
EXTENDS StoredSchedule, TLC

CONSTANTS w1, w2

\* Two timings, of which one asks for more.
SampleTicks(timing) == IF timing = "each" THEN {1, 2} ELSE {2}

\* One worker and three events, two workers and one.
Alone == {{w1}, {w1, w2}}
Bounds(workers) == IF workers = {w1} THEN 3 ELSE 1
=============================================================================
