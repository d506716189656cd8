----------------------------- MODULE MCTaskLease -----------------------------
(* Instances of TaskLease for TLC. *)
EXTENDS TaskLease, TLC

CONSTANTS w1, w2, w3, c1, c2

\* Workers, and callers, are interchangeable in every safety property.
WorkerSymmetry == Permutations({w1, w2}) \cup Permutations({c1, c2})
=============================================================================
