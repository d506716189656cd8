--------------------------- MODULE MCUniqueEnqueue ---------------------------
(***************************************************************************)
(* Values for the constants of UniqueEnqueue that a cfg cannot write, and  *)
(* the symmetry of task ids, which nothing but equality tells apart.       *)
(***************************************************************************)
EXTENDS UniqueEnqueue, TLC

AllEngines == [vendor : {"postgresql", "mysql"}, snapshots : BOOLEAN]
              \cup {[vendor |-> "sqlite", snapshots |-> FALSE]}

Symmetry == Permutations(Tasks)
=============================================================================
