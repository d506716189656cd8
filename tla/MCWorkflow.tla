----------------------------- MODULE MCWorkflow -----------------------------
(* Small graphs.  Pair and Apart have two nodes: c names itself, and the    *)
(* upstreams of a node must have been added before it.                      *)
EXTENDS Workflow, TLC
CONSTANTS a, b, c

Row == a :> {} @@ b :> {a} @@ c :> {b}
Fan == a :> {} @@ b :> {} @@ c :> {a, b}
Pair == a :> {} @@ b :> {a} @@ c :> {c}
Apart == a :> {} @@ b :> {} @@ c :> {c}

AllGraphs == {Row, Fan, Pair, Apart}
Bounds == Row :> 1 @@ Fan :> 1 @@ Pair :> 2 @@ Apart :> 2
=============================================================================
