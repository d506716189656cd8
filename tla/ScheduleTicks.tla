---------------------------- MODULE ScheduleTicks ----------------------------
(***************************************************************************)
(* What a settings-declared schedule promises, with no worker, clock, pass *)
(* or lock in sight: it is anchored at one tick, which enqueues nothing,   *)
(* and from then on a tick enqueues its task at most once.                 *)
(* ScheduleDispatch implements this.                                       *)
(***************************************************************************)
EXTENDS Naturals, Sequences

CONSTANT Ticks

VARIABLES
  anchored,  \* the anchors there have been, oldest first
  fired      \* how many tasks each tick has enqueued

vars == <<anchored, fired>>

Init ==
  /\ anchored = <<>>
  /\ fired = [t \in Ticks |-> 0]

\* The first sighting.
Anchor(t) ==
  /\ anchored = <<>>
  /\ anchored' = <<t>>
  /\ UNCHANGED fired

Fire(t) ==
  /\ anchored # <<>>
  /\ t # anchored[1]
  /\ fired[t] = 0
  /\ fired' = [fired EXCEPT ![t] = 1]
  /\ UNCHANGED anchored

Next == \E t \in Ticks : Anchor(t) \/ Fire(t)

Spec == Init /\ [][Next]_vars
=============================================================================
