--------------------------- MODULE SupervisorProofs ---------------------------
(***************************************************************************)
(* What the supervisor leaves behind, proved for any number of processes,  *)
(* any cap of restarts and any number of signals and faults.  Two facts    *)
(* carry it: without a stop no process has been told to end, and every     *)
(* death is somebody's doing; and while nothing but one signal has come,   *)
(* each process has been told at most once, and ends well or before it     *)
(* could work.  For the heartbeat files a third one does: a file that a    *)
(* child wrote is that of a process that booted and was not collected.     *)
(***************************************************************************)
EXTENDS Supervisor, TLAPS

Sup == [at : {"starting", "looping", "leaving", "returned", "raised", "crashed"},
        step : {"signals", "start", "started", "reap", "restart", "kill"},
        next : 0 .. Processes, stopping : BOOLEAN, tripped : BOOLEAN, failing : BOOLEAN,
        seen : 0 .. MaxEvents, kill : {"none", "armed", "due"}, first : BOOLEAN]

\* What was sent and what happened is bounded.
Bounds ==
  /\ events + sup.seen + signals <= MaxEvents
  /\ sup.at = "starting" /\ sup.step \in {"start", "started"} => sup.next < Processes

\* A stop is asked for first, and only then are the children told.
StopOK ==
  /\ sup.seen > 0 \/ sup.kill # "none" => sup.stopping
  /\ embedder = "stopped" => sup.stopping

\* A child that died, and not to be started anew.
Death(i) == IF child[i].state = "dead" /\ CountsAsDeath(child[i].code) THEN 1 ELSE 0

\* Nobody has told the child of a slot to end: if it drains it recycles, and each of
\* its deaths was an event.
Untold(i) ==
  /\ child[i].state = "draining" => child[i].code = "recycle"
  /\ deaths[i] + Death(i) <= events

UntoldOK == ~sup.stopping => \A i \in Slots : Untold(i)

\* Who is gone has no children, and one that is killed is so by an event.
EndOK ==
  /\ sup.at \in {"returned", "raised", "crashed"} => \A i \in Slots : child[i].state = "none"
  /\ sup.at = "crashed" => events > 0

\* Nothing has happened but one signal, if that.
Quiet == events = 0 /\ sup.seen <= 1

\* A child is told once, by that signal.
Well(i) ==
  /\ exit[i] = "ok"
  /\ child[i].code = "ok" \/ (child[i].code = "term" /\ child[i].state = "dead")
  /\ child[i].state \in {"draining", "dead"} => sup.stopping
  /\ sup.seen = 0 => child[i].sigs = 0

QuietOK ==
  Quiet =>
    /\ embedder = "idle" /\ ~sup.tripped /\ sup.kill = "none"
    /\ sup.at = "starting" /\ sup.step \in {"start", "started"} => ~sup.stopping
    /\ \A i \in Slots : Well(i)

\* A child's file is there while the child is, started by this supervisor or not.
Idle == {"none", "booting"}
PresentOK == \A i \in Slots : file[i] = "child" => child[i].state \notin Idle

\* What could not be removed was reported.
SaidOK == \A i \in launched : file[i] = "old" => i \in reported

IInv ==
  /\ TypeOK /\ Bounds /\ StopOK /\ UntoldOK /\ EndOK /\ QuietOK
  /\ PresentOK /\ SaidOK
-----------------------------------------------------------------------------
(* Types.                                                                  *)

LEMMA Types ==
  ASSUME TypeOK
  PROVE  /\ sup \in Sup /\ sup.seen \in Nat /\ sup.next \in Nat
         /\ child \in [Slots -> Process] /\ orphan \in [Slots -> Process]
         /\ deaths \in [Slots -> 0 .. MaxEvents] /\ exit \in [Slots -> Codes]
         /\ signals \in Nat /\ events \in Nat
         /\ MaxEvents \in Nat /\ Processes \in Nat \ {0} /\ Slots \subseteq Nat
         /\ RestartCap \in Nat
BY SupervisorAssumption DEF TypeOK, Sup, Slots

LEMMA NoProcessIs ==
  /\ NoProcess \in Process /\ NoProcess.state = "none"
  /\ NoProcess.code = "ok" /\ NoProcess.sigs = 0
BY DEF NoProcess, Process, Codes

Booting == [NoProcess EXCEPT !.state = "booting"]

LEMMA BootingIs ==
  /\ Booting \in Process /\ Booting.state = "booting"
  /\ Booting.code = "ok" /\ Booting.sigs = 0
BY NoProcessIs DEF Booting, Process

\* What SIGTERM makes of a process.
LEMMA TerminatedIs ==
  ASSUME NEW c \in Process
  PROVE  /\ Terminated(c) \in Process
         /\ Terminated(c) = c \/ Terminated(c).state \in {"draining", "dead"}
         /\ c.state = "none" => Terminated(c) = c
         /\ Terminated(c).code \in {c.code, "term", "forced"}
         /\ c.sigs = 0 /\ Terminated(c).code # c.code =>
              Terminated(c).code = "term" /\ Terminated(c).state = "dead"
         /\ Terminated(c).state = "draining" => Terminated(c).code = c.code
<1>1. CASE c.state = "booting"
  <2>1. Terminated(c) = [c EXCEPT !.state = "dead", !.code = "term"]
    BY <1>1 DEF Terminated
  <2> QED
    BY <1>1, <2>1 DEF Process, Codes
<1>2. CASE c.state \in Turns /\ c.sigs = 0
  <2>1. Terminated(c) = [c EXCEPT !.state = "draining", !.sigs = 1]
    BY <1>2 DEF Terminated, HandleTerm, Turns
  <2>2. /\ Terminated(c) \in Process
        /\ Terminated(c).state = "draining" /\ Terminated(c).code = c.code
    <3>1. 1 \in 0 .. 1 /\ "draining" \in {"none", "booting", "running", "draining", "wedged", "dead"}
      OBVIOUS
    <3> QED
      BY <2>1, <3>1 DEF Process
  <2> QED
    BY <1>2, <2>2 DEF Turns
<1>3. CASE c.state \in Turns /\ c.sigs # 0
  <2>1. Terminated(c) = [c EXCEPT !.state = "dead", !.code = "forced"]
    BY <1>3 DEF Terminated, HandleTerm, Turns
  <2> QED
    BY <1>3, <2>1 DEF Process, Turns, Codes
<1>4. CASE c.state # "booting" /\ c.state \notin Turns
  BY <1>4 DEF Terminated
<1> QED
  BY <1>1, <1>2, <1>3, <1>4

LEMMA KilledIs ==
  ASSUME NEW c \in Process
  PROVE  /\ Killed(c) \in Process
         /\ Killed(c) = c \/ Killed(c).state = "dead"
         /\ c.state = "none" => Killed(c) = c
BY DEF Killed, Process, Lives, Codes
-----------------------------------------------------------------------------
(* The supervisor's own state.                                             *)

SupStep ==
  /\ sup' \in Sup /\ signals' \in 0 .. MaxEvents /\ events' \in 0 .. MaxEvents
  /\ embedder' \in {"idle", "stopped", "done"}
  /\ Bounds' /\ StopOK'
  \* A stop is for good, but for the next supervisor.
  /\ (sup.stopping => sup'.stopping) \/ Relaunch
  /\ (sup.tripped => sup'.tripped) \/ Relaunch
  /\ sup'.seen >= sup.seen \/ Relaunch
  /\ events' >= events

LEMMA SupSteps ==
  ASSUME IInv, [Next]_vars
  PROVE  SupStep
<1>1. /\ TypeOK /\ Bounds /\ StopOK
      /\ sup \in Sup /\ sup.seen \in Nat /\ signals \in Nat /\ events \in Nat
      /\ MaxEvents \in Nat /\ sup.next \in Nat /\ Processes \in Nat
      /\ sup.next <= Processes /\ embedder \in {"idle", "stopped", "done"}
      /\ Slots \subseteq Nat
  BY Types DEF IInv, TypeOK, Sup
<1>2. CASE UNCHANGED <<sup, signals, events, embedder>>
  BY <1>1, <1>2 DEF SupStep, Bounds, StopOK
<1>3. CASE ProcessSignal
  <2>1. /\ sup' = [RequestStop(sup) EXCEPT !.seen = @ + 1, !.kill = Escalated(@)]
        /\ signals > 0 /\ signals' = signals - 1 /\ UNCHANGED <<embedder, events>>
        /\ sup.step = "signals"
    BY <1>3 DEF ProcessSignal
  <2>2. PICK kill \in {"none", "armed", "due"} : kill = Escalated(sup.kill)
    BY <1>1 DEF Escalated, Sup
  <2>3. sup.seen + 1 \in 0 .. MaxEvents
    BY <1>1, <2>1 DEF Bounds
  <2>4. sup' = [sup EXCEPT !.stopping = TRUE, !.seen = @ + 1, !.kill = kill]
    BY <1>1, <2>1, <2>2 DEF RequestStop, Sup
  <2>5. /\ sup' \in Sup /\ sup'.stopping /\ sup'.seen = sup.seen + 1
        /\ sup'.step = "signals" /\ sup'.tripped = sup.tripped
    BY <1>1, <2>1, <2>3, <2>4 DEF Sup
  <2>6. events' = events /\ embedder' = embedder
    BY <2>1
  <2>7. Bounds'
    BY <1>1, <2>1, <2>5, <2>6 DEF Bounds
  <2>8. StopOK'
    BY <1>1, <2>5, <2>6 DEF StopOK
  <2>9. signals' \in 0 .. MaxEvents /\ events' \in 0 .. MaxEvents
    BY <1>1, <2>1, <2>6 DEF Bounds
  <2> QED
    BY <1>1, <2>1, <2>5, <2>6, <2>7, <2>8, <2>9 DEF SupStep
<1>4. ASSUME sup' \in Sup, sup'.seen = sup.seen, sup.stopping => sup'.stopping,
             sup.tripped => sup'.tripped,
             sup'.kill # "none" => sup.kill # "none" \/ sup'.stopping,
             sup'.at = "starting" /\ sup'.step \in {"start", "started"} =>
               sup'.next < Processes,
             events' \in Nat, signals' \in Nat, events' >= events,
             events' + sup.seen + signals' <= MaxEvents,
             embedder' \in {"idle", "stopped", "done"},
             embedder' = "stopped" => embedder = "stopped" \/ sup'.stopping
      PROVE  SupStep
  <2>1. Bounds'
    BY <1>1, <1>4 DEF Bounds
  <2>2. StopOK'
    BY <1>1, <1>4 DEF StopOK
  <2>3. signals' \in 0 .. MaxEvents /\ events' \in 0 .. MaxEvents
    BY <1>1, <1>4
  <2> QED
    BY <1>1, <1>4, <2>1, <2>2, <2>3 DEF SupStep
<1>5. events + sup.seen + signals <= MaxEvents
  BY <1>1 DEF Bounds
<1>6. CASE BeginSlot
  <2>1. UNCHANGED <<signals, events, embedder>>
    BY <1>6 DEF BeginSlot
  <2>2. CASE sup.stopping \/ sup.next = Processes
    <3>1. sup' = [sup EXCEPT !.at = "looping"]
      BY <1>6, <2>2 DEF BeginSlot
    <3> QED
      BY <1>1, <1>4, <1>5, <2>1, <3>1 DEF Sup
  <2>3. CASE ~(sup.stopping \/ sup.next = Processes)
    <3>1. sup' = [sup EXCEPT !.step = "start"]
      BY <1>6, <2>3 DEF BeginSlot
    <3> QED
      BY <1>1, <1>4, <1>5, <2>1, <2>3, <3>1 DEF Sup
  <2> QED
    BY <2>2, <2>3
<1>7. CASE StartSlot
  <2>1. /\ sup' = [sup EXCEPT !.step = "started"] /\ sup.at = "starting" /\ sup.step = "start"
        /\ UNCHANGED <<signals, events, embedder>>
    BY <1>7 DEF StartSlot
  <2> QED
    BY <1>1, <1>4, <1>5, <2>1 DEF Sup, Bounds
<1>8. CASE CheckStarted
  <2>1. /\ sup' = [sup EXCEPT !.step = "signals", !.next = @ + 1]
        /\ sup.at = "starting" /\ sup.step = "started"
        /\ UNCHANGED <<signals, events, embedder>>
    BY <1>8 DEF CheckStarted
  <2>2. sup.next + 1 \in 0 .. Processes
    BY <1>1, <2>1 DEF Bounds
  <2>3. sup' \in Sup
    BY <1>1, <2>1, <2>2 DEF Sup
  <2> QED
    BY <1>1, <1>4, <1>5, <2>1, <2>3 DEF Sup
<1>9. CASE NothingLeftToDo
  <2>1. /\ sup' = [[sup EXCEPT !.stopping = TRUE] EXCEPT !.at = "leaving", !.step = "signals"]
        /\ UNCHANGED <<signals, events, embedder>>
    BY <1>9 DEF NothingLeftToDo, Leave, RequestStop
  <2>2. /\ sup' \in Sup /\ sup'.stopping /\ sup'.seen = sup.seen /\ sup'.tripped = sup.tripped
        /\ sup'.at = "leaving"
    BY <1>1, <2>1 DEF Sup
  <2> QED
    BY <1>1, <1>4, <1>5, <2>1, <2>2
<1>10. CASE SignalsDone
  <2>1. /\ \/ sup' = [sup EXCEPT !.step = "reap"]
           \/ sup' = [sup EXCEPT !.step = "kill"]
        /\ UNCHANGED <<signals, events, embedder>>
    BY <1>10 DEF SignalsDone
  <2> QED
    BY <1>1, <1>4, <1>5, <2>1 DEF Sup
<1>11. ASSUME NEW i \in Slots, ReapExited(i)
       PROVE  SupStep
  <2>1. sup.step = "reap" /\ UNCHANGED <<signals, events, embedder>>
    BY <1>11 DEF ReapExited, InLoop
  <2>2. sup' = sup \/ sup' = [[sup EXCEPT !.stopping = TRUE] EXCEPT !.tripped = TRUE]
    BY <1>11 DEF ReapExited, RequestStop
  <2>3. CASE sup' # sup
    <3>1. /\ sup' \in Sup /\ sup'.stopping /\ sup'.seen = sup.seen /\ sup'.tripped
          /\ sup'.step = "reap"
      BY <1>1, <2>1, <2>2, <2>3 DEF Sup
    <3> QED
      BY <1>1, <1>4, <1>5, <2>1, <3>1
  <2> QED
    BY <1>2, <2>1, <2>3
<1>12. CASE ReapDone
  <2>1. /\ \/ sup' = [sup EXCEPT !.step = "restart"]
           \/ sup' = [sup EXCEPT !.at = "raised"]
           \/ sup' = [sup EXCEPT !.at = "returned"]
           \/ sup' = [sup EXCEPT !.step = "signals"]
        /\ UNCHANGED <<signals, events, embedder>>
    BY <1>12 DEF ReapDone
  <2> QED
    BY <1>1, <1>4, <1>5, <2>1 DEF Sup
<1>13. CASE RestartDue
  <2>1. /\ sup' = [sup EXCEPT !.step = "kill"] /\ UNCHANGED <<signals, events, embedder>>
    BY <1>13 DEF RestartDue
  <2> QED
    BY <1>1, <1>4, <1>5, <2>1 DEF Sup
<1>14. CASE KillOverdue
  <2>1. /\ sup' = [sup EXCEPT !.step = IF sup.at = "looping" THEN "signals" ELSE "reap",
                              !.kill = IF @ = "due" THEN "none" ELSE @]
        /\ UNCHANGED <<signals, events, embedder>>
    BY <1>14 DEF KillOverdue
  <2>2. PICK step \in {"signals", "reap"} : step = IF sup.at = "looping" THEN "signals" ELSE "reap"
    OBVIOUS
  <2>3. PICK kill \in {"none", "armed", "due"} :
          /\ kill = IF sup.kill = "due" THEN "none" ELSE sup.kill
    BY <1>1 DEF Sup
  <2>4. sup' = [sup EXCEPT !.step = step, !.kill = kill]
    BY <1>1, <2>1, <2>2, <2>3 DEF Sup
  <2>5. /\ sup' \in Sup
        /\ sup'.kill # "none" => sup.kill # "none"
        /\ sup'.seen = sup.seen /\ sup'.stopping = sup.stopping /\ sup'.tripped = sup.tripped
        /\ sup'.step \in {"signals", "reap"}
    BY <1>1, <2>2, <2>3, <2>4 DEF Sup
  <2> QED
    BY <1>1, <1>4, <1>5, <2>1, <2>5 DEF Sup
<1>15. CASE KillComesDue
  <2>1. /\ sup' = [sup EXCEPT !.kill = "due"] /\ sup.kill = "armed"
        /\ UNCHANGED <<signals, events, embedder>>
    BY <1>15 DEF KillComesDue
  <2> QED
    BY <1>1, <1>4, <1>5, <2>1 DEF Sup, Bounds
<1>16. CASE SendSignal
  <2>1. /\ events + sup.seen + signals < MaxEvents /\ signals' = signals + 1
        /\ UNCHANGED <<sup, events, embedder>>
    BY <1>16 DEF SendSignal, Possible
  <2> QED
    BY <1>1, <1>4, <2>1 DEF Bounds
<1>17. CASE Event /\ UNCHANGED <<sup, signals, embedder>>
  <2>1. /\ events + sup.seen + signals < MaxEvents /\ events' = events + 1
        /\ UNCHANGED <<sup, signals, embedder>>
    BY <1>17 DEF Event, Possible
  <2> QED
    BY <1>1, <1>4, <2>1 DEF Bounds
<1>18. CASE EmbedderStops
  <2>1. /\ sup' = [sup EXCEPT !.stopping = TRUE] /\ embedder' = "stopped"
        /\ events + sup.seen + signals < MaxEvents /\ events' = events + 1
        /\ UNCHANGED signals
    BY <1>18 DEF EmbedderStops, RequestStop, Event, Possible
  <2>2. /\ sup' \in Sup /\ sup'.stopping /\ sup'.seen = sup.seen /\ sup'.tripped = sup.tripped
        /\ sup'.at = sup.at /\ sup'.step = sup.step /\ sup'.next = sup.next
    BY <1>1, <2>1 DEF Sup
  <2> QED
    BY <1>1, <1>4, <2>1, <2>2 DEF Bounds
<1>19. CASE EmbedderSignals
  <2>1. embedder' = "done" /\ UNCHANGED <<sup, signals, events>>
    BY <1>19 DEF EmbedderSignals
  <2> QED
    BY <1>1, <1>4, <1>5, <2>1 DEF Bounds
<1>20. CASE RestartFails
  <2>1. /\ sup' = [[sup EXCEPT !.stopping = TRUE] EXCEPT !.at = "leaving", !.step = "signals",
                                                       !.failing = TRUE]
        /\ events + sup.seen + signals < MaxEvents /\ events' = events + 1
        /\ UNCHANGED <<signals, embedder>>
    BY <1>20 DEF RestartFails, RequestStop, Event, Possible
  <2>2. /\ sup' \in Sup /\ sup'.stopping /\ sup'.seen = sup.seen /\ sup'.tripped = sup.tripped
        /\ sup'.at = "leaving"
    BY <1>1, <2>1 DEF Sup
  <2> QED
    BY <1>1, <1>4, <2>1, <2>2
<1>21. CASE Event /\ \E taken : Vanish(taken)
  <2>1. /\ sup' = [sup EXCEPT !.at = "crashed"]
        /\ events + sup.seen + signals < MaxEvents /\ events' = events + 1
        /\ UNCHANGED <<signals, embedder>>
    BY <1>21 DEF Vanish, Event, Possible
  <2>2. /\ sup' \in Sup /\ sup'.stopping = sup.stopping /\ sup'.seen = sup.seen
        /\ sup'.tripped = sup.tripped /\ sup'.at = "crashed" /\ sup'.kill = sup.kill
    BY <1>1, <2>1 DEF Sup
  <2> QED
    BY <1>1, <1>4, <2>1, <2>2
<1>22. CASE Relaunch
  <2>1. /\ sup' = [Fresh EXCEPT !.first = FALSE] /\ signals' = 0 /\ embedder' = "idle"
        /\ events' = events
    BY <1>22 DEF Relaunch
  <2>2. /\ sup' \in Sup /\ sup'.seen = 0 /\ sup'.step = "signals" /\ sup'.kill = "none"
    <3>1. /\ Fresh \in Sup /\ Fresh.seen = 0 /\ Fresh.step = "signals" /\ Fresh.kill = "none"
      BY <1>1 DEF Fresh, Sup
    <3> QED
      BY <2>1, <3>1 DEF Sup
  <2>3. Bounds' /\ StopOK' /\ events' \in 0 .. MaxEvents /\ signals' \in 0 .. MaxEvents
    BY <1>1, <1>5, <2>1, <2>2 DEF Bounds, StopOK
  <2> QED
    BY <1>1, <1>22, <2>1, <2>2, <2>3 DEF SupStep
<1>23. ASSUME NEW i \in Slots,
              \/ RestartComesDue(i) \/ Boots(i) \/ Breaks(i) \/ Recycles(i) \/ Wedges(i)
              \/ DrainEnds(i) \/ NoticesItsParentIsGone(i) \/ FinishesItsBeat(i)
       PROVE  SupStep
  BY <1>2, <1>17, <1>23
  DEF RestartComesDue, Boots, Breaks, Recycles, Wedges, DrainEnds, NoticesItsParentIsGone,
      FinishesItsBeat, supervising
<1> QED
  BY <1>2, <1>3, <1>6, <1>7, <1>8, <1>9, <1>10, <1>11, <1>12, <1>13, <1>14, <1>15, <1>16,
     <1>18, <1>19, <1>20, <1>21, <1>22, <1>23
  DEF Next, SupervisorStep, StartFails, Crash, vars
-----------------------------------------------------------------------------
(* The children.                                                           *)

\* What a step makes of the child of a slot: it is reaped, started, told to end,
\* killed at the end of the grace, broken by an event, or moves by itself.
Moves(i) ==
  \/ child'[i] = child[i]
  \/ child'[i] = NoProcess
  \/ child'[i] = Booting /\ ~sup.stopping
  \/ /\ child'[i] = Terminated(child[i]) /\ sup'.stopping
     /\ Quiet' => (sup.seen = 0 /\ sup'.seen = 1) \/ child[i].state = "none"
  \/ sup.stopping /\ sup'.stopping /\ ~Quiet'
  \/ /\ events' = events + 1
     /\ sup'.stopping \/ child'[i].state = "dead" \/ child'[i].code = "recycle"
  \/ /\ child'[i].state \in {"running", "wedged"}
     /\ child'[i].code = child[i].code /\ child'[i].sigs = child[i].sigs
     /\ child[i].state # "dead"
  \/ /\ child[i].state = "draining" /\ child'[i].state = "dead"
     /\ child'[i].code = child[i].code /\ child'[i].sigs = child[i].sigs

\* A death is counted as its child is reaped.
DeathMoves(i) ==
  \/ deaths'[i] = deaths[i]
  \/ deaths'[i] = 0
  \/ /\ child[i].state = "dead" /\ CountsAsDeath(child[i].code) /\ child'[i] = NoProcess
     /\ deaths'[i] \in 1 .. deaths[i] + 1 /\ ~sup.stopping

ExitMoves(i) ==
  \/ exit'[i] = exit[i]
  \/ exit'[i] = "ok"
  \/ child[i].state = "dead" /\ exit'[i] = RecordedExit(child[i].code)

ChildStep ==
  /\ child' \in [Slots -> Process]
  /\ \A i \in Slots : Moves(i)

LEMMA ChildSteps ==
  ASSUME IInv, [Next]_vars
  PROVE  ChildStep
<1>1. /\ TypeOK /\ Bounds /\ StopOK /\ QuietOK /\ sup \in Sup
      /\ child \in [Slots -> Process] /\ SupStep /\ Slots \subseteq Nat
      /\ events \in Nat /\ sup.seen \in Nat /\ sup.next \in Nat /\ Processes \in Nat
  BY Types, SupSteps DEF IInv
<1>2. /\ \A i \in Slots : Terminated(child[i]) \in Process /\ Killed(child[i]) \in Process
      /\ Terminated(Booting) \in Process
  BY <1>1, TerminatedIs, KilledIs, BootingIs
<1>3. AllTerminated \in [Slots -> Process] /\ \A i \in Slots : AllTerminated[i] = Terminated(child[i])
  BY <1>2 DEF AllTerminated
<1>4. CASE UNCHANGED child
  BY <1>1, <1>4 DEF ChildStep, Moves
<1>5. CASE ProcessSignal
  <2>1. /\ child' = AllTerminated /\ UNCHANGED events
        /\ sup' = [[sup EXCEPT !.stopping = TRUE] EXCEPT !.seen = @ + 1, !.kill = Escalated(@)]
    BY <1>5 DEF ProcessSignal, RequestStop
  <2>2. sup'.stopping /\ sup'.seen = sup.seen + 1
    BY <1>1, <2>1 DEF Sup
  <2>3. Quiet' => sup.seen = 0 /\ sup'.seen = 1
    BY <1>1, <2>2 DEF Quiet
  <2> QED
    BY <1>3, <2>1, <2>2, <2>3 DEF ChildStep, Moves
<1>6. CASE StartSlot
  <2>1. \/ ~sup.stopping /\ child' = [child EXCEPT ![sup.next] = Booting]
        \/ UNCHANGED child
    BY <1>6 DEF StartSlot, StartChild, Booting
  <2> QED
    BY <1>1, <1>4, <2>1, BootingIs DEF ChildStep, Moves
<1>7. CASE CheckStarted
  <2>1. \/ sup.stopping /\ child' = [child EXCEPT ![sup.next] = Terminated(@)]
        \/ UNCHANGED child
    BY <1>7 DEF CheckStarted
  <2>2. /\ sup.at = "starting" /\ sup.step = "started" /\ UNCHANGED events
        /\ sup' = [sup EXCEPT !.step = "signals", !.next = @ + 1]
    BY <1>7 DEF CheckStarted
  <2>3. sup'.stopping = sup.stopping /\ sup'.seen = sup.seen
    BY <1>1, <2>2 DEF Sup
  <2>4. sup.stopping => ~Quiet'
    BY <1>1, <2>2, <2>3 DEF QuietOK, Quiet
  <2>5. CASE sup.stopping /\ child' = [child EXCEPT ![sup.next] = Terminated(@)]
    BY <1>1, <1>2, <2>3, <2>4, <2>5 DEF ChildStep, Moves
  <2> QED
    BY <1>4, <2>1, <2>5
<1>8. CASE NothingLeftToDo
  <2>1. /\ child' = AllTerminated /\ Children = {}
    BY <1>8 DEF NothingLeftToDo, Leave, GoesOn
  <2>2. \A i \in Slots : Terminated(child[i]) = child[i]
    BY <1>1, <2>1, TerminatedIs DEF Children
  <2> QED
    BY <1>3, <2>1, <2>2 DEF ChildStep, Moves
<1>9. ASSUME NEW i \in Slots, ReapExited(i)
      PROVE  ChildStep
  <2>1. child[i].state = "dead" /\ UNCHANGED events
    BY <1>9 DEF ReapExited
  <2>2. \/ child' = [child EXCEPT ![i] = NoProcess]
        \/ /\ ~sup.stopping /\ child' = [AllTerminated EXCEPT ![i] = NoProcess]
           /\ sup' = [[sup EXCEPT !.stopping = TRUE] EXCEPT !.tripped = TRUE]
    BY <1>9 DEF ReapExited, RequestStop
  <2>3. CASE child' = [child EXCEPT ![i] = NoProcess]
    BY <1>1, <2>3, NoProcessIs DEF ChildStep, Moves
  <2>4. CASE /\ ~sup.stopping /\ child' = [AllTerminated EXCEPT ![i] = NoProcess]
             /\ sup' = [[sup EXCEPT !.stopping = TRUE] EXCEPT !.tripped = TRUE]
    <3>1. sup'.stopping /\ sup'.seen = sup.seen
      BY <1>1, <2>4 DEF Sup
    <3>2. ~Quiet'
      BY <1>1, <2>1, <2>4, <3>1 DEF QuietOK, Quiet, Well
    <3> QED
      BY <1>3, <2>4, <3>1, <3>2, NoProcessIs DEF ChildStep, Moves
  <2> QED
    BY <2>2, <2>3, <2>4
<1>10. CASE RestartDue
  <2>1. child' = WithBooting(Due) /\ Due \subseteq Slots /\ (sup.stopping => Due = {})
    BY <1>10 DEF RestartDue, Due
  <2>2. /\ child' \in [Slots -> Process]
        /\ \A i \in Slots : child'[i] = IF i \in Due THEN Booting ELSE child[i]
    BY <1>1, <2>1, BootingIs DEF WithBooting, Booting
  <2> QED
    BY <2>1, <2>2 DEF ChildStep, Moves
<1>11. CASE RestartFails
  <2>1. PICK before \in SUBSET Due : child' = [j \in Slots |-> Terminated(WithBooting(before)[j])]
    BY <1>11 DEF RestartFails
  <2>2. /\ events' = events + 1
        /\ sup' = [[sup EXCEPT !.stopping = TRUE] EXCEPT !.at = "leaving", !.step = "signals",
                                                        !.failing = TRUE]
    BY <1>11 DEF RestartFails, RequestStop, Event
  <2>3. sup'.stopping
    BY <1>1, <2>2 DEF Sup
  <2>4. \A j \in Slots : WithBooting(before)[j] \in {Booting, child[j]}
    BY DEF WithBooting, Booting
  <2>5. child' \in [Slots -> Process]
    BY <1>2, <2>1, <2>4
  <2> QED
    BY <2>2, <2>3, <2>5 DEF ChildStep, Moves
<1>12. CASE KillOverdue
  <2>1. /\ \/ sup.kill = "due" /\ child' = [i \in Slots |-> Killed(child[i])]
           \/ UNCHANGED child
        /\ UNCHANGED events
    BY <1>12 DEF KillOverdue
  <2>2. sup.kill = "due" => sup.stopping /\ sup'.stopping /\ ~Quiet'
    <3>1. sup.kill = "due" => sup.stopping /\ ~Quiet
      BY <1>1 DEF StopOK, QuietOK
    <3>2. sup'.stopping = sup.stopping /\ sup'.seen = sup.seen
      BY <1>1, <1>12 DEF KillOverdue, Sup
    <3> QED
      BY <2>1, <3>1, <3>2 DEF Quiet
  <2> QED
    BY <1>1, <1>2, <2>1, <2>2 DEF ChildStep, Moves
<1>13. CASE EmbedderSignals
  <2>1. child' = AllTerminated /\ UNCHANGED <<sup, events>> /\ embedder = "stopped"
    BY <1>13 DEF EmbedderSignals
  <2>2. sup'.stopping /\ ~Quiet'
    BY <1>1, <2>1 DEF StopOK, QuietOK, Quiet
  <2> QED
    BY <1>3, <2>1, <2>2 DEF ChildStep, Moves
<1>14. CASE \E taken : Vanish(taken)
  <2>1. child' = [i \in Slots |-> NoProcess]
    BY <1>14 DEF Vanish
  <2> QED
    BY <2>1, NoProcessIs DEF ChildStep, Moves
<1>15. ASSUME NEW i \in Slots, NEW to \in Process, ChildMoves(i, to),
              \/ events' = events + 1 /\ (to.state = "dead" \/ to.code = "recycle")
              \/ /\ to.state \in {"running", "wedged"} /\ child[i].state # "dead"
                 /\ to.code = child[i].code /\ to.sigs = child[i].sigs
              \/ /\ child[i].state = "draining" /\ to.state = "dead"
                 /\ to.code = child[i].code /\ to.sigs = child[i].sigs
       PROVE  ChildStep
  <2>1. child' = [child EXCEPT ![i] = to]
    BY <1>15 DEF ChildMoves
  <2> QED
    BY <1>1, <1>15, <2>1 DEF ChildStep, Moves
<1>16. ASSUME NEW i \in Slots,
              \/ RestartComesDue(i) \/ Boots(i) \/ Breaks(i) \/ Recycles(i) \/ Wedges(i)
              \/ DrainEnds(i) \/ NoticesItsParentIsGone(i) \/ FinishesItsBeat(i)
       PROVE  ChildStep
  <2>1. child[i] \in Process
    BY <1>1
  <2>2. CASE Boots(i)
    <3>1. UNCHANGED child \/ (child[i].state = "booting" /\ ChildMoves(i, [child[i] EXCEPT !.state = "running"]))
      BY <2>2 DEF Boots, OrphanMoves
    <3>2. PICK to : to = [child[i] EXCEPT !.state = "running"]
      OBVIOUS
    <3>3. /\ to \in Process /\ to.state = "running" /\ to.code = child[i].code
          /\ to.sigs = child[i].sigs
      BY <2>1, <3>2 DEF Process
    <3> QED
      BY <1>4, <1>15, <3>1, <3>2, <3>3
  <2>3. CASE Breaks(i)
    <3>1. /\ events' = events + 1
          /\ \/ ChildMoves(i, [child[i] EXCEPT !.state = "dead", !.code = "failed"])
             \/ child[i].state \in Turns \cup {"wedged"} /\ ChildMoves(i, Killed(child[i]))
      BY <2>3 DEF Breaks, Event
    <3>2. PICK to : to = [child[i] EXCEPT !.state = "dead", !.code = "failed"]
      OBVIOUS
    <3>3. to \in Process /\ to.state = "dead"
      BY <2>1, <3>2 DEF Process, Codes
    <3>4. child[i].state \in Turns \cup {"wedged"} => Killed(child[i]).state = "dead"
      BY <2>1 DEF Killed, Turns, Lives, Process
    <3> QED
      BY <1>2, <1>15, <3>1, <3>2, <3>3, <3>4
  <2>4. CASE Recycles(i)
    <3>1. PICK to : to = [child[i] EXCEPT !.state = "draining", !.code = "recycle"]
      OBVIOUS
    <3>2. to \in Process /\ to.code = "recycle"
      BY <2>1, <3>1 DEF Process, Codes
    <3>3. events' = events + 1 /\ ChildMoves(i, to)
      BY <2>4, <3>1 DEF Recycles, Event
    <3> QED
      BY <1>15, <3>2, <3>3
  <2>5. CASE Wedges(i)
    <3>1. PICK to : to = [child[i] EXCEPT !.state = "wedged"]
      OBVIOUS
    <3>2. /\ to \in Process /\ to.state = "wedged" /\ to.code = child[i].code
          /\ to.sigs = child[i].sigs
      BY <2>1, <3>1 DEF Process
    <3>3. child[i].state # "dead" /\ ChildMoves(i, to)
      BY <2>5, <3>1 DEF Wedges, Turns
    <3> QED
      BY <1>15, <3>2, <3>3
  <2>6. CASE DrainEnds(i)
    <3>1. PICK to : to = [child[i] EXCEPT !.state = "dead"]
      OBVIOUS
    <3>2. /\ to \in Process /\ to.state = "dead" /\ to.code = child[i].code
          /\ to.sigs = child[i].sigs
      BY <2>1, <3>1 DEF Process
    <3>3. UNCHANGED child \/ (child[i].state = "draining" /\ ChildMoves(i, to))
      BY <2>6, <3>1 DEF DrainEnds, OrphanMoves
    <3> QED
      BY <1>4, <1>15, <3>2, <3>3
  <2> QED
    BY <1>4, <1>16, <2>2, <2>3, <2>4, <2>5, <2>6
    DEF RestartComesDue, NoticesItsParentIsGone, FinishesItsBeat, OrphanMoves
<1> QED
  BY <1>4, <1>5, <1>6, <1>7, <1>8, <1>9, <1>10, <1>11, <1>12, <1>13, <1>14, <1>16
  DEF Next, SupervisorStep, StartFails, Crash, BeginSlot, SignalsDone, ReapDone, KillComesDue,
      SendSignal, EmbedderStops, Relaunch, vars
-----------------------------------------------------------------------------
(* What is counted and recorded of them.                                   *)

LEMMA RecordSteps ==
  ASSUME IInv, [Next]_vars
  PROVE  /\ exit' \in [Slots -> Codes] /\ deaths' \in [Slots -> Nat]
         /\ \A i \in Slots : DeathMoves(i) /\ ExitMoves(i)
<1> DEFINE Goal == /\ exit' \in [Slots -> Codes] /\ deaths' \in [Slots -> Nat]
                   /\ \A i \in Slots : DeathMoves(i) /\ ExitMoves(i)
<1>1. /\ child \in [Slots -> Process] /\ deaths \in [Slots -> Nat]
      /\ exit \in [Slots -> Codes] /\ Slots \subseteq Nat
  BY Types DEF IInv
<1>2. "ok" \in Codes /\ \A code \in Codes : RecordedExit(code) \in Codes
  BY DEF Codes, RecordedExit
<1>3. CASE UNCHANGED <<deaths, exit>>
  BY <1>1, <1>3 DEF DeathMoves, ExitMoves
<1>4. ASSUME NEW i \in Slots, ReapExited(i)
      PROVE  Goal
  <2>1. /\ child[i].state = "dead" /\ child[i].code \in Codes
        /\ exit' = [exit EXCEPT ![i] = RecordedExit(child[i].code)]
    BY <1>1, <1>4 DEF ReapExited, Process
  <2>2. exit' \in [Slots -> Codes] /\ \A j \in Slots : ExitMoves(j)
    BY <1>1, <1>2, <2>1 DEF ExitMoves
  <2>3. deaths' \in [Slots -> Nat] /\ \A j \in Slots : DeathMoves(j)
    <3>1. CASE UNCHANGED deaths
      BY <1>1, <3>1 DEF DeathMoves
    <3>2. ASSUME ~sup.stopping, CountsAsDeath(child[i].code), NEW recent \in 1 .. deaths[i] + 1,
                 deaths' = [deaths EXCEPT ![i] = recent],
                 \/ child' = [child EXCEPT ![i] = NoProcess]
                 \/ child' = [AllTerminated EXCEPT ![i] = NoProcess]
          PROVE  deaths' \in [Slots -> Nat] /\ \A j \in Slots : DeathMoves(j)
      <4>1. child'[i] = NoProcess
        BY <1>1, <3>2 DEF AllTerminated
      <4> QED
        BY <1>1, <2>1, <3>2, <4>1 DEF DeathMoves
    <3> QED
      BY <1>4, <3>1, <3>2 DEF ReapExited
  <2> QED
    BY <2>2, <2>3
<1>5. ASSUME UNCHANGED deaths, NEW some \in SUBSET Slots, Started(some)
      PROVE  Goal
  <2>1. exit' = [i \in Slots |-> IF i \in some THEN "ok" ELSE exit[i]]
    BY <1>5 DEF Started
  <2> QED
    BY <1>1, <1>2, <1>5, <2>1 DEF DeathMoves, ExitMoves
<1>6. CASE StartSlot
  <2>1. UNCHANGED deaths /\ (UNCHANGED exit \/ exit' = [exit EXCEPT ![sup.next] = "ok"])
    BY <1>6 DEF StartSlot, StartChild
  <2> QED
    BY <1>1, <1>2, <2>1 DEF DeathMoves, ExitMoves
<1>7. CASE RestartDue
  <2>1. Due \subseteq Slots /\ Started(Due) /\ UNCHANGED deaths
    BY <1>7 DEF RestartDue, Due
  <2> QED
    BY <1>5, <2>1
<1>8. CASE RestartFails
  <2>1. PICK before \in SUBSET Due : Started(before)
    BY <1>8 DEF RestartFails
  <2>2. before \in SUBSET Slots /\ UNCHANGED deaths
    BY <1>8 DEF RestartFails, Due
  <2> QED
    BY <1>5, <2>1, <2>2
<1>9. CASE Relaunch
  BY <1>1, <1>2, <1>9 DEF Relaunch, DeathMoves, ExitMoves
<1>10. ASSUME NEW i \in Slots,
              \/ RestartComesDue(i) \/ Boots(i) \/ Breaks(i) \/ Recycles(i) \/ Wedges(i)
              \/ DrainEnds(i) \/ NoticesItsParentIsGone(i) \/ FinishesItsBeat(i)
       PROVE  Goal
  BY <1>3, <1>10
  DEF RestartComesDue, Boots, Breaks, Recycles, Wedges, DrainEnds, NoticesItsParentIsGone,
      FinishesItsBeat, supervising
<1>11. CASE StartFails \/ Crash
  BY <1>3, <1>11 DEF StartFails, Crash, Vanish
<1> QED
  BY <1>3, <1>4, <1>6, <1>7, <1>8, <1>9, <1>10, <1>11
  DEF Next, SupervisorStep, ProcessSignal, BeginSlot, CheckStarted, NothingLeftToDo, Leave,
      SignalsDone, ReapDone, KillOverdue, KillComesDue, SendSignal, EmbedderStops,
      EmbedderSignals, vars

\* Without a stop each death of a child was an event.
LEMMA UntoldStep ==
  ASSUME IInv, [Next]_vars
  PROVE  UntoldOK' /\ deaths' \in [Slots -> 0 .. MaxEvents]
<1>1. /\ TypeOK /\ UntoldOK /\ EndOK /\ StopOK
      /\ deaths \in [Slots -> 0 .. MaxEvents] /\ child \in [Slots -> Process]
      /\ events \in Nat /\ MaxEvents \in Nat /\ events <= MaxEvents
  BY Types DEF IInv, TypeOK
<1>2. ChildStep /\ SupStep /\ \A i \in Slots : DeathMoves(i)
  BY ChildSteps, SupSteps, RecordSteps
<1>3. events' \in Nat /\ events' >= events /\ events' <= MaxEvents
  BY <1>1, <1>2 DEF SupStep
<1>4. ASSUME NEW i \in Slots
      PROVE  deaths'[i] \in 0 .. MaxEvents
  <2>1. deaths[i] \in 0 .. MaxEvents
    BY <1>1
  <2>2. CASE deaths'[i] = deaths[i] \/ deaths'[i] = 0
    BY <1>1, <2>1, <2>2
  <2>3. CASE /\ child[i].state = "dead" /\ CountsAsDeath(child[i].code)
             /\ deaths'[i] \in 1 .. deaths[i] + 1 /\ ~sup.stopping
    <3>1. deaths[i] + 1 <= events
      BY <1>1, <2>1, <2>3 DEF UntoldOK, Untold, Death
    <3> QED
      BY <1>1, <2>1, <2>3, <3>1
  <2> QED
    BY <1>2, <2>2, <2>3 DEF DeathMoves
<1>5. deaths' \in [Slots -> 0 .. MaxEvents]
  BY <1>4, RecordSteps
<1>6. ASSUME ~sup'.stopping, NEW i \in Slots
      PROVE  Untold(i)'
  <2>1. /\ child[i] \in Process /\ child'[i] \in Process /\ deaths[i] \in Nat
        /\ Moves(i) /\ DeathMoves(i)
    BY <1>1, <1>2 DEF ChildStep
  <2>2. CASE Relaunch
    <3>1. child' = child /\ child[i].state = "none" /\ deaths'[i] = 0
      BY <1>1, <2>2 DEF Relaunch, EndOK
    <3> QED
      BY <1>3, <3>1 DEF Untold, Death
  <2>3. CASE ~Relaunch
    <3>1. ~sup.stopping /\ Untold(i)
      BY <1>1, <1>2, <1>6, <2>3 DEF SupStep, UntoldOK
    <3>2. CASE deaths'[i] # deaths[i] /\ deaths'[i] # 0
      <4>1. /\ child[i].state = "dead" /\ CountsAsDeath(child[i].code)
            /\ child'[i].state = "none" /\ deaths'[i] <= deaths[i] + 1 /\ deaths'[i] \in Nat
        BY <2>1, <3>2, NoProcessIs DEF DeathMoves
      <4>2. deaths[i] + 1 <= events
        BY <3>1, <4>1 DEF Untold, Death
      <4> QED
        BY <1>1, <1>3, <2>1, <4>1, <4>2 DEF Untold, Death
    <3>3. CASE deaths'[i] = deaths[i] \/ deaths'[i] = 0
      <4>1. deaths'[i] <= deaths[i] /\ deaths[i] + Death(i) <= events
        BY <2>1, <3>1, <3>3 DEF Untold
      <4>2. CASE child'[i] = child[i]
        BY <1>1, <1>3, <2>1, <3>1, <3>3, <4>1, <4>2 DEF Untold, Death
      <4>3. CASE child'[i].state \in {"none", "booting", "running", "wedged"}
        BY <1>1, <1>3, <2>1, <3>1, <3>3, <4>1, <4>3 DEF Untold, Death
      <4>4. CASE events' = events + 1 /\ (child'[i].state = "dead" \/ child'[i].code = "recycle")
        BY <1>1, <1>3, <2>1, <3>1, <3>3, <4>1, <4>4 DEF Untold, Death
      <4>5. CASE /\ child[i].state = "draining" /\ child'[i].state = "dead"
                 /\ child'[i].code = child[i].code
        BY <1>1, <1>3, <2>1, <3>1, <3>3, <4>1, <4>5 DEF Untold, Death, CountsAsDeath
      <4> QED
        BY <1>6, <2>1, <3>1, <4>2, <4>3, <4>4, <4>5, NoProcessIs, BootingIs DEF Moves
    <3> QED
      BY <3>2, <3>3
  <2> QED
    BY <2>2, <2>3
<1> QED
  BY <1>5, <1>6 DEF UntoldOK
-----------------------------------------------------------------------------
(* The end of the supervisor, and its quiet life.                          *)

\* None is left when it returns or raises, and none comes back.
LEMMA EndStep ==
  ASSUME IInv, [Next]_vars
  PROVE  EndOK'
<1>1. /\ TypeOK /\ EndOK /\ sup \in Sup /\ events \in Nat /\ events' \in Nat
      /\ events' >= events /\ child \in [Slots -> Process]
  BY Types, SupSteps DEF IInv, SupStep
<1>2. CASE Event /\ \E taken : Vanish(taken)
  <2>1. /\ sup' = [sup EXCEPT !.at = "crashed"] /\ child' = [i \in Slots |-> NoProcess]
        /\ events' = events + 1
    BY <1>2 DEF Vanish, Event
  <2> QED
    BY <1>1, <2>1, NoProcessIs DEF EndOK
<1>3. CASE sup.at \notin {"returned", "raised", "crashed"} /\ ~(Event /\ \E taken : Vanish(taken))
  <2>1. sup.at # "crashed" /\ ~Relaunch
    BY <1>3 DEF Relaunch
  <2>2. CASE UNCHANGED sup
    BY <1>3, <2>2 DEF EndOK
  <2>3. CASE ReapDone
    <3>1. sup'.at \in {"returned", "raised"} => Children = {}
      <4>1. CASE Children # {}
        <5>1. \/ sup' = [sup EXCEPT !.step = "restart"]
              \/ sup' = [sup EXCEPT !.step = "signals"]
          BY <2>3, <4>1 DEF ReapDone, NoneLeft
        <5> QED
          BY <1>1, <1>3, <5>1 DEF Sup
      <4> QED
        BY <4>1
    <3>2. UNCHANGED child /\ sup'.at # "crashed"
      BY <1>1, <2>1, <2>3 DEF ReapDone, Sup
    <3> QED
      BY <3>1, <3>2 DEF EndOK, Children
  <2>4. CASE /\ sup'.at \in {"starting", "looping", "leaving"}
    BY <2>4 DEF EndOK
  <2>5. CASE BeginSlot \/ StartSlot \/ CheckStarted \/ SignalsDone
    <3>1. sup'.at \in {"starting", "looping", "leaving"}
      BY <1>1, <1>3, <2>5 DEF BeginSlot, StartSlot, CheckStarted, SignalsDone, Sup
    <3> QED
      BY <2>4, <3>1
  <2>6. CASE RestartDue \/ KillOverdue \/ KillComesDue \/ EmbedderStops
    <3>1. sup'.at = sup.at
      BY <1>1, <2>6 DEF RestartDue, KillOverdue, KillComesDue, EmbedderStops, RequestStop, Sup
    <3> QED
      BY <1>1, <1>3, <2>4, <3>1 DEF Sup
  <2>7. CASE NothingLeftToDo \/ RestartFails
    <3>1. \E s \in Sup : sup' = [s EXCEPT !.at = "leaving", !.step = "signals"]
                           \/ sup' = [s EXCEPT !.at = "leaving", !.step = "signals", !.failing = TRUE]
      <4>1. PICK s : s = [sup EXCEPT !.stopping = TRUE]
        OBVIOUS
      <4>2. s \in Sup
        BY <1>1, <4>1 DEF Sup
      <4> QED
        BY <2>7, <4>1, <4>2 DEF NothingLeftToDo, Leave, RestartFails, RequestStop
    <3>2. sup'.at = "leaving"
      BY <3>1 DEF Sup
    <3> QED
      BY <2>4, <3>2
  <2>8. CASE ProcessSignal
    <3>1. sup' = [[sup EXCEPT !.stopping = TRUE] EXCEPT !.seen = @ + 1, !.kill = Escalated(@)]
      BY <2>8 DEF ProcessSignal, RequestStop
    <3>2. sup'.at = sup.at
      BY <1>1, <3>1 DEF Sup
    <3> QED
      BY <1>1, <1>3, <2>4, <3>2 DEF Sup
  <2>9. ASSUME NEW i \in Slots, ReapExited(i)
        PROVE  EndOK'
    <3>1. sup' = sup \/ sup' = [[sup EXCEPT !.stopping = TRUE] EXCEPT !.tripped = TRUE]
      BY <2>9 DEF ReapExited, RequestStop
    <3>2. sup'.at = sup.at
      BY <1>1, <3>1 DEF Sup
    <3> QED
      BY <1>1, <1>3, <2>4, <3>2 DEF Sup
  <2>10. ASSUME NEW i \in Slots,
                \/ RestartComesDue(i) \/ Boots(i) \/ Breaks(i) \/ Recycles(i) \/ Wedges(i)
                \/ DrainEnds(i) \/ NoticesItsParentIsGone(i) \/ FinishesItsBeat(i)
         PROVE  UNCHANGED sup
    BY <2>10
    DEF RestartComesDue, Boots, Breaks, Recycles, Wedges, DrainEnds, NoticesItsParentIsGone,
        FinishesItsBeat, supervising
  <2> QED
    BY <1>3, <2>1, <2>2, <2>3, <2>5, <2>6, <2>7, <2>8, <2>9, <2>10
    DEF Next, SupervisorStep, StartFails, Crash, SendSignal, EmbedderSignals, vars
<1>4. CASE sup.at \in {"returned", "raised", "crashed"}
  <2>1. \A i \in Slots : child[i].state = "none"
    BY <1>1, <1>4 DEF EndOK
  <2>2. ~SupervisorStep /\ ~StartFails /\ ~RestartFails /\ ~Crash /\ ~EmbedderStops
    BY <1>4
    DEF SupervisorStep, ProcessSignal, BeginSlot, StartSlot, CheckStarted, NothingLeftToDo,
        SignalsDone, ReapExited, ReapDone, RestartDue, KillOverdue, InLoop, Runs, StartFails,
        RestartFails, Crash, EmbedderStops
  <2>3. ASSUME UNCHANGED child
        PROVE  \A i \in Slots : child'[i].state = "none"
    BY <2>1, <2>3
  <2>4. CASE EmbedderSignals
    <3>1. \A i \in Slots : Terminated(child[i]) = child[i]
      BY <1>1, <2>1, TerminatedIs
    <3>2. child' = AllTerminated /\ UNCHANGED sup
      BY <2>4 DEF EmbedderSignals
    <3> QED
      BY <1>1, <2>1, <3>1, <3>2 DEF AllTerminated, EndOK
  <2>5. CASE KillComesDue
    <3>1. UNCHANGED child /\ sup'.at = sup.at
      BY <1>1, <2>5 DEF KillComesDue, Sup
    <3> QED
      BY <1>1, <2>1, <3>1 DEF EndOK
  <2>6. CASE Relaunch
    <3>1. Fresh \in Sup /\ Fresh.at = "starting" /\ sup' = [Fresh EXCEPT !.first = FALSE]
      BY <1>1, <2>6, Types DEF Relaunch, Fresh, Sup
    <3>2. sup'.at = "starting"
      BY <3>1 DEF Sup
    <3> QED
      BY <3>2 DEF EndOK
  <2>7. ASSUME NEW i \in Slots,
               \/ RestartComesDue(i) \/ Boots(i) \/ Breaks(i) \/ Recycles(i) \/ Wedges(i)
               \/ DrainEnds(i) \/ NoticesItsParentIsGone(i) \/ FinishesItsBeat(i)
        PROVE  UNCHANGED <<sup, child>>
    BY <2>1, <2>7
    DEF RestartComesDue, Boots, Breaks, Recycles, Wedges, DrainEnds, NoticesItsParentIsGone,
        FinishesItsBeat, supervising, OrphanMoves, Turns
  <2>8. CASE UNCHANGED <<sup, child>>
    BY <1>1, <2>1, <2>8 DEF EndOK
  <2> QED
    BY <2>2, <2>4, <2>5, <2>6, <2>7, <2>8 DEF Next, SendSignal, vars
<1> QED
  BY <1>2, <1>3, <1>4
\* With one signal at most and no event, a child is told once: it drains, or it was
\* not yet working and SIGTERM ended it.
LEMMA WellStep ==
  ASSUME IInv, [Next]_vars, Quiet', Quiet, ~Relaunch, NEW i \in Slots
  PROVE  Well(i)'
<1>1. /\ child[i] \in Process /\ child'[i] \in Process /\ Well(i) /\ Moves(i) /\ ExitMoves(i)
      /\ ~sup.tripped /\ events' = events
      /\ sup.stopping => sup'.stopping
      /\ sup'.seen = 0 => sup.seen = 0
  <2>1. ChildStep /\ SupStep /\ ExitMoves(i) /\ QuietOK
    BY ChildSteps, SupSteps, RecordSteps DEF IInv
  <2>2. child \in [Slots -> Process] /\ sup.seen \in Nat /\ sup' \in Sup
    BY <2>1, Types DEF IInv, SupStep
  <2> QED
    BY <2>1, <2>2 DEF ChildStep, SupStep, QuietOK, Quiet, Sup
<1>2. exit'[i] = "ok"
  BY <1>1 DEF ExitMoves, Well, RecordedExit
<1>3. /\ child'[i].code = "ok" \/ (child'[i].code = "term" /\ child'[i].state = "dead")
      /\ child'[i].state \in {"draining", "dead"} => sup'.stopping
      /\ sup'.seen = 0 => child'[i].sigs = 0
  <2>1. CASE child'[i] \in {child[i], NoProcess, Booting}
    BY <1>1, <2>1, NoProcessIs, BootingIs DEF Well
  <2>2. CASE /\ child'[i] = Terminated(child[i]) /\ sup'.stopping
             /\ (sup.seen = 0 /\ sup'.seen = 1) \/ child[i].state = "none"
    <3>1. CASE child[i].state = "none"
      BY <1>1, <2>2, <3>1, TerminatedIs DEF Well
    <3>2. CASE sup.seen = 0 /\ sup'.seen = 1
      <4>1. child[i].sigs = 0
        BY <1>1, <3>2 DEF Well
      <4>2. child[i].state = "dead" => Terminated(child[i]) = child[i]
        BY DEF Terminated, Turns
      <4>3. \/ Terminated(child[i]).code = child[i].code
            \/ /\ Terminated(child[i]).code = "term"
               /\ Terminated(child[i]).state = "dead"
        BY <1>1, <4>1, TerminatedIs
      <4>4. Terminated(child[i]) # child[i] /\ Terminated(child[i]).code = child[i].code =>
              child[i].code = "ok"
        BY <1>1, <4>2 DEF Well
      <4> QED
        BY <1>1, <2>2, <3>2, <4>3, <4>4 DEF Well
    <3> QED
      BY <2>2, <3>1, <3>2
  <2>3. CASE /\ child'[i].state \in {"running", "wedged"}
             /\ child'[i].code = child[i].code /\ child'[i].sigs = child[i].sigs
             /\ child[i].state # "dead"
    BY <1>1, <2>3 DEF Well
  <2>4. CASE /\ child[i].state = "draining" /\ child'[i].state = "dead"
             /\ child'[i].code = child[i].code /\ child'[i].sigs = child[i].sigs
    BY <1>1, <2>4 DEF Well
  <2>5. events' # events + 1
    BY <1>1, Types DEF IInv
  <2> QED
    BY <1>1, <2>1, <2>2, <2>3, <2>4, <2>5 DEF Moves
<1> QED
  BY <1>2, <1>3 DEF Well

LEMMA QuietStep ==
  ASSUME IInv, [Next]_vars
  PROVE  QuietOK'
<1> SUFFICES ASSUME Quiet'
             PROVE  /\ embedder' = "idle" /\ ~sup'.tripped /\ sup'.kill = "none"
                    /\ sup'.at = "starting" /\ sup'.step \in {"start", "started"} =>
                         ~sup'.stopping
                    /\ \A i \in Slots : Well(i)'
  BY DEF QuietOK
<1>1. /\ TypeOK /\ EndOK /\ QuietOK /\ sup \in Sup /\ SupStep /\ sup' \in Sup
      /\ events \in Nat /\ sup.seen \in Nat
  BY Types, SupSteps DEF IInv, SupStep
<1>2. events' = 0 /\ events = 0 /\ ~Relaunch
  BY <1>1 DEF SupStep, Quiet, EndOK, Relaunch
<1>3. /\ Quiet /\ sup.seen <= sup'.seen /\ sup'.seen <= 1
  BY <1>1, <1>2 DEF SupStep, Quiet, Sup
<1>4. /\ embedder = "idle" /\ ~sup.tripped /\ sup.kill = "none"
      /\ \A i \in Slots : child[i].state = "dead" => sup.stopping
      /\ sup.at = "starting" /\ sup.step \in {"start", "started"} => ~sup.stopping
  BY <1>1, <1>3 DEF QuietOK, Well
<1>5. ~Event
  BY <1>2 DEF Event
<1>6. embedder' = "idle"
  BY <1>2, <1>4, <1>5
  DEF Next, SupervisorStep, ProcessSignal, BeginSlot, StartSlot, CheckStarted, NothingLeftToDo,
      SignalsDone, ReapExited, ReapDone, RestartDue, KillOverdue, StartFails, RestartFails,
      Crash, KillComesDue, SendSignal, EmbedderStops, EmbedderSignals, RestartComesDue, Boots,
      Breaks, Recycles, Wedges, DrainEnds, NoticesItsParentIsGone, FinishesItsBeat,
      supervising, vars
<1> DEFINE Goal == /\ ~sup'.tripped /\ sup'.kill = "none"
                   /\ sup'.at = "starting" /\ sup'.step \in {"start", "started"} =>
                        ~sup'.stopping
<1>7. ASSUME UNCHANGED sup
      PROVE  Goal
  BY <1>4, <1>7
<1>8. ASSUME ProcessSignal
      PROVE  Goal
  <2>1. /\ sup' = [[sup EXCEPT !.stopping = TRUE] EXCEPT !.seen = @ + 1, !.kill = Escalated(@)]
        /\ sup.step = "signals"
    BY <1>8 DEF ProcessSignal, RequestStop
  <2>2. sup'.seen = sup.seen + 1 /\ sup'.tripped = sup.tripped /\ sup'.step = "signals"
    BY <1>1, <2>1 DEF Sup
  <2>3. sup.seen = 0
    BY <1>1, <1>3, <2>2
  <2>4. Escalated(sup.kill) = "none"
    BY <1>4, <2>3 DEF Escalated
  <2>5. sup'.kill = "none"
    BY <1>1, <2>1, <2>4 DEF Sup
  <2> QED
    BY <1>4, <2>2, <2>5
<1>9. ASSUME BeginSlot
      PROVE  Goal
  <2>1. CASE sup.stopping \/ sup.next = Processes
    <3>1. sup' = [sup EXCEPT !.at = "looping"]
      BY <1>9, <2>1 DEF BeginSlot
    <3> QED
      BY <1>1, <1>4, <3>1 DEF Sup
  <2>2. CASE ~(sup.stopping \/ sup.next = Processes)
    <3>1. sup' = [sup EXCEPT !.step = "start"]
      BY <1>9, <2>2 DEF BeginSlot
    <3> QED
      BY <1>1, <1>4, <2>2, <3>1 DEF Sup
  <2> QED
    BY <2>1, <2>2
<1>10. ASSUME StartSlot
       PROVE  Goal
  <2>1. /\ sup' = [sup EXCEPT !.step = "started"]
        /\ sup.at = "starting" /\ sup.step = "start"
    BY <1>10 DEF StartSlot
  <2> QED
    BY <1>1, <1>4, <2>1 DEF Sup
<1>11. ASSUME CheckStarted
       PROVE  Goal
  <2>1. sup' = [sup EXCEPT !.step = "signals", !.next = @ + 1]
    BY <1>11 DEF CheckStarted
  <2> QED
    BY <1>1, <1>4, <2>1 DEF Sup
<1>12. ASSUME NothingLeftToDo
       PROVE  Goal
  <2>1. sup' = [[sup EXCEPT !.stopping = TRUE] EXCEPT !.at = "leaving", !.step = "signals"]
    BY <1>12 DEF NothingLeftToDo, Leave, RequestStop
  <2> QED
    BY <1>1, <1>4, <2>1 DEF Sup
<1>13. ASSUME SignalsDone
       PROVE  Goal
  <2>1. \/ sup' = [sup EXCEPT !.step = "reap"]
        \/ sup' = [sup EXCEPT !.step = "kill"]
    BY <1>13 DEF SignalsDone
  <2> QED
    BY <1>1, <1>4, <2>1 DEF Sup
<1>14. ASSUME NEW i \in Slots, ReapExited(i)
       PROVE  UNCHANGED sup
  BY <1>4, <1>14 DEF ReapExited
<1>15. ASSUME ReapDone
       PROVE  Goal
  <2>1. \/ sup' = [sup EXCEPT !.step = "restart"]
        \/ sup' = [sup EXCEPT !.at = "raised"]
        \/ sup' = [sup EXCEPT !.at = "returned"]
        \/ sup' = [sup EXCEPT !.step = "signals"]
    BY <1>15 DEF ReapDone
  <2> QED
    BY <1>1, <1>4, <2>1 DEF Sup
<1>16. ASSUME RestartDue
       PROVE  Goal
  <2>1. sup' = [sup EXCEPT !.step = "kill"]
    BY <1>16 DEF RestartDue
  <2> QED
    BY <1>1, <1>4, <2>1 DEF Sup
<1>17. ASSUME KillOverdue
       PROVE  Goal
  <2>1. PICK step \in {"signals", "reap"} :
          sup' = [sup EXCEPT !.step = step, !.kill = IF @ = "due" THEN "none" ELSE @]
    BY <1>17 DEF KillOverdue
  <2> QED
    BY <1>1, <1>4, <2>1 DEF Sup
<1>18. ~KillComesDue
  BY <1>4 DEF KillComesDue
<1>19. Goal
  BY <1>2, <1>5, <1>7, <1>8, <1>9, <1>10, <1>11, <1>12, <1>13, <1>14, <1>15, <1>16, <1>17, <1>18
  DEF Next, SupervisorStep, StartFails, RestartFails, Crash, SendSignal, EmbedderStops,
      EmbedderSignals, RestartComesDue, Boots, Breaks, Recycles, Wedges, DrainEnds,
      NoticesItsParentIsGone, FinishesItsBeat, supervising, vars
<1>20. \A i \in Slots : Well(i)'
  BY <1>2, <1>3, WellStep
<1> QED
  BY <1>6, <1>19, <1>20
-----------------------------------------------------------------------------
(* The files.                                                              *)

Files == {"none", "child", "orphan", "old"}

\* What _invalidate leaves in the slots it is called for: nothing, or an old file, reported.
LEMMA InvalidateIs ==
  ASSUME NEW some \in SUBSET Slots, Invalidate(some), TypeOK
  PROVE  /\ file' \in [Slots -> Files] /\ reported' \subseteq Slots
         /\ reported \subseteq reported'
         /\ \A i \in some : file'[i] = "none" \/ (file'[i] = "old" /\ i \in reported')
         /\ \A i \in Slots \ some : file'[i] = file[i]
<1>1. PICK failed \in SUBSET {i \in some \cap Stubborn : file[i] # "none"} :
        /\ file' = [i \in Slots |-> IF i \in failed THEN Inherited(file[i])
                                    ELSE IF i \in some THEN "none" ELSE file[i]]
        /\ reported' = reported \cup failed
  BY DEF Invalidate
<1>2. /\ file \in [Slots -> Files] /\ reported \subseteq Slots /\ failed \subseteq some
      /\ \A i \in failed : Inherited(file[i]) = "old"
  BY DEF TypeOK, Files, Inherited
<1> QED
  BY <1>1, <1>2 DEF Files

\* What is left of an earlier process is removed as a slot is started, and as its
\* process is reaped, or that it could not be is reported.
LEMMA SaidStep ==
  ASSUME IInv, [Next]_vars
  PROVE  /\ file' \in [Slots -> Files] /\ reported' \subseteq Slots /\ launched' \subseteq Slots
         /\ SaidOK'
<1> DEFINE Goal == /\ file' \in [Slots -> Files] /\ reported' \subseteq Slots
                   /\ launched' \subseteq Slots /\ SaidOK'
<1>1. /\ file \in [Slots -> Files] /\ reported \subseteq Slots /\ launched \subseteq Slots
      /\ SaidOK /\ TypeOK
  BY DEF IInv, TypeOK, Files
<1>2. CASE UNCHANGED <<file, reported, launched>>
  BY <1>1, <1>2 DEF SaidOK
<1>3. ASSUME NEW some \in SUBSET Slots, Invalidate(some), launched' \subseteq launched \cup some
      PROVE  Goal
  BY <1>1, <1>3, InvalidateIs DEF SaidOK
<1>4. ASSUME NEW i \in Slots, NEW written \in {"child", "orphan"},
             file' = [file EXCEPT ![i] = written], UNCHANGED <<reported, launched>>
      PROVE  Goal
  BY <1>1, <1>4 DEF SaidOK, Files
<1>5. CASE StartSlot
  <2>1. \/ UNCHANGED <<file, reported, launched>>
        \/ Invalidate({sup.next}) /\ launched' = launched \cup {sup.next}
    BY <1>5 DEF StartSlot, StartChild
  <2>2. {sup.next} \in SUBSET Slots
    BY <1>5, Types DEF StartSlot, IInv, Bounds, Slots
  <2> QED
    BY <1>2, <1>3, <2>1, <2>2
<1>6. ASSUME NEW i \in Slots, ReapExited(i)
      PROVE  Goal
  <2>1. Invalidate({i}) /\ UNCHANGED launched /\ {i} \in SUBSET Slots
    BY <1>6 DEF ReapExited
  <2> QED
    BY <1>3, <2>1
<1>7. CASE RestartDue
  <2>1. Due \in SUBSET Slots /\ Invalidate(Due) /\ launched' = launched \cup Due
    BY <1>7 DEF RestartDue, Started, Due
  <2> QED
    BY <1>3, <2>1
<1>8. CASE RestartFails
  <2>1. PICK i \in Due, before \in SUBSET Due :
          Invalidate(before \cup {i}) /\ launched' = launched \cup before
    BY <1>8 DEF RestartFails, Started
  <2>2. before \cup {i} \in SUBSET Slots
    BY DEF Due
  <2> QED
    BY <1>3, <2>1, <2>2
<1>9. CASE \E taken : Vanish(taken)
  <2>1. PICK taken :
          /\ file' = [i \in Slots |-> IF i \in taken THEN "none" ELSE Inherited(file[i])]
          /\ reported' = {} /\ launched' = {}
    BY <1>9 DEF Vanish
  <2>2. \A i \in Slots : Inherited(file[i]) \in Files
    BY <1>1 DEF Inherited, Files
  <2> QED
    BY <2>1, <2>2 DEF SaidOK, Files
<1>10. ASSUME NEW i \in Slots, Boots(i) \/ FinishesItsBeat(i)
       PROVE  Goal
  <2>1. /\ \/ UNCHANGED file
           \/ file' = [file EXCEPT ![i] = "child"]
           \/ file' = [file EXCEPT ![i] = "orphan"]
        /\ UNCHANGED <<reported, launched>>
    BY <1>10 DEF Boots, FinishesItsBeat, supervising
  <2> QED
    BY <1>2, <1>4, <2>1
<1>11. ASSUME NEW i \in Slots,
              \/ RestartComesDue(i) \/ Boots(i) \/ Breaks(i) \/ Recycles(i) \/ Wedges(i)
              \/ DrainEnds(i) \/ NoticesItsParentIsGone(i) \/ FinishesItsBeat(i)
       PROVE  Goal
  BY <1>2, <1>10, <1>11
  DEF RestartComesDue, Breaks, Recycles, Wedges, DrainEnds, NoticesItsParentIsGone, supervising
<1> QED
  BY <1>2, <1>5, <1>6, <1>7, <1>8, <1>9, <1>11
  DEF Next, SupervisorStep, ProcessSignal, BeginSlot, CheckStarted, NothingLeftToDo,
      SignalsDone, ReapDone, KillOverdue, StartFails, Crash, KillComesDue, SendSignal,
      EmbedderStops, EmbedderSignals, Relaunch, vars

\* A child's file is written as the child boots, and is no child's once the slot is
\* started anew or its process is collected.
LEMMA PresentStep ==
  ASSUME IInv, [Next]_vars
  PROVE  PresentOK'
<1>1. /\ child \in [Slots -> Process] /\ file \in [Slots -> Files] /\ PresentOK /\ TypeOK
  BY Types DEF IInv, TypeOK, Files
<1>2. CASE UNCHANGED file /\ \A i \in Slots : \/ child'[i] = child[i]
                                              \/ child'[i].state \notin Idle
  BY <1>1, <1>2 DEF PresentOK
<1>3. \A i \in Slots : \/ Terminated(child[i]) = child[i] \/ Terminated(child[i]).state \notin Idle
  BY <1>1, TerminatedIs DEF Idle
<1>4. \A i \in Slots : AllTerminated[i] = Terminated(child[i])
  BY DEF AllTerminated
<1>5. ASSUME NEW some \in SUBSET Slots, Invalidate(some),
             \A i \in Slots \ some : child'[i] = child[i] \/ child'[i].state \notin Idle
      PROVE  PresentOK'
  BY <1>1, <1>5, InvalidateIs DEF PresentOK
<1>6. CASE ProcessSignal \/ NothingLeftToDo \/ EmbedderSignals
  <2>1. child' = AllTerminated /\ UNCHANGED file
    BY <1>6 DEF ProcessSignal, NothingLeftToDo, Leave, EmbedderSignals
  <2> QED
    BY <1>2, <1>3, <1>4, <2>1
<1>7. CASE StartSlot
  <2>1. \/ UNCHANGED <<file, child>>
        \/ Invalidate({sup.next}) /\ child' = [child EXCEPT ![sup.next] = Booting]
    BY <1>7 DEF StartSlot, StartChild, Booting
  <2>2. {sup.next} \in SUBSET Slots
    BY <1>7, Types DEF StartSlot, IInv, Bounds, Slots
  <2> QED
    BY <1>1, <1>2, <1>5, <2>1, <2>2
<1>8. CASE CheckStarted
  <2>1. /\ child' = [child EXCEPT ![sup.next] = Terminated(@)] \/ UNCHANGED child
        /\ UNCHANGED file
    BY <1>8 DEF CheckStarted
  <2> QED
    BY <1>1, <1>2, <1>3, <2>1
<1>9. ASSUME NEW i \in Slots, ReapExited(i)
      PROVE  PresentOK'
  <2>1. /\ Invalidate({i})
        /\ \/ child' = [child EXCEPT ![i] = NoProcess]
           \/ child' = [AllTerminated EXCEPT ![i] = NoProcess]
    BY <1>9 DEF ReapExited
  <2>2. \A j \in Slots \ {i} : child'[j] = child[j] \/ child'[j] = Terminated(child[j])
    BY <1>1, <1>4, <2>1 DEF AllTerminated
  <2> QED
    BY <1>3, <1>5, <2>1, <2>2
<1>10. CASE RestartDue
  <2>1. /\ Due \in SUBSET Slots /\ Invalidate(Due)
        /\ \A i \in Slots \ Due : child'[i] = child[i]
    BY <1>10 DEF RestartDue, WithBooting, Due
  <2> QED
    BY <1>5, <2>1
<1>11. CASE RestartFails
  <2>1. PICK i \in Due, before \in SUBSET Due :
          /\ Invalidate(before \cup {i})
          /\ child' = [j \in Slots |-> Terminated(WithBooting(before)[j])]
    BY <1>11 DEF RestartFails
  <2>2. /\ before \cup {i} \in SUBSET Slots
        /\ \A j \in Slots \ (before \cup {i}) : child'[j] = Terminated(child[j])
    BY <2>1 DEF Due, WithBooting
  <2> QED
    BY <1>3, <1>5, <2>1, <2>2
<1>12. CASE KillOverdue
  <2>1. /\ UNCHANGED child \/ child' = [i \in Slots |-> Killed(child[i])]
        /\ UNCHANGED file
    BY <1>12 DEF KillOverdue
  <2> QED
    BY <1>1, <1>2, <2>1, KilledIs DEF Idle
<1>13. CASE \E taken : Vanish(taken)
  <2>1. PICK taken : file' = [i \in Slots |-> IF i \in taken THEN "none" ELSE Inherited(file[i])]
    BY <1>13 DEF Vanish
  <2> QED
    BY <2>1 DEF PresentOK, Inherited
<1>14. ASSUME NEW i \in Slots, NEW to, ChildMoves(i, to), to.state \notin Idle,
              UNCHANGED file \/ file' = [file EXCEPT ![i] = "child"]
       PROVE  PresentOK'
  <2>1. child' = [child EXCEPT ![i] = to]
    BY <1>14 DEF ChildMoves
  <2> QED
    BY <1>1, <1>14, <2>1 DEF PresentOK
<1>15. ASSUME NEW i \in Slots, NEW to, OrphanMoves(i, to),
              UNCHANGED file \/ file' = [file EXCEPT ![i] = "orphan"]
       PROVE  PresentOK'
  BY <1>1, <1>15 DEF PresentOK, OrphanMoves
<1>16. ASSUME NEW i \in Slots,
              \/ RestartComesDue(i) \/ Boots(i) \/ Breaks(i) \/ Recycles(i) \/ Wedges(i)
              \/ DrainEnds(i) \/ NoticesItsParentIsGone(i) \/ FinishesItsBeat(i)
       PROVE  PresentOK'
  <2>1. child[i] \in Process
    BY <1>1
  <2>2. CASE Boots(i)
    <3>1. [child[i] EXCEPT !.state = "running"].state \notin Idle
      BY <2>1 DEF Process, Idle
    <3>2. \/ /\ ChildMoves(i, [child[i] EXCEPT !.state = "running"])
             /\ file' = [file EXCEPT ![i] = "child"]
          \/ OrphanMoves(i, [orphan[i] EXCEPT !.state = "running"]) /\ UNCHANGED file
      BY <2>2 DEF Boots
    <3> QED
      BY <1>14, <1>15, <3>1, <3>2
  <2>3. CASE Breaks(i)
    <3>1. /\ [child[i] EXCEPT !.state = "dead", !.code = "failed"].state \notin Idle
          /\ child[i].state \in Turns \cup {"wedged"} => Killed(child[i]).state \notin Idle
      BY <2>1 DEF Process, Idle, Killed, Turns, Lives
    <3>2. /\ \/ ChildMoves(i, [child[i] EXCEPT !.state = "dead", !.code = "failed"])
             \/ /\ child[i].state \in Turns \cup {"wedged"}
                /\ ChildMoves(i, Killed(child[i]))
          /\ UNCHANGED file
      BY <2>3 DEF Breaks
    <3> QED
      BY <1>14, <3>1, <3>2
  <2>4. CASE Recycles(i)
    <3>1. [child[i] EXCEPT !.state = "draining", !.code = "recycle"].state \notin Idle
      BY <2>1 DEF Process, Idle
    <3>2. /\ ChildMoves(i, [child[i] EXCEPT !.state = "draining", !.code = "recycle"])
          /\ UNCHANGED file
      BY <2>4 DEF Recycles
    <3> QED
      BY <1>14, <3>1, <3>2
  <2>5. CASE Wedges(i)
    <3>1. [child[i] EXCEPT !.state = "wedged"].state \notin Idle
      BY <2>1 DEF Process, Idle
    <3>2. ChildMoves(i, [child[i] EXCEPT !.state = "wedged"]) /\ UNCHANGED file
      BY <2>5 DEF Wedges
    <3> QED
      BY <1>14, <3>1, <3>2
  <2>6. CASE DrainEnds(i)
    <3>1. [child[i] EXCEPT !.state = "dead"].state \notin Idle
      BY <2>1 DEF Process, Idle
    <3>2. /\ \/ ChildMoves(i, [child[i] EXCEPT !.state = "dead"])
             \/ OrphanMoves(i, NoProcess)
          /\ UNCHANGED file
      BY <2>6 DEF DrainEnds
    <3> QED
      BY <1>14, <1>15, <3>1, <3>2
  <2>7. CASE RestartComesDue(i)
    BY <1>2, <2>7 DEF RestartComesDue
  <2>8. CASE NoticesItsParentIsGone(i)
    <3>1. OrphanMoves(i, [orphan[i] EXCEPT !.state = "draining"]) /\ UNCHANGED file
      BY <2>8 DEF NoticesItsParentIsGone
    <3> QED
      BY <1>15, <3>1
  <2>9. CASE FinishesItsBeat(i)
    <3>1. /\ OrphanMoves(i, [orphan[i] EXCEPT !.beating = FALSE])
          /\ file' = [file EXCEPT ![i] = "orphan"]
      BY <2>9 DEF FinishesItsBeat
    <3> QED
      BY <1>15, <3>1
  <2> QED
    BY <1>16, <2>2, <2>3, <2>4, <2>5, <2>6, <2>7, <2>8, <2>9
<1>17. CASE UNCHANGED <<file, child>>
  BY <1>2, <1>17
<1> QED
  BY <1>6, <1>7, <1>8, <1>9, <1>10, <1>11, <1>12, <1>13, <1>16, <1>17
  DEF Next, SupervisorStep, BeginSlot, SignalsDone, ReapDone, StartFails, Crash,
      KillComesDue, SendSignal, EmbedderStops, Relaunch, vars

\* The restarts that wait, and the orphans.
LEMMA RestStep ==
  ASSUME IInv, [Next]_vars
  PROVE  due' \in [Slots -> {"no", "waiting", "due"}] /\ orphan' \in [Slots -> Process]
<1> DEFINE Goal == due' \in [Slots -> {"no", "waiting", "due"}] /\ orphan' \in [Slots -> Process]
<1>1. /\ due \in [Slots -> {"no", "waiting", "due"}] /\ orphan \in [Slots -> Process]
      /\ child \in [Slots -> Process] /\ NoRestarts \in [Slots -> {"no", "waiting", "due"}]
  BY Types DEF IInv, TypeOK, NoRestarts
<1>2. CASE UNCHANGED <<due, orphan>>
  BY <1>1, <1>2
<1>3. CASE \E taken : Vanish(taken)
  <2>1. UNCHANGED due
    BY <1>3 DEF Vanish
  <2>2. PICK told \in SUBSET Slots, beating \in SUBSET Slots :
          orphan' = [i \in Slots |->
            LET left == Orphaned(child[i], i \in told, i \in beating)
            IN  IF left.state \in Lives THEN left ELSE orphan[i]]
    BY <1>3 DEF Vanish
  <2>3. ASSUME NEW i \in Slots
        PROVE  Orphaned(child[i], i \in told, i \in beating) \in Process
    <3>1. PICK q \in Process : q = IF i \in told /\ child[i].state # "booting"
                                     THEN Terminated(child[i]) ELSE child[i]
      BY <1>1, TerminatedIs
    <3>2. PICK b \in BOOLEAN : b = (i \in beating /\ q.state \in Turns)
      OBVIOUS
    <3>3. Orphaned(child[i], i \in told, i \in beating) = [q EXCEPT !.beating = b]
      BY <3>1, <3>2 DEF Orphaned
    <3> QED
      BY <3>3 DEF Process
  <2> QED
    BY <1>1, <2>1, <2>2, <2>3
<1>4. CASE \/ RestartDue \/ RestartFails \/ NothingLeftToDo \/ ProcessSignal \/ EmbedderStops
           \/ Relaunch
  <2>1. due' = NoRestarts \/ due' = [i \in Slots |-> IF i \in Due THEN "no" ELSE due[i]]
    BY <1>4 DEF RestartDue, RestartFails, NothingLeftToDo, Leave, ProcessSignal, EmbedderStops,
                Relaunch
  <2>2. UNCHANGED orphan
    BY <1>4 DEF RestartDue, RestartFails, NothingLeftToDo, Leave, ProcessSignal, EmbedderStops,
                Relaunch
  <2> QED
    BY <1>1, <2>1, <2>2
<1>5. CASE StartSlot
  <2>1. (UNCHANGED due \/ due' = [due EXCEPT ![sup.next] = "no"]) /\ UNCHANGED orphan
    BY <1>5 DEF StartSlot, StartChild
  <2> QED
    BY <1>1, <2>1
<1>6. ASSUME NEW i \in Slots, ReapExited(i)
      PROVE  Goal
  <2>1. /\ \/ UNCHANGED due \/ due' = NoRestarts
           \/ due' = [due EXCEPT ![i] = "waiting"]
        /\ UNCHANGED orphan
    BY <1>6 DEF ReapExited
  <2> QED
    BY <1>1, <2>1
<1>7. ASSUME NEW i \in Slots, RestartComesDue(i)
      PROVE  Goal
  BY <1>1, <1>7 DEF RestartComesDue
<1>8. ASSUME NEW i \in Slots, NEW to \in Process, OrphanMoves(i, to), UNCHANGED due
      PROVE  Goal
  BY <1>1, <1>8 DEF OrphanMoves
<1>9. ASSUME NEW i \in Slots,
             \/ Boots(i) \/ Breaks(i) \/ Recycles(i) \/ Wedges(i)
             \/ DrainEnds(i) \/ NoticesItsParentIsGone(i) \/ FinishesItsBeat(i)
      PROVE  Goal
  <2>1. UNCHANGED due
    BY <1>9 DEF Boots, Breaks, Recycles, Wedges, DrainEnds, NoticesItsParentIsGone,
                FinishesItsBeat, supervising
  <2>2. PICK runs, drains, beats :
          /\ runs = [orphan[i] EXCEPT !.state = "running"]
          /\ drains = [orphan[i] EXCEPT !.state = "draining"]
          /\ beats = [orphan[i] EXCEPT !.beating = FALSE]
    OBVIOUS
  <2>3. runs \in Process /\ drains \in Process /\ beats \in Process
    BY <1>1, <2>2 DEF Process
  <2>4. \/ UNCHANGED orphan
        \/ OrphanMoves(i, runs) \/ OrphanMoves(i, drains) \/ OrphanMoves(i, beats)
        \/ OrphanMoves(i, NoProcess)
    BY <1>9, <2>2 DEF Boots, Breaks, Recycles, Wedges, DrainEnds, NoticesItsParentIsGone,
                      FinishesItsBeat, ChildMoves
  <2> QED
    BY <1>1, <1>2, <1>8, <2>1, <2>3, <2>4, NoProcessIs
<1> QED
  BY <1>2, <1>3, <1>4, <1>5, <1>6, <1>7, <1>9
  DEF Next, SupervisorStep, BeginSlot, CheckStarted, SignalsDone, ReapDone, KillOverdue,
      StartFails, Crash, KillComesDue, SendSignal, EmbedderSignals, vars
-----------------------------------------------------------------------------
(* The invariant.                                                          *)

LEMMA InitHolds == Init => IInv
<1> SUFFICES ASSUME Init
             PROVE  IInv
  OBVIOUS
<1>1. /\ Fresh \in Sup /\ Fresh.at = "starting" /\ Fresh.step = "signals" /\ Fresh.seen = 0
      /\ Fresh.kill = "none" /\ ~Fresh.tripped
  BY SupervisorAssumption DEF Fresh, Sup
<1>2. /\ sup = Fresh /\ signals = 0 /\ events = 0 /\ embedder = "idle" /\ launched = {}
      /\ reported = {}
      /\ child = [i \in Slots |-> NoProcess] /\ orphan = [i \in Slots |-> NoProcess]
      /\ due = [i \in Slots |-> "no"] /\ deaths = [i \in Slots |-> 0]
      /\ exit = [i \in Slots |-> "ok"]
      /\ file \in [Slots -> {"none", "old"}]
  BY DEF Init
<1>3. MaxEvents \in Nat /\ 0 \in 0 .. MaxEvents /\ "ok" \in Codes
  BY SupervisorAssumption DEF Codes
<1>4. TypeOK
  BY <1>1, <1>2, <1>3, NoProcessIs DEF TypeOK, Sup
<1>5. Bounds /\ StopOK /\ EndOK /\ PresentOK /\ SaidOK
  BY <1>1, <1>2, <1>3 DEF Bounds, StopOK, EndOK, PresentOK, SaidOK
<1>6. UntoldOK
  BY <1>2, NoProcessIs DEF UntoldOK, Untold, Death
<1>7. QuietOK
  BY <1>1, <1>2, NoProcessIs DEF QuietOK, Well
<1> QED
  BY <1>4, <1>5, <1>6, <1>7 DEF IInv

LEMMA NextHolds == IInv /\ [Next]_vars => IInv'
<1> SUFFICES ASSUME IInv, [Next]_vars
             PROVE  IInv'
  OBVIOUS
<1>1. SupStep /\ ChildStep
  BY SupSteps, ChildSteps
<1>2. TypeOK'
  BY <1>1, RecordSteps, UntoldStep, SaidStep, RestStep
  DEF TypeOK, SupStep, ChildStep, Sup, Files
<1> QED
  BY <1>1, <1>2, UntoldStep, EndStep, QuietStep, SaidStep, PresentStep DEF IInv, SupStep

\* The inductive invariant.
THEOREM Invariant == Spec => []IInv
<1> QED
  BY InitHolds, NextHolds, PTL DEF Spec

\* Every variable keeps its type.
THEOREM TypeCorrect == Spec => []TypeOK
<1>1. IInv => TypeOK
  BY DEF IInv
<1> QED
  BY <1>1, Invariant, PTL

\* run() leaves no child behind, whether it returns or raises out of its loop.
THEOREM NoChildIsLeft == Spec => []LeavesNoChildBehind
<1>1. IInv => LeavesNoChildBehind
  BY DEF IInv, EndOK, LeavesNoChildBehind, Alive, Lives
<1> QED
  BY <1>1, Invariant, PTL

\* One signal, at any moment and whatever the processes are at, is no failure.
THEOREM OrderlyStops == Spec => []AnOrderlyStopIsNoFailure
<1>1. IInv => AnOrderlyStopIsNoFailure
  BY DEF IInv, QuietOK, Quiet, Well, AnOrderlyStopIsNoFailure, Returned, Badly
<1> QED
  BY <1>1, Invariant, PTL

\* A slot's file is a touch of its present process, or of an orphan's last beat, or it
\* could not be removed and the supervisor said so.
THEOREM FilesSpeak == Spec => []FilesSpeakForTheirSlot
<1>1. IInv => FilesSpeakForTheirSlot
  BY DEF IInv, TypeOK, PresentOK, SaidOK, Idle, FilesSpeakForTheirSlot
<1> QED
  BY <1>1, Invariant, PTL
==============================================================================
