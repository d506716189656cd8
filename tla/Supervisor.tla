----------------------------- MODULE Supervisor -----------------------------
(***************************************************************************)
(* ox_worker --processes N: the supervisor, the worker processes of its    *)
(* slots, the signals between them, and the heartbeat files by which a     *)
(* probe judges the slots.                                                 *)
(*                                                                         *)
(* The supervisor acts on the signals it was sent from its own loop, in    *)
(* passes.  A child that was sent SIGTERM before it installed its handlers *)
(* dies of it; later the first one makes it drain and the second one ends  *)
(* it.  A supervisor that is killed leaves its children as orphans, and    *)
(* whoever started it starts another beside them.                          *)
(***************************************************************************)
EXTENDS Integers, FiniteSets

CONSTANTS
  Processes,    \* --processes
  RestartCap,
  Stubborn,     \* bound: the slots whose heartbeat file may be impossible to remove
  MaxEvents,    \* bound on what is sent to, or happens to, any process
  MaxFaults     \* and on what of it is no signal

ASSUME SupervisorAssumption ==
  /\ Processes \in Nat \ {0} /\ RestartCap \in Nat /\ MaxEvents \in Nat /\ MaxFaults \in Nat
  /\ Stubborn \subseteq 0 .. Processes - 1

VARIABLES
  sup,       \* the supervisor
  child,     \* per slot, what _children holds
  due,       \* per slot, its restart: _restart_due
  deaths,    \* per slot, its deaths of the last minute
  exit,      \* per slot, how its last process ended: _exit_codes
  signals,   \* recorded by the handler, to be acted on
  embedder,  \* another thread that stops the supervisor
  orphan,    \* per slot, the process that an earlier supervisor left there
  file,      \* per slot, its heartbeat file and who wrote it
  reported,  \* slots whose file could not be removed: _invalidation_reported
  launched,  \* the slots this supervisor has started, for the properties
  events     \* besides signals: what happened to a process

vars == <<sup, child, due, deaths, exit, signals, embedder, orphan, file, reported, launched,
          events>>
-----------------------------------------------------------------------------
Slots == 0 .. Processes - 1

\* How a process ends: drained, recycled (75), with an error, by its second
\* signal (130), of SIGTERM, of SIGKILL.
Codes == {"ok", "recycle", "failed", "forced", "term", "killed"}

\* code: what it will exit with, or did.  beating: it looked at its parent, and
\* is to touch its file; kept only where the parent ends in between.
Process ==
  [state : {"none", "booting", "running", "draining", "wedged", "dead"},
   sigs : 0 .. 1, code : Codes, beating : BOOLEAN]

NoProcess == [state |-> "none", sigs |-> 0, code |-> "ok", beating |-> FALSE]

Lives == {"booting", "running", "draining", "wedged"}
Turns == {"running", "draining"}    \* its loop does

\* at: where run() is, "leaving" once in its finally; step: of the pass; failing:
\* with an exception to raise; first: no supervisor was here before.
TypeOK ==
  /\ sup \in [at : {"starting", "looping", "leaving", "returned", "raised", "crashed"},
              step : {"signals", "start", "started", "reap", "restart", "kill"},
              next : 0 .. Processes, stopping : BOOLEAN, tripped : BOOLEAN, failing : BOOLEAN,
              seen : 0 .. MaxEvents, kill : {"none", "armed", "due"}, first : BOOLEAN]
  /\ child \in [Slots -> Process] /\ orphan \in [Slots -> Process]
  /\ due \in [Slots -> {"no", "waiting", "due"}]
  /\ deaths \in [Slots -> 0 .. MaxEvents]
  /\ exit \in [Slots -> Codes]
  /\ signals \in 0 .. MaxEvents
  /\ embedder \in {"idle", "stopped", "done"}
  /\ file \in [Slots -> {"none", "child", "orphan", "old"}]
  /\ reported \subseteq Slots /\ launched \subseteq Slots /\ events \in 0 .. MaxEvents

Fresh == [at |-> "starting", step |-> "signals", next |-> 0, stopping |-> FALSE,
          tripped |-> FALSE, failing |-> FALSE, seen |-> 0, kill |-> "none", first |-> TRUE]

\* A previous run of this container may have left its files.
Init ==
  /\ sup = Fresh
  /\ child = [i \in Slots |-> NoProcess] /\ orphan = [i \in Slots |-> NoProcess]
  /\ due = [i \in Slots |-> "no"] /\ deaths = [i \in Slots |-> 0]
  /\ exit = [i \in Slots |-> "ok"]
  /\ signals = 0 /\ embedder = "idle"
  /\ \E left \in {"none", "old"} : file = [i \in Slots |-> left]
  /\ reported = {} /\ launched = {} /\ events = 0

InLoop(step) == sup.at \in {"looping", "leaving"} /\ sup.step = step

Runs == sup.at \in {"starting", "looping", "leaving"}

\* Something happens that the program did not do.
Possible == events + sup.seen + signals < MaxEvents
Event == Possible /\ events < MaxFaults /\ events' = events + 1

Alive(i) == child[i].state \in Lives

Children == {i \in Slots : child[i].state # "none"}
-----------------------------------------------------------------------------
(* What a signal does to a worker process.                                 *)

\* handle_signal: the first asks for a drain, also of a process that drains
\* already because it recycles or lost its parent; the second ends it.
HandleTerm(c) ==
  IF c.sigs = 0 THEN [c EXCEPT !.state = "draining", !.sigs = 1]
                ELSE [c EXCEPT !.state = "dead", !.code = "forced"]

\* SIGTERM.  Before the handlers are there it kills; a wedged process acts on nothing.
Terminated(c) ==
  IF c.state = "booting" THEN [c EXCEPT !.state = "dead", !.code = "term"]
  ELSE IF c.state \in Turns THEN HandleTerm(c) ELSE c

Killed(c) == IF c.state \in Lives THEN [c EXCEPT !.state = "dead", !.code = "killed"] ELSE c

AllTerminated == [i \in Slots |-> Terminated(child[i])]
-----------------------------------------------------------------------------
(* The supervisor.                                                         *)

\* What a file that was not removed is to the slot's next process.
Inherited(written) == IF written \in {"child", "orphan"} THEN "old" ELSE written

\* Fault: what an earlier process left is left, and nothing is said of it.
Invalidate_Nothing(some) ==
  /\ file' = [i \in Slots |-> IF i \in some THEN Inherited(file[i]) ELSE file[i]]
  /\ UNCHANGED reported

\* _invalidate: the removal of these slots' files.  One that fails, where a file is,
\* leaves it, valid until it ages out, and is reported: once a slot and supervisor.
Invalidate(some) ==
  \E failed \in SUBSET {i \in some \cap Stubborn : file[i] # "none"} :
    /\ file' = [i \in Slots |-> IF i \in failed THEN Inherited(file[i])
                                ELSE IF i \in some THEN "none" ELSE file[i]]
    /\ reported' = reported \cup failed

RequestStop(s) == [s EXCEPT !.stopping = TRUE]

NoRestarts == [i \in Slots |-> "no"]

\* _start, in the lock: nothing once a stop was asked for.
StartChild(i) ==
  /\ ~sup.stopping
  /\ Invalidate({i})
  /\ child' = [child EXCEPT ![i] = [NoProcess EXCEPT !.state = "booting"]]
  /\ exit' = [exit EXCEPT ![i] = "ok"]
  /\ due' = [due EXCEPT ![i] = "no"]
  /\ launched' = launched \cup {i}

\* The supervisor's process ends, whatever its children do.  The kernel sends
\* SIGTERM to those told, which asked for it once their handlers were there;
\* some are between a look at their parent and the touch.  taken: the slots whose files it
\* removed in its last step.
Orphaned(p, told, beating) ==
  LET q == IF told /\ p.state # "booting" THEN Terminated(p) ELSE p
  IN  [q EXCEPT !.beating = beating /\ q.state \in Turns]

Vanish(taken) ==
  /\ sup' = [sup EXCEPT !.at = "crashed"]
  /\ \E told, beating \in SUBSET Slots :
       orphan' = [i \in Slots |->
         LET left == Orphaned(child[i], i \in told, i \in beating)
         IN  IF left.state \in Lives THEN left ELSE orphan[i]]
  /\ child' = [i \in Slots |-> NoProcess]
  /\ file' = [i \in Slots |-> IF i \in taken THEN "none" ELSE Inherited(file[i])]
  /\ reported' = {} /\ launched' = {}
  /\ UNCHANGED <<due, deaths, exit, signals, embedder>>

\* Fault: the second signal is one more request to stop.
Escalated_ByTheThird(kill) ==
  IF sup.seen <= 1 THEN kill ELSE IF kill = "none" THEN "armed" ELSE "due"

\* The second signal gives the children a grace, the third one ends it.
Escalated(kill) ==
  IF sup.seen = 0 THEN kill ELSE IF kill = "none" THEN "armed" ELSE "due"

\* _process_signals, one of those recorded.  All its children get SIGTERM.
ProcessSignal ==
  /\ Runs /\ sup.step = "signals" /\ signals > 0
  /\ signals' = signals - 1
  /\ sup' = [RequestStop(sup) EXCEPT
               !.seen = @ + 1, !.kill = Escalated(@)]
  /\ due' = NoRestarts
  /\ child' = AllTerminated
  /\ UNCHANGED <<deaths, exit, embedder, orphan, file, reported, launched, events>>

\* The head of run(): a start a slot, until all are started or a stop was asked for.
BeginSlot ==
  /\ sup.at = "starting" /\ sup.step = "signals" /\ signals = 0
  /\ sup' = IF sup.stopping \/ sup.next = Processes THEN [sup EXCEPT !.at = "looping"]
                                                    ELSE [sup EXCEPT !.step = "start"]
  /\ UNCHANGED <<child, due, deaths, exit, signals, embedder, orphan, file, reported, launched,
                 events>>

\* Popen raises before run() is in its try: the process ends.  The slot's file is gone by
\* then, if it could be removed.
StartFails ==
  /\ sup.at = "starting" /\ sup.step = "start" /\ ~sup.stopping
  /\ Event
  /\ \E taken \in SUBSET {sup.next} : Vanish(taken)

StartSlot ==
  /\ sup.at = "starting" /\ sup.step = "start"
  /\ sup' = [sup EXCEPT !.step = "started"]
  /\ \/ StartChild(sup.next)
     \/ sup.stopping /\ UNCHANGED <<child, due, exit, file, reported, launched>>
  /\ UNCHANGED <<deaths, signals, embedder, orphan, events>>

\* A stop asked for by another thread since: the process just started is signalled.
CheckStarted ==
  /\ sup.at = "starting" /\ sup.step = "started"
  /\ child' = IF sup.stopping THEN [child EXCEPT ![sup.next] = Terminated(@)] ELSE child
  /\ sup' = [sup EXCEPT !.step = "signals", !.next = @ + 1]
  /\ UNCHANGED <<due, deaths, exit, signals, embedder, orphan, file, reported, launched, events>>

\* The condition of the loop, asked at the head of a pass; its finally stops
\* and signals whatever is left.
Leave(s) ==
  /\ sup' = [RequestStop(s) EXCEPT !.at = "leaving", !.step = "signals"]
  /\ due' = NoRestarts
  /\ child' = AllTerminated

GoesOn == Children # {} \/ (~sup.stopping /\ \E i \in Slots : due[i] # "no")

NothingLeftToDo ==
  /\ sup.at = "looping" /\ sup.step = "signals" /\ ~GoesOn
  /\ Leave(sup)
  /\ UNCHANGED <<deaths, exit, signals, embedder, orphan, file, reported, launched, events>>

\* The signals are done: "leaving", the kill comes before the reaping.
SignalsDone ==
  /\ InLoop("signals") /\ signals = 0 /\ (sup.at = "leaving" \/ GoesOn)
  /\ sup' = [sup EXCEPT !.step = IF sup.at = "looping" THEN "reap" ELSE "kill"]
  /\ UNCHANGED <<child, due, deaths, exit, signals, embedder, orphan, file, reported, launched,
                 events>>

\* Fault: as the process reports it.
RecordedExit_AsReported(code) == code

\* _record_exit: a process that SIGTERM killed during a stop was not yet working.
RecordedExit(code) == IF sup.stopping /\ code = "term" THEN "ok" ELSE code

\* A process that recycled is restarted, and counts as no death.
CountsAsDeath(code) == code # "recycle"

\* _reap_exited, one child: how many of its deaths are of the last minute is open.
ReapExited(i) ==
  /\ InLoop("reap") /\ child[i].state = "dead"
  /\ LET code == child[i].code
         rest == [child EXCEPT ![i] = NoProcess]
     IN  /\ exit' = [exit EXCEPT ![i] = RecordedExit(code)]
         /\ Invalidate({i})
         /\ \/ /\ sup.stopping
               /\ child' = rest /\ UNCHANGED <<sup, due, deaths>>
            \/ /\ ~sup.stopping /\ ~CountsAsDeath(code)
               /\ child' = rest /\ due' = [due EXCEPT ![i] = "waiting"]
               /\ UNCHANGED <<sup, deaths>>
            \/ /\ ~sup.stopping /\ CountsAsDeath(code)
               /\ \E recent \in 1 .. deaths[i] + 1 :
                    /\ deaths' = [deaths EXCEPT ![i] = recent]
                    /\ IF recent > RestartCap
                         THEN /\ sup' = [RequestStop(sup) EXCEPT !.tripped = TRUE]
                              /\ due' = NoRestarts
                              /\ child' = [AllTerminated EXCEPT ![i] = NoProcess]
                         ELSE /\ due' = [due EXCEPT ![i] = "waiting"]
                              /\ child' = rest /\ UNCHANGED sup
  /\ UNCHANGED <<signals, embedder, orphan, launched, events>>

\* Fault: a stop was asked for, and the children were told.
NoneLeft_Told == sup.stopping

NoneLeft == Children = {}

\* A process that ends after its poll is for the next pass: here, after this step.
ReapDone ==
  /\ InLoop("reap") /\ \A i \in Slots : child[i].state # "dead"
  /\ sup' = IF sup.at = "looping" THEN [sup EXCEPT !.step = "restart"]
            ELSE IF NoneLeft
                 THEN [sup EXCEPT !.at = IF sup.failing THEN "raised" ELSE "returned"]
            ELSE [sup EXCEPT !.step = "signals"]
  /\ UNCHANGED <<child, due, deaths, exit, signals, embedder, orphan, file, reported, launched,
                 events>>

Started(some) ==
  /\ exit' = [i \in Slots |-> IF i \in some THEN "ok" ELSE exit[i]]
  /\ launched' = launched \cup some

WithBooting(some) ==
  [i \in Slots |-> IF i \in some THEN [NoProcess EXCEPT !.state = "booting"] ELSE child[i]]

Due == IF sup.stopping THEN {} ELSE {i \in Slots : due[i] = "due"}

\* _start_due holds the lock for all of its starts.
RestartDue ==
  /\ InLoop("restart")
  /\ Invalidate(Due) /\ Started(Due)
  /\ child' = WithBooting(Due)
  /\ due' = [i \in Slots |-> IF i \in Due THEN "no" ELSE due[i]]
  /\ sup' = [sup EXCEPT !.step = "kill"]
  /\ UNCHANGED <<deaths, signals, embedder, orphan, events>>

\* Popen raises: in the loop the finally is next, before it the supervisor is gone.
RestartFails ==
  /\ InLoop("restart") /\ Event
  /\ \E i \in Due : \E before \in SUBSET (Due \ {i}) :
       /\ Invalidate(before \cup {i}) /\ Started(before)
       /\ child' = [j \in Slots |-> Terminated(WithBooting(before)[j])]
  /\ sup' = [RequestStop(sup) EXCEPT !.at = "leaving", !.step = "signals", !.failing = TRUE]
  /\ due' = NoRestarts
  /\ UNCHANGED <<deaths, signals, embedder, orphan>>

\* _kill_overdue: SIGKILL to whatever is still there.
KillOverdue ==
  /\ InLoop("kill")
  /\ sup' = [sup EXCEPT !.step = IF sup.at = "looping" THEN "signals" ELSE "reap",
                        !.kill = IF @ = "due" THEN "none" ELSE @]
  /\ child' = IF sup.kill = "due" THEN [i \in Slots |-> Killed(child[i])] ELSE child
  /\ UNCHANGED <<due, deaths, exit, signals, embedder, orphan, file, reported, launched, events>>

\* What run() returns: the first slot in order that ended badly, 1 for the cap.
Badly == {i \in Slots : exit[i] \notin {"ok", "recycle"}}

Returned ==
  IF sup.tripped THEN "failed"
  ELSE IF Badly = {} THEN "ok" ELSE exit[CHOOSE i \in Badly : \A j \in Badly : i <= j]
-----------------------------------------------------------------------------
(* Time, operators, and a thread that embeds the supervisor.               *)

RestartComesDue(i) ==
  /\ due[i] = "waiting" /\ due' = [due EXCEPT ![i] = "due"]
  /\ UNCHANGED <<sup, child, deaths, exit, signals, embedder, orphan, file, reported, launched,
                 events>>

KillComesDue ==
  /\ sup.kill = "armed" /\ sup' = [sup EXCEPT !.kill = "due"]
  /\ UNCHANGED <<child, due, deaths, exit, signals, embedder, orphan, file, reported, launched,
                 events>>

\* handle_signal records the signal and nothing else.
SendSignal ==
  /\ Runs /\ Possible
  /\ signals' = signals + 1
  /\ UNCHANGED <<sup, child, due, deaths, exit, embedder, orphan, file, reported, launched,
                 events>>

EmbedderStops ==
  /\ Runs /\ embedder = "idle" /\ embedder' = "stopped" /\ Event
  /\ sup' = RequestStop(sup) /\ due' = NoRestarts
  /\ UNCHANGED <<child, deaths, exit, signals, orphan, file, reported, launched>>

EmbedderSignals ==
  /\ embedder = "stopped" /\ embedder' = "done"
  /\ child' = AllTerminated
  /\ UNCHANGED <<sup, due, deaths, exit, signals, orphan, file, reported, launched, events>>
-----------------------------------------------------------------------------
(* The worker processes of the slots.                                      *)

supervising == <<sup, due, deaths, exit, signals, embedder, reported, launched>>

ChildMoves(i, to) == child' = [child EXCEPT ![i] = to] /\ UNCHANGED orphan

OrphanMoves(i, to) == orphan' = [orphan EXCEPT ![i] = to] /\ UNCHANGED child

\* Its handlers are there and its loop turns, _beat at the head of every pass: an
\* orphan no longer speaks for its slot.
Boots(i) ==
  /\ \/ /\ child[i].state = "booting"
        /\ ChildMoves(i, [child[i] EXCEPT !.state = "running"])
        /\ file' = [file EXCEPT ![i] = "child"]
     \/ /\ orphan[i].state = "booting"
        /\ OrphanMoves(i, [orphan[i] EXCEPT !.state = "running"])
        /\ UNCHANGED file
  /\ UNCHANGED <<supervising, events>>

\* A process that cannot start fails; a worker is somebody's to kill.
Breaks(i) ==
  /\ Event
  /\ \/ /\ child[i].state = "booting"
        /\ ChildMoves(i, [child[i] EXCEPT !.state = "dead", !.code = "failed"])
     \/ /\ child[i].state \in Turns \cup {"wedged"}
        /\ ChildMoves(i, Killed(child[i]))
  /\ UNCHANGED <<supervising, file>>

\* A thread of its own could not be stopped: it drains, and exits to be restarted.
Recycles(i) ==
  /\ Event
  /\ child[i].state \in Turns
  /\ ChildMoves(i, [child[i] EXCEPT !.state = "draining", !.code = "recycle"])
  /\ UNCHANGED <<supervising, file>>

\* A statement or a task that does not return, with the main thread in it.
Wedges(i) ==
  /\ child[i].state \in Turns
  /\ ChildMoves(i, [child[i] EXCEPT !.state = "wedged"])
  /\ UNCHANGED <<supervising, file, events>>

DrainEnds(i) ==
  /\ \/ child[i].state = "draining" /\ ChildMoves(i, [child[i] EXCEPT !.state = "dead"])
     \/ orphan[i].state = "draining" /\ OrphanMoves(i, NoProcess)
  /\ UNCHANGED <<supervising, file, events>>

\* The head of the loop of a worker process: its parent is another.
NoticesItsParentIsGone(i) ==
  /\ orphan[i].state = "running"
  /\ OrphanMoves(i, [orphan[i] EXCEPT !.state = "draining"])
  /\ UNCHANGED <<supervising, file, events>>

\* It looked at its parent before it lost it.
FinishesItsBeat(i) ==
  /\ orphan[i].beating /\ orphan[i].state \in Turns
  /\ OrphanMoves(i, [orphan[i] EXCEPT !.beating = FALSE])
  /\ file' = [file EXCEPT ![i] = "orphan"]
  /\ UNCHANGED <<supervising, events>>

-----------------------------------------------------------------------------
(* A supervisor that is killed, and the next one in its place.             *)

\* One supervisor has a predecessor: no slot has two orphans.
Crash == sup.first /\ Runs /\ Event /\ Vanish({})

Relaunch ==
  /\ sup.at = "crashed" /\ sup.first
  /\ sup' = [Fresh EXCEPT !.first = FALSE]
  /\ due' = NoRestarts /\ deaths' = [i \in Slots |-> 0] /\ exit' = [i \in Slots |-> "ok"]
  /\ signals' = 0 /\ embedder' = "idle"
  /\ UNCHANGED <<child, orphan, file, reported, launched, events>>

SupervisorStep ==
  \/ ProcessSignal \/ BeginSlot \/ StartSlot \/ CheckStarted
  \/ NothingLeftToDo \/ SignalsDone
  \/ \E i \in Slots : ReapExited(i)
  \/ ReapDone \/ RestartDue \/ KillOverdue

Next ==
  \/ SupervisorStep \/ StartFails \/ RestartFails \/ Crash \/ Relaunch
  \/ KillComesDue \/ SendSignal \/ EmbedderStops \/ EmbedderSignals
  \/ \E i \in Slots :
       \/ RestartComesDue(i) \/ Boots(i) \/ Breaks(i) \/ Recycles(i) \/ Wedges(i)
       \/ DrainEnds(i) \/ NoticesItsParentIsGone(i) \/ FinishesItsBeat(i)

\* The program and its processes run; nobody has to send or to break anything.
Fairness ==
  /\ WF_vars(SupervisorStep) /\ WF_vars(KillComesDue) /\ WF_vars(EmbedderSignals)
  /\ \A i \in Slots :
       /\ WF_vars(RestartComesDue(i)) /\ WF_vars(Boots(i))
       /\ WF_vars(DrainEnds(i)) /\ WF_vars(NoticesItsParentIsGone(i))

Spec == Init /\ [][Next]_vars /\ Fairness
-----------------------------------------------------------------------------
(* What the supervisor promises.                                           *)

\* Supervisor.run's "leave no child behind": once it returned, or raised out of its
\* loop, no child is alive, and none is started any more.
LeavesNoChildBehind ==
  sup.at \in {"returned", "raised"} => \A i \in Slots : ~Alive(i)

\* _record_exit: a stop of processes that all work, whenever it comes and however
\* far they have started, is no failure to whoever started the supervisor.
AnOrderlyStopIsNoFailure ==
  sup.at = "returned" /\ events = 0 /\ sup.seen <= 1 => Returned = "ok"

\* heartbeat.py and _invalidate: once a slot was started, its file is there by the touch
\* of the process in it, which booted and was not collected, or of an orphan that looked
\* at its parent before it lost it.  A file that is none of these is one that this
\* supervisor could not remove, and it has said so.
FilesSpeakForTheirSlot ==
  \A i \in launched :
    /\ file[i] = "child" => child[i].state \notin {"none", "booting"}
    /\ file[i] = "old" => i \in reported

\* A slot whose process ended is started again unless everything stops; two signals
\* end the supervisor, whatever its children do; an orphan ends, unless it is wedged.
SlotsAndStopsAreServed ==
  /\ Runs ~> (sup.stopping \/ ~Runs \/ \A i \in Slots : Alive(i))
  /\ (sup.seen >= 2) ~> ~Runs
  /\ (sup.at = "crashed") ~> (\A i \in Slots : orphan[i].state \in {"none", "wedged"})
=============================================================================
