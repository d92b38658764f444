---------------------------- MODULE Orchestrator ----------------------------
(***************************************************************************)
(* The orchestrator as the watchdog of the portfolio workers                *)
(* (gold_orchestrator/runtime.py): it takes administrators' commands from   *)
(* Telegram, keeps the desired state in its state file, and starts, stops   *)
(* and restarts worker processes.  One thread does it all.  Worker          *)
(* processes exit when they like, exclude each other by a lock              *)
(* (gold_portfolio/locking.py), and outlive an orchestrator that dies.      *)
(*                                                                         *)
(* The mode with worker control is modelled; without it no worker is ever   *)
(* touched.  Left out: health files and failure counts, which only decide whether an  *)
(* alert is sent and how long a restart waits, and writes of the state file *)
(* that fail.                                                              *)
(***************************************************************************)
EXTENDS Naturals, Sequences

CONSTANTS
    AllWorkers,     \* the configured workers in their order: ("goldi", "goldm")
    EnabledOnFirstBoot, \* worker -> desired while there is no state file
    Pid,            \* process identifiers, used again when free
    NoPid,          \* "no process"
    MaxCommands,    \* bound: commands sent
    MaxExits,       \* bound: workers that exit on their own
    MaxFaults,      \* bound: calls that raise (Telegram, Popen, wait, audit)
    MaxDeaths       \* bound: deaths of the orchestrator

Worker == {AllWorkers[i] : i \in DOMAIN AllWorkers}

ASSUME WorkersAssumption ==
    /\ AllWorkers \in Seq(Worker)
    /\ \A i, j \in DOMAIN AllWorkers : AllWorkers[i] = AllWorkers[j] => i = j
ASSUME FirstBootAssumption == EnabledOnFirstBoot \in [Worker -> BOOLEAN]
ASSUME PidAssumption == NoPid \notin Pid
ASSUME BoundsAssumption == {MaxCommands, MaxExits, MaxFaults, MaxDeaths} \subseteq Nat

VARIABLES
    commands,   \* Telegram's updates in order: [targets, on]
    desired,    \* state["desired"], as saved
    offset,     \* state["telegram_offset"] - 1, as saved
    pc,         \* the orchestrator's next step
    hand,       \* the update in hand (0: none, the loop itself is running)
    todo,       \* the workers the running for statement has still to visit
    child,      \* _children: worker -> process, running or not
    due,        \* _next_restart: worker -> "none", "later", "now"
    live,       \* worker -> its processes that are running
    holder,     \* worker -> the process that has its lock
    spent       \* how much of each bound is used

stateFile == <<desired, offset>>
memory == <<pc, hand, todo, child, due>>
processes == <<live, holder>>
vars == <<commands, stateFile, memory, processes, spent>>

\* /goldi_on ... /goldm_off, /all_on and /all_off, and /status, which names nobody.
Command ==
    [targets : {AllWorkers} \cup {<<w>> : w \in Worker}, on : BOOLEAN]
        \cup [targets : {<<>>}, on : {FALSE}]

Running(w) == child[w] \in live[w]

Spend(what, limit) ==
    /\ spent[what] < limit
    /\ spent' = [spent EXCEPT ![what] = @ + 1]

Fault == Spend("faults", MaxFaults)

-----------------------------------------------------------------------------
(* start_worker and stop_worker.                                            *)

\* Popen; the process is a child, and its restart is not due any more.  Which free
\* identifier it gets does not matter.
Launch(w) ==
    LET free == Pid \ live[w]
        p == CHOOSE q \in free : TRUE
    IN  /\ free # {}
        /\ child' = [child EXCEPT ![w] = p]
        /\ live' = [live EXCEPT ![w] = @ \cup {p}]
        /\ due' = [due EXCEPT ![w] = "none"]
        /\ UNCHANGED holder

\* start_worker: a child that runs is left alone.
StartWorker(w) ==
    \/ Running(w) /\ UNCHANGED <<child, due, processes>>
    \/ ~Running(w) /\ Launch(w)

\* Who holds a lock after the process p has ended.
Released(w, p) == IF holder[w] = p THEN NoPid ELSE holder[w]

\* Defect for a mutant run: a child that is stopped is not forgotten.
StopKeepsChild(w) ==
    /\ live' = [live EXCEPT ![w] = @ \ {child[w]}]
    /\ holder' = [holder EXCEPT ![w] = Released(w, child[w])]
    /\ UNCHANGED <<child, due>>

\* stop_worker: the child, if there is one, is forgotten and ended.
StopWorker(w) ==
    /\ child' = [child EXCEPT ![w] = NoPid]
    /\ live' = [live EXCEPT ![w] = @ \ {child[w]}]
    /\ holder' = [holder EXCEPT ![w] = Released(w, child[w])]
    /\ UNCHANGED due

\* It is killed and does not end within five seconds: stop_worker raises.
StopTimesOut(w) ==
    /\ Running(w)
    /\ child' = [child EXCEPT ![w] = NoPid]
    /\ UNCHANGED <<due, processes>>

-----------------------------------------------------------------------------
(* supervise_once, from the loop and for /status: one worker after another. *)

BeginSupervision ==
    /\ pc = "loop"
    /\ pc' = "supervise"
    /\ todo' = AllWorkers
    /\ UNCHANGED <<commands, stateFile, hand, child, due, processes, spent>>

Visit(w) ==
    /\ pc = "supervise"
    /\ todo # <<>>
    /\ w = Head(todo)

NextWorker ==
    /\ todo' = Tail(todo)
    /\ UNCHANGED <<commands, stateFile, pc, hand, spent>>

SuperviseUndesired(w) ==
    /\ Visit(w)
    /\ ~desired[w]
    /\ NextWorker
    /\ IF Running(w) THEN StopWorker(w) ELSE UNCHANGED <<child, due, processes>>

\* Its health is looked at, and a problem told.
SuperviseRunning(w) ==
    /\ Visit(w)
    /\ desired[w]
    /\ Running(w)
    /\ NextWorker
    /\ UNCHANGED <<child, due, processes>>

\* The exit is told, and a restart becomes due after the back-off: none is due for
\* a child, start_worker has seen to that.
SuperviseExited(w) ==
    /\ Visit(w)
    /\ desired[w]
    /\ child[w] # NoPid
    /\ ~Running(w)
    /\ NextWorker
    /\ child' = [child EXCEPT ![w] = NoPid]
    /\ due' = [due EXCEPT ![w] = "later"]
    /\ UNCHANGED processes

\* Defect for a mutant run: a worker is started only when a restart is due.
SuperviseMissingDue(w) ==
    /\ Visit(w)
    /\ desired[w]
    /\ child[w] = NoPid
    /\ NextWorker
    /\ IF due[w] = "now" THEN Launch(w) ELSE UNCHANGED <<child, due, processes>>

\* Defect for a mutant run: a restart that is due is not asked for the desired state.
SuperviseMissingAny(w) ==
    /\ Visit(w)
    /\ desired[w] \/ due[w] = "now"
    /\ child[w] = NoPid
    /\ NextWorker
    /\ IF due[w] = "later" THEN UNCHANGED <<child, due, processes>> ELSE Launch(w)

SuperviseMissing(w) ==
    /\ Visit(w)
    /\ desired[w]
    /\ child[w] = NoPid
    /\ NextWorker
    /\ IF due[w] = "later" THEN UNCHANGED <<child, due, processes>>
       ELSE Launch(w)

\* What an exception in supervise_once ends: the update that asked for it, or,
\* from the loop, everything.
Raise ==
    /\ pc' = IF hand = 0 THEN "stopping" ELSE "finish"
    /\ todo' = <<>>
    /\ UNCHANGED <<commands, stateFile, hand>>

\* Telegram refuses an alert before its consequences are drawn, or after a start;
\* or Popen fails.
SuperviseFails(w) ==
    /\ Visit(w)
    /\ desired[w]
    /\ Fault
    /\ Raise
    /\ \/ /\ child' = [child EXCEPT ![w] = IF Running(w) THEN @ ELSE NoPid]
          /\ UNCHANGED <<due, processes>>
       \/ /\ child[w] = NoPid
          /\ due[w] # "later"
          /\ Launch(w)

EndSupervision ==
    /\ pc = "supervise"
    /\ todo = <<>>
    /\ pc' = IF hand = 0 THEN "poll" ELSE "finish"
    /\ UNCHANGED <<commands, stateFile, hand, todo, child, due, processes, spent>>

-----------------------------------------------------------------------------
(* poll_once and the commands.                                              *)

UpdateTaken ==
    /\ pc = "poll"
    /\ offset < Len(commands)
    /\ hand' = offset + 1
    /\ LET c == commands[offset + 1]
       IN  IF c.targets = <<>> THEN pc' = "supervise" /\ todo' = AllWorkers
                               ELSE pc' = "command" /\ todo' = c.targets
    /\ UNCHANGED <<commands, desired, child, due, processes, spent>>

\* Defect for a mutant run: the offset is saved before the update is handled.
BeginSavesOffset == UpdateTaken /\ offset' = offset + 1

BeginUpdate == UpdateTaken /\ UNCHANGED offset

\* getUpdates has nothing, or fails, and the time for supervision has come; polls
\* before that change nothing.  A command that comes in while a batch is handled is
\* one that comes in after it.
EndPoll ==
    /\ pc = "poll"
    /\ \/ offset = Len(commands) /\ UNCHANGED spent
       \/ Fault
    /\ pc' = "loop"
    /\ UNCHANGED <<commands, stateFile, hand, todo, child, due, processes>>

\* set_desired saves the desired state, and with it the offset, which poll_once has
\* advanced in memory before it handles an update.
SaveDesired ==
    /\ pc = "command"
    /\ todo # <<>>
    /\ desired' = [desired EXCEPT ![Head(todo)] = commands[hand].on]
    /\ offset' = hand
    /\ pc' = "apply"
    /\ UNCHANGED <<commands, hand, todo, child, due, processes, spent>>

ApplyDesired(w) ==
    /\ pc = "apply"
    /\ w = Head(todo)
    /\ IF desired[w] THEN StartWorker(w)
       ELSE StopWorker(w)
    /\ pc' = "command"
    /\ todo' = Tail(todo)
    /\ UNCHANGED <<commands, stateFile, hand, spent>>

\* start_worker or stop_worker raises, before or after it is done: the workers of
\* /all_on and /all_off that are still to come are left out.
ApplyFails(w) ==
    /\ pc = "apply"
    /\ w = Head(todo)
    /\ Fault
    /\ IF desired[w] THEN StartWorker(w) \/ UNCHANGED <<child, due, processes>>
       ELSE StopWorker(w) \/ StopTimesOut(w)
    /\ Raise

UpdateDone ==
    /\ pc = "finish" \/ (pc = "command" /\ todo = <<>>)
    /\ hand' = 0
    /\ todo' = <<>>
    /\ pc' = "poll"
    /\ UNCHANGED <<commands, desired, child, due, processes, spent>>

\* The offset is saved, whatever became of the update, and the answer sent.
FinishUpdate == UpdateDone /\ offset' = hand

-----------------------------------------------------------------------------
(* The life of the orchestrator.                                            *)

Down == pc \in {"down", "left"}

\* A new process reads the state file; it has no children.  The machine may have run
\* for less than the supervision's interval.
Begin ==
    /\ pc' \in {"loop", "poll"}
    /\ UNCHANGED <<commands, stateFile, hand, todo, child, due, processes, spent>>

\* The scheduled task restarts an orchestrator that failed, and starts it with the
\* machine; one that ended on request it leaves alone.
Boot == pc = "down" /\ Begin
StartByHand == pc = "left" /\ Begin

\* The hourly heartbeat cannot be sent: the exception leaves run_forever.
HeartbeatFails ==
    /\ pc = "poll"
    /\ Fault
    /\ Raise
    /\ UNCHANGED <<child, due, processes>>

\* SIGINT or SIGTERM.
RequestStop ==
    /\ pc \in {"loop", "poll"}
    /\ Spend("deaths", MaxDeaths)
    /\ pc' = "leaving"
    /\ UNCHANGED <<commands, stateFile, hand, todo, child, due, processes>>

\* The orchestrator's process is gone, with its memory.
Forgotten ==
    /\ hand' = 0
    /\ todo' = <<>>
    /\ child' = [w \in Worker |-> NoPid]
    /\ due' = [w \in Worker |-> "none"]
    /\ UNCHANGED <<commands, stateFile>>

\* The finally of run_forever stops the children; when stopping one raises, `kept`
\* go on.
StopAll(kept) ==
    /\ pc \in {"stopping", "leaving"}
    /\ \/ kept = {} /\ UNCHANGED spent
       \/ kept # {} /\ Fault
    /\ pc' = IF pc = "leaving" /\ kept = {} THEN "left" ELSE "down"
    /\ \A w \in kept : Running(w)
    /\ live' = [w \in Worker |-> IF w \in kept THEN live[w] ELSE live[w] \ {child[w]}]
    /\ holder' = [w \in Worker |-> IF w \in kept THEN holder[w] ELSE Released(w, child[w])]
    /\ Forgotten

\* The orchestrator's process ends without a finally; its children go on.
Die ==
    /\ ~Down
    /\ Spend("deaths", MaxDeaths)
    /\ pc' = "down"
    /\ Forgotten
    /\ UNCHANGED processes

\* The machine restarts.
Reboot ==
    /\ Spend("deaths", MaxDeaths)
    /\ pc' = "down"
    /\ Forgotten
    /\ live' = [w \in Worker |-> {}]
    /\ holder' = [w \in Worker |-> NoPid]

-----------------------------------------------------------------------------
(* Administrators, worker processes and time.                               *)

SendCommand(c) ==
    /\ Len(commands) < MaxCommands
    /\ commands' = Append(commands, c)
    /\ UNCHANGED <<stateFile, memory, processes, spent>>

End(w, p) ==
    /\ p \in live[w]
    /\ live' = [live EXCEPT ![w] = @ \ {p}]
    /\ holder' = [holder EXCEPT ![w] = Released(w, p)]
    /\ UNCHANGED <<commands, stateFile, memory>>

\* A worker ends on its own (or one that was killed ends at last).
Exit(w, p) == End(w, p) /\ Spend("exits", MaxExits)

\* SingleInstanceLock: a process that finds the lock taken ends.
LockRefused(w, p) ==
    /\ holder[w] \notin {NoPid, p}
    /\ End(w, p)
    /\ UNCHANGED spent

AcquireLock(w, p) ==
    /\ p \in live[w]
    /\ holder[w] = NoPid
    /\ holder' = [holder EXCEPT ![w] = p]
    /\ UNCHANGED <<commands, stateFile, memory, live, spent>>

BackOffEnds(w) ==
    /\ due[w] = "later"
    /\ due' = [due EXCEPT ![w] = "now"]
    /\ UNCHANGED <<commands, stateFile, pc, hand, todo, child, processes, spent>>

-----------------------------------------------------------------------------
Init ==
    /\ commands = <<>>
    /\ desired = EnabledOnFirstBoot
    /\ offset = 0
    /\ pc = "down"
    /\ hand = 0
    /\ todo = <<>>
    /\ child = [w \in Worker |-> NoPid]
    /\ due = [w \in Worker |-> "none"]
    /\ live = [w \in Worker |-> {}]
    /\ holder = [w \in Worker |-> NoPid]
    /\ spent = [exits |-> 0, faults |-> 0, deaths |-> 0]

Loop ==
    \/ Boot \/ BeginSupervision \/ EndSupervision
    \/ \E w \in Worker :
          SuperviseUndesired(w) \/ SuperviseRunning(w) \/ SuperviseExited(w)
             \/ SuperviseMissing(w) \/ ApplyDesired(w)
    \/ BeginUpdate \/ EndPoll \/ SaveDesired \/ FinishUpdate
    \/ \E kept \in SUBSET Worker : StopAll(kept)

Process(w) == \E p \in Pid : AcquireLock(w, p) \/ LockRefused(w, p)

Next ==
    \/ Loop \/ StartByHand \/ HeartbeatFails \/ RequestStop \/ Die \/ Reboot
    \/ \E w \in Worker :
          \/ SuperviseFails(w) \/ ApplyFails(w) \/ BackOffEnds(w)
          \/ Process(w) \/ \E p \in Pid : Exit(w, p)
    \/ \E c \in Command : SendCommand(c)

Spec == Init /\ [][Next]_vars

\* The scheduled task restarts an orchestrator that failed (RestartCount 999), its loop
\* goes on, back-offs end, and a worker's process gets to its lock.
Fairness ==
    /\ WF_vars(Loop)
    /\ \A w \in Worker : WF_vars(BackOffEnds(w)) /\ WF_vars(Process(w))

FairSpec == Spec /\ Fairness

-----------------------------------------------------------------------------
(* Properties.                                                              *)

TypeOK ==
    /\ commands \in Seq(Command)
    /\ desired \in [Worker -> BOOLEAN]
    /\ offset \in 0 .. Len(commands)
    /\ pc \in {"down", "loop", "supervise", "poll", "command", "apply", "finish",
              "stopping", "leaving", "left"}
    /\ hand \in {0, offset, offset + 1} \cap (0 .. Len(commands))
    /\ todo \in Seq(Worker)
    /\ child \in [Worker -> Pid \cup {NoPid}]
    /\ due \in [Worker -> {"none", "later", "now"}]
    /\ live \in [Worker -> SUBSET Pid]
    /\ holder \in [Worker -> Pid \cup {NoPid}]
    /\ spent \in [{"exits", "faults", "deaths"} -> Nat]

\* Processes of w that run and that the orchestrator does not know.
Orphans(w) == live[w] \ {child[w]}

\* A lock is held by a process that runs.
LocksOK == \A w \in Worker : holder[w] \in live[w] \cup {NoPid}

\* Outside the handling of an off, a worker that is not desired has no child, and
\* none that waits for a restart has one.
ChildrenOK ==
    \A w \in Worker :
        /\ child[w] # NoPid => desired[w] \/ (pc = "apply" /\ Head(todo) = w)
        /\ due[w] # "none" => child[w] = NoPid

\* Between the saving of a command and its execution the state file agrees with it;
\* an update is in hand only while it is handled; nothing is in memory while down.
HandOK ==
    /\ pc = "apply" =>
          /\ todo # <<>> /\ hand = offset
          /\ desired[Head(todo)] = commands[hand].on
    /\ pc \in {"command", "apply", "finish"} => hand # 0
    /\ pc \in {"down", "loop", "poll", "stopping", "leaving", "left"} => hand = 0
    /\ Down => \A w \in Worker : child[w] = NoPid

\* What the orchestrator believes of its workers and of the command in hand is
\* consistent in every state (set_desired, start_worker, stop_worker,
\* supervise_once).
SupervisorInv == TypeOK /\ LocksOK /\ ChildrenOK /\ HandOK

\* Update i is the last one handled that names w, and it names w first.
Latest(w, i) ==
    /\ commands[i].targets # <<>> /\ Head(commands[i].targets) = w
    /\ \A j \in i + 1 .. offset :
          w \notin {commands[j].targets[k] : k \in DOMAIN commands[j].targets}

\* An update that is not asked for again has had its effect on the state file:
\* wherever the orchestrator dies or an exception ends the handling, the worker that
\* the latest command names, or names first, is desired as it said (set_desired
\* saves the desired state together with the offset).
LatestCommandSaved ==
    \A w \in Worker, i \in 1 .. offset : Latest(w, i) => desired[w] = commands[i].on

\* Once an off is handled no process of the worker starts before another command
\* names it, neither by a restart that was due nor by a new orchestrator.
OffKeepsOff ==
    [][\A w \in Worker, i \in 1 .. offset :
          Latest(w, i) /\ ~commands[i].on => live'[w] \subseteq live[w]]_vars

\* The orchestrator loses a running worker from sight only when it ends, or when a
\* worker it has killed does not end in time; never by starting a second one.
NeverAbandons ==
    [][pc' = "down" \/ \A w \in Worker :
          Orphans(w)' \subseteq Orphans(w) \/ StopTimesOut(w)]_vars

\* A worker that stays desired runs, with its lock, again and again, unless the
\* orchestrator was asked to end: whatever exits, raises or dies, and although a
\* process that outlived an orchestrator may hold the lock (supervise_once,
\* start_worker, the scheduled task).
DesiredRuns == \A w \in Worker : <>[](desired[w] /\ pc # "left") => []<>(holder[w] # NoPid)

=============================================================================
