------------------------- MODULE Orchestrator_proofs -------------------------
(***************************************************************************)
(* Theorems about Orchestrator, for any workers, process identifiers and    *)
(* bounds.                                                                  *)
(*                                                                         *)
(* The argument: the invariant ties the update in hand to the state file.   *)
(* Until the first worker of a command is saved, the offset still names the *)
(* command as the next one; from then on it does not, and the worker is     *)
(* desired as the command says.  So an update leaves the queue only with    *)
(* its effect on the state file, a worker is started only while it is       *)
(* desired, and only when it has no child that runs.                        *)
(***************************************************************************)
EXTENDS Orchestrator, TLAPS

\* While an update is in hand: until its first worker is saved, a command is at its
\* first worker; and the workers still to be visited are the command's.
UpdateInv ==
    /\ hand = offset + 1 =>
          commands[hand].targets = <<>>
          \/ /\ pc = "command" /\ todo # <<>>
             /\ Head(todo) = Head(commands[hand].targets)
    /\ pc \in {"command", "apply"} =>
          \A k \in DOMAIN todo : \E j \in DOMAIN commands[hand].targets :
             commands[hand].targets[j] = todo[k]

IInv == SupervisorInv /\ UpdateInv /\ LatestCommandSaved

\* The part of the invariant that is about processes.
ProcessInv ==
    /\ child \in [Worker -> Pid \cup {NoPid}]
    /\ due \in [Worker -> {"none", "later", "now"}]
    /\ live \in [Worker -> SUBSET Pid]
    /\ holder \in [Worker -> Pid \cup {NoPid}]
    /\ LocksOK
    /\ \A w \in Worker : due[w] # "none" => child[w] = NoPid

\* The part of it that is about the state file and the thread's position.
ThreadInv ==
    /\ commands \in Seq(Command)
    /\ desired \in [Worker -> BOOLEAN]
    /\ offset \in 0 .. Len(commands)
    /\ pc \in {"down", "loop", "supervise", "poll", "command", "apply", "finish",
              "stopping", "leaving", "left"}
    /\ hand \in {0, offset, offset + 1} \cap (0 .. Len(commands))
    /\ todo \in Seq(Worker)
    /\ spent \in [{"exits", "faults", "deaths"} -> Nat]
    /\ pc = "apply" =>
          /\ todo # <<>> /\ hand = offset
          /\ desired[Head(todo)] = commands[hand].on
    /\ pc \in {"command", "apply", "finish"} => hand # 0
    /\ pc \in {"down", "loop", "poll", "stopping", "leaving", "left"} => hand = 0

LEMMA Parts == IInv => ProcessInv /\ ThreadInv
  BY DEF IInv, SupervisorInv, TypeOK, ChildrenOK, HandOK, ProcessInv, ThreadInv

\* A command's targets are workers, each named once.
LEMMA CommandTargets ==
    ASSUME NEW c \in Command
    PROVE  /\ c.targets \in Seq(Worker) /\ c.on \in BOOLEAN
           /\ \A i, j \in DOMAIN c.targets : c.targets[i] = c.targets[j] => i = j
  <1>1. c.on \in BOOLEAN
    BY DEF Command
  <1>2. \/ c.targets = AllWorkers
        \/ \E w \in Worker : c.targets = <<w>>
        \/ c.targets = <<>>
    BY DEF Command
  <1>3. CASE c.targets = AllWorkers
    BY <1>1, <1>3, WorkersAssumption
  <1>4. ASSUME NEW w \in Worker, c.targets = <<w>>
        PROVE  /\ c.targets \in Seq(Worker)
               /\ \A i, j \in DOMAIN c.targets : c.targets[i] = c.targets[j] => i = j
    BY <1>4
  <1>5. CASE c.targets = <<>>
    BY <1>1, <1>5
  <1> QED
    BY <1>1, <1>2, <1>3, <1>4, <1>5

-----------------------------------------------------------------------------
(* What the operators on processes do.                                      *)

\* w may have another child, restart and set of processes than before, the other
\* workers have not; and no process of w that runs is lost from sight.
Only(w) ==
    \A v \in Worker \ {w} :
       child'[v] = child[v] /\ due'[v] = due[v] /\ live'[v] = live[v]

LEMMA LaunchEffect ==
    ASSUME ProcessInv, NEW w \in Worker, ~Running(w), Launch(w)
    PROVE  ProcessInv' /\ Only(w) /\ Orphans(w)' \subseteq Orphans(w)
  <1> DEFINE p == CHOOSE q \in Pid \ live[w] : TRUE
  <1>1. p \in Pid \ live[w]
    BY DEF Launch
  <1>2. /\ child' = [child EXCEPT ![w] = p]
        /\ live' = [live EXCEPT ![w] = @ \cup {p}]
        /\ due' = [due EXCEPT ![w] = "none"]
        /\ holder' = holder
    BY DEF Launch
  <1> HIDE DEF p
  <1> QED
    BY <1>1, <1>2 DEF ProcessInv, LocksOK, Only, Orphans, Running

LEMMA StopEffect ==
    ASSUME ProcessInv, NEW w \in Worker, StopWorker(w)
    PROVE  /\ ProcessInv' /\ Only(w) /\ Orphans(w)' \subseteq Orphans(w)
           /\ child'[w] = NoPid /\ live'[w] \subseteq live[w]
  BY PidAssumption DEF ProcessInv, LocksOK, Only, Orphans, StopWorker, Released

LEMMA TimeOutEffect ==
    ASSUME ProcessInv, NEW w \in Worker, StopTimesOut(w)
    PROVE  ProcessInv' /\ Only(w) /\ child'[w] = NoPid /\ live' = live
  BY DEF ProcessInv, LocksOK, Only, StopTimesOut, processes

LEMMA StartEffect ==
    ASSUME ProcessInv, NEW w \in Worker, StartWorker(w)
    PROVE  ProcessInv' /\ Only(w) /\ Orphans(w)' \subseteq Orphans(w)
  <1>1. CASE Running(w) /\ UNCHANGED <<child, due, processes>>
    BY <1>1 DEF ProcessInv, LocksOK, Only, Orphans, processes
  <1>2. CASE ~Running(w) /\ Launch(w)
    BY <1>2, LaunchEffect
  <1> QED
    BY <1>1, <1>2 DEF StartWorker

LEMMA EndEffect ==
    ASSUME ProcessInv, NEW w \in Worker, NEW p \in Pid, End(w, p)
    PROVE  /\ ProcessInv' /\ child' = child /\ due' = due
           /\ \A v \in Worker : live'[v] \subseteq live[v]
  BY PidAssumption DEF ProcessInv, LocksOK, End, Released, memory

\* One orphan set does not grow, so none does.
NoNewOrphans == \A w \in Worker : Orphans(w)' \subseteq Orphans(w) \/ StopTimesOut(w)

LEMMA OthersKeep ==
    ASSUME NEW w \in Worker, Only(w), Orphans(w)' \subseteq Orphans(w) \/ StopTimesOut(w)
    PROVE  NoNewOrphans
  BY DEF Only, NoNewOrphans, Orphans

LEMMA NothingMoves ==
    ASSUME ProcessInv, UNCHANGED <<child, due, processes>>
    PROVE  ProcessInv' /\ NoNewOrphans
  BY DEF ProcessInv, LocksOK, processes, NoNewOrphans, Orphans

\* The end of the orchestrator forgets the children.
LEMMA ForgottenEffect ==
    ASSUME ProcessInv, Forgotten,
           live' \in [Worker -> SUBSET Pid], holder' \in [Worker -> Pid \cup {NoPid}],
           LocksOK'
    PROVE  ProcessInv'
  BY DEF ProcessInv, Forgotten

\* Every step keeps the process part, and loses no running worker from sight but by
\* an end of the orchestrator or a stop that times out.
LEMMA ProcessStep ==
    ASSUME IInv, [Next]_vars
    PROVE  ProcessInv' /\ (pc' = "down" \/ NoNewOrphans)
  <1>0. ProcessInv /\ ThreadInv
    BY Parts
  <1>1. CASE UNCHANGED <<child, due, processes>>
    BY <1>0, <1>1, NothingMoves
  <1>2. ASSUME NEW w \in Worker,
               \/ ~Running(w) /\ Launch(w)
               \/ StartWorker(w) \/ StopWorker(w) \/ StopTimesOut(w)
        PROVE  ProcessInv' /\ NoNewOrphans
    BY <1>0, <1>2, LaunchEffect, StartEffect, StopEffect, TimeOutEffect, OthersKeep
  <1>3. CASE Boot \/ StartByHand \/ BeginSupervision \/ EndSupervision \/ BeginUpdate \/ EndPoll
             \/ SaveDesired \/ FinishUpdate \/ HeartbeatFails \/ RequestStop
    BY <1>1, <1>3 DEF Boot, StartByHand, Begin, BeginSupervision, EndSupervision, BeginUpdate,
       UpdateTaken, EndPoll, SaveDesired, FinishUpdate, UpdateDone, HeartbeatFails,
       RequestStop, processes
  <1>4. ASSUME NEW c \in Command, SendCommand(c) PROVE ProcessInv' /\ NoNewOrphans
    BY <1>0, <1>4, NothingMoves DEF SendCommand, memory, processes
  <1>5. ASSUME NEW w \in Worker, SuperviseUndesired(w) PROVE ProcessInv' /\ NoNewOrphans
    BY <1>0, <1>2, <1>5, NothingMoves DEF SuperviseUndesired
  <1>6. ASSUME NEW w \in Worker, SuperviseRunning(w) PROVE ProcessInv' /\ NoNewOrphans
    BY <1>0, <1>6, NothingMoves DEF SuperviseRunning
  <1>7. ASSUME NEW w \in Worker, SuperviseExited(w) PROVE ProcessInv' /\ NoNewOrphans
    BY <1>0, <1>7
       DEF SuperviseExited, ProcessInv, LocksOK, processes, NoNewOrphans, Orphans, Running
  <1>8. ASSUME NEW w \in Worker, child[w] = NoPid PROVE ~Running(w)
    BY <1>0, <1>8, PidAssumption DEF ProcessInv, Running
  <1>9. ASSUME NEW w \in Worker, SuperviseMissing(w) PROVE ProcessInv' /\ NoNewOrphans
    BY <1>0, <1>2, <1>8, <1>9, NothingMoves DEF SuperviseMissing
  <1>10. ASSUME NEW w \in Worker, SuperviseFails(w) PROVE ProcessInv' /\ NoNewOrphans
    <2>1. CASE /\ child' = [child EXCEPT ![w] = IF Running(w) THEN @ ELSE NoPid]
               /\ UNCHANGED <<due, processes>>
      BY <1>0, <2>1 DEF ProcessInv, LocksOK, processes, NoNewOrphans, Orphans, Running
    <2>2. CASE child[w] = NoPid /\ due[w] # "later" /\ Launch(w)
      BY <1>2, <1>8, <2>2
    <2> QED
      BY <1>10, <2>1, <2>2 DEF SuperviseFails
  <1>11. ASSUME NEW w \in Worker, ApplyDesired(w) \/ ApplyFails(w)
         PROVE  ProcessInv' /\ NoNewOrphans
    BY <1>0, <1>2, <1>11, NothingMoves DEF ApplyDesired, ApplyFails
  <1>12. ASSUME NEW kept \in SUBSET Worker, StopAll(kept)
         PROVE  ProcessInv' /\ (pc' = "down" \/ NoNewOrphans)
    <2>1. live' \in [Worker -> SUBSET Pid] /\ holder' \in [Worker -> Pid \cup {NoPid}]
      BY <1>0, <1>12 DEF StopAll, ProcessInv, Released
    <2>2. LocksOK'
      BY <1>0, <1>12, PidAssumption DEF StopAll, ProcessInv, LocksOK, Released
    <2>3. ProcessInv'
      BY <1>0, <1>12, <2>1, <2>2, ForgottenEffect DEF StopAll
    <2>4. kept = {} => NoNewOrphans
      BY <1>0, <1>12 DEF StopAll, Forgotten, ProcessInv, NoNewOrphans, Orphans
    <2>5. kept # {} => pc' = "down"
      BY <1>12 DEF StopAll
    <2> QED
      BY <2>3, <2>4, <2>5
  <1>13. CASE Die
    BY <1>0, <1>13, ForgottenEffect DEF Die, ProcessInv, LocksOK, processes
  <1>14. CASE Reboot
    BY <1>0, <1>14, ForgottenEffect DEF Reboot, ProcessInv, LocksOK
  <1>15. ASSUME NEW w \in Worker, NEW p \in Pid, LockRefused(w, p) \/ Exit(w, p)
         PROVE  ProcessInv' /\ NoNewOrphans
    BY <1>0, <1>15, EndEffect DEF LockRefused, Exit, NoNewOrphans, Orphans
  <1>16. ASSUME NEW w \in Worker, NEW p \in Pid, AcquireLock(w, p)
         PROVE  ProcessInv' /\ NoNewOrphans
    BY <1>0, <1>16 DEF AcquireLock, ProcessInv, LocksOK, memory, NoNewOrphans, Orphans
  <1>17. ASSUME NEW w \in Worker, BackOffEnds(w) PROVE ProcessInv' /\ NoNewOrphans
    BY <1>0, <1>17 DEF BackOffEnds, ProcessInv, LocksOK, processes, NoNewOrphans, Orphans
  <1>18. CASE UNCHANGED vars
    BY <1>1, <1>18 DEF vars, memory
  <1> QED
    BY <1>3, <1>4, <1>5, <1>6, <1>7, <1>9, <1>10, <1>11, <1>12, <1>13, <1>14, <1>15, <1>16,
       <1>17, <1>18 DEF Next, Loop, Process

-----------------------------------------------------------------------------
(* The state file and the thread's position.                                *)

\* Commands are only ever added, behind the others.
LEMMA SendAppends ==
    ASSUME ThreadInv, NEW c \in Command, SendCommand(c)
    PROVE  /\ commands' \in Seq(Command) /\ Len(commands') = Len(commands) + 1
           /\ \A i \in 1 .. Len(commands) : commands'[i] = commands[i]
  BY DEF ThreadInv, SendCommand

\* Supervision visits one worker, or is ended by an exception.
LEMMA SupervisionThread ==
    ASSUME ThreadInv, pc = "supervise", todo # <<>>,
           spent' \in [{"exits", "faults", "deaths"} -> Nat],
           (NextWorker /\ spent' = spent) \/ Raise
    PROVE  ThreadInv'
  <1>1. CASE NextWorker
    BY <1>1 DEF ThreadInv, NextWorker, stateFile
  <1>2. CASE Raise
    BY <1>2 DEF ThreadInv, Raise, stateFile
  <1> QED
    BY <1>1, <1>2

LEMMA SpendNat ==
    ASSUME ThreadInv, NEW what \in {"exits", "faults", "deaths"}, NEW limit, Spend(what, limit)
    PROVE  spent' \in [{"exits", "faults", "deaths"} -> Nat]
  BY DEF ThreadInv, Spend

\* Every step keeps the thread's part.
LEMMA ThreadStep ==
    ASSUME IInv, [Next]_vars
    PROVE  ThreadInv'
  <1>0. ThreadInv
    BY Parts
  <1>1. CASE Boot \/ StartByHand \/ BeginSupervision \/ EndSupervision
    BY <1>0, <1>1, WorkersAssumption
       DEF Boot, StartByHand, Begin, BeginSupervision, EndSupervision, ThreadInv, stateFile
  <1>2. CASE BeginUpdate
    <2>1. offset + 1 \in 1 .. Len(commands) /\ commands[offset + 1] \in Command
      BY <1>0, <1>2 DEF BeginUpdate, UpdateTaken, ThreadInv
    <2>2. todo' \in Seq(Worker) /\ pc' \in {"supervise", "command"}
      BY <1>2, <2>1, WorkersAssumption, CommandTargets DEF BeginUpdate, UpdateTaken
    <2> QED
      BY <1>0, <1>2, <2>1, <2>2 DEF BeginUpdate, UpdateTaken, ThreadInv
  <1>3. CASE EndPoll \/ HeartbeatFails \/ RequestStop
    <2>1. spent' \in [{"exits", "faults", "deaths"} -> Nat]
      BY <1>0, <1>3, SpendNat DEF EndPoll, HeartbeatFails, RequestStop, Fault, ThreadInv
    <2>2. /\ UNCHANGED <<commands, desired, offset, hand>>
          /\ pc' \in {"loop", "stopping", "leaving"} /\ hand = 0
      BY <1>0, <1>3 DEF EndPoll, HeartbeatFails, RequestStop, Raise, ThreadInv, stateFile
    <2>3. todo' = todo \/ todo' = <<>>
      BY <1>3 DEF EndPoll, HeartbeatFails, RequestStop, Raise
    <2>4. todo' \in Seq(Worker)
      <3>1. todo \in Seq(Worker) /\ <<>> \in Seq(Worker)
        BY <1>0 DEF ThreadInv
      <3> QED
        BY <2>3, <3>1
    <2>5. /\ commands' \in Seq(Command) /\ desired' \in [Worker -> BOOLEAN]
          /\ offset' \in 0 .. Len(commands')
          /\ hand' \in {0, offset', offset' + 1} \cap (0 .. Len(commands'))
      BY <1>0, <2>2 DEF ThreadInv
    <2> QED
      BY <2>1, <2>2, <2>4, <2>5 DEF ThreadInv
  <1>4. CASE SaveDesired
    <2>1. hand \in 1 .. Len(commands) /\ commands[hand] \in Command
      BY <1>0, <1>4 DEF SaveDesired, ThreadInv
    <2>2. Head(todo) \in Worker /\ commands[hand].on \in BOOLEAN
      BY <1>0, <1>4, <2>1, CommandTargets DEF SaveDesired, ThreadInv
    <2> QED
      BY <1>0, <1>4, <2>1, <2>2 DEF SaveDesired, ThreadInv
  <1>5. CASE FinishUpdate
    BY <1>0, <1>5 DEF FinishUpdate, UpdateDone, ThreadInv
  <1>6. ASSUME NEW c \in Command, SendCommand(c) PROVE ThreadInv'
    <2>1. \A i \in 1 .. Len(commands) : commands'[i] = commands[i]
      BY <1>0, <1>6, SendAppends
    <2> QED
      BY <1>0, <1>6, <2>1, SendAppends DEF SendCommand, ThreadInv, stateFile, memory
  <1>7. ASSUME NEW w \in Worker,
               \/ SuperviseUndesired(w) \/ SuperviseRunning(w) \/ SuperviseExited(w)
               \/ SuperviseMissing(w) \/ SuperviseFails(w)
        PROVE  ThreadInv'
    <2>1. spent' \in [{"exits", "faults", "deaths"} -> Nat]
      BY <1>0, <1>7, SpendNat DEF SuperviseUndesired, SuperviseRunning, SuperviseExited,
         SuperviseMissing, SuperviseFails, NextWorker, Fault, ThreadInv
    <2>2. pc = "supervise" /\ todo # <<>> /\ ((NextWorker /\ spent' = spent) \/ Raise)
      BY <1>7 DEF SuperviseUndesired, SuperviseRunning, SuperviseExited, SuperviseMissing,
         SuperviseFails, Visit, NextWorker
    <2> QED
      BY <1>0, <2>1, <2>2, SupervisionThread
  <1>8. ASSUME NEW w \in Worker, ApplyDesired(w) PROVE ThreadInv'
    BY <1>0, <1>8 DEF ApplyDesired, ThreadInv, stateFile
  <1>9. ASSUME NEW w \in Worker, ApplyFails(w) PROVE ThreadInv'
    <2>1. spent' \in [{"exits", "faults", "deaths"} -> Nat]
      BY <1>0, <1>9, SpendNat DEF ApplyFails, Fault
    <2> QED
      BY <1>0, <1>9, <2>1 DEF ApplyFails, Raise, ThreadInv, stateFile
  <1>10. CASE Die \/ Reboot \/ \E kept \in SUBSET Worker : StopAll(kept)
    <2>1. /\ spent' \in [{"exits", "faults", "deaths"} -> Nat]
          /\ Forgotten /\ pc' \in {"down", "left"}
      BY <1>0, <1>10, SpendNat DEF Die, Reboot, StopAll, Fault, ThreadInv
    <2> QED
      BY <1>0, <2>1 DEF Forgotten, ThreadInv, stateFile
  <1>11. ASSUME NEW w \in Worker, NEW p \in Pid,
                LockRefused(w, p) \/ Exit(w, p) \/ AcquireLock(w, p)
         PROVE  ThreadInv'
    <2>1. spent' \in [{"exits", "faults", "deaths"} -> Nat]
      BY <1>0, <1>11, SpendNat DEF LockRefused, Exit, AcquireLock, ThreadInv
    <2>2. UNCHANGED <<commands, stateFile, pc, hand, todo>>
      BY <1>11 DEF LockRefused, Exit, AcquireLock, End, memory
    <2> QED
      BY <1>0, <2>1, <2>2 DEF ThreadInv, stateFile
  <1>12. ASSUME NEW w \in Worker, BackOffEnds(w) PROVE ThreadInv'
    BY <1>0, <1>12 DEF BackOffEnds, ThreadInv, stateFile
  <1>13. CASE UNCHANGED vars
    BY <1>0, <1>13 DEF vars, stateFile, memory, ThreadInv
  <1> QED
    BY <1>1, <1>2, <1>3, <1>4, <1>5, <1>6, <1>7, <1>8, <1>9, <1>10, <1>11, <1>12, <1>13
       DEF Next, Loop, Process


-----------------------------------------------------------------------------
(* Children, the update in hand and the state file.                         *)

\* A child belongs to a desired worker, or to the one whose off is being carried out.
ChildInv ==
    /\ \A w \in Worker : child[w] # NoPid => desired[w] \/ (pc = "apply" /\ Head(todo) = w)
    /\ Down => \A w \in Worker : child[w] = NoPid

LEMMA ChildStep ==
    ASSUME IInv, [Next]_vars
    PROVE  ChildInv'
  <1>0. ProcessInv /\ ThreadInv /\ ChildInv
    BY Parts DEF IInv, SupervisorInv, ChildrenOK, HandOK, ChildInv
  <1>1. ASSUME UNCHANGED <<desired, child>>, pc # "apply", ~Down' \/ Down
        PROVE  ChildInv'
    BY <1>0, <1>1 DEF ChildInv
  <1>2. CASE Boot \/ StartByHand \/ BeginSupervision \/ EndSupervision \/ BeginUpdate \/ EndPoll
             \/ FinishUpdate \/ HeartbeatFails \/ RequestStop
    BY <1>0, <1>1, <1>2 DEF Boot, StartByHand, Begin, BeginSupervision, EndSupervision,
       BeginUpdate, UpdateTaken, EndPoll, FinishUpdate, UpdateDone, HeartbeatFails, RequestStop,
       Raise, stateFile, ThreadInv, Down
  <1>3. CASE SaveDesired
    BY <1>0, <1>3 DEF SaveDesired, Down, ChildInv, ThreadInv
  <1>4. ASSUME NEW c \in Command, SendCommand(c) PROVE ChildInv'
    BY <1>0, <1>4 DEF SendCommand, Down, ChildInv, stateFile, memory
  <1>5. ASSUME NEW w \in Worker,
               \/ SuperviseUndesired(w) \/ SuperviseRunning(w) \/ SuperviseExited(w)
               \/ SuperviseMissing(w) \/ SuperviseFails(w)
        PROVE  ChildInv'
    <2>1. pc = "supervise" /\ ~Down' /\ desired' = desired
      BY <1>5 DEF SuperviseUndesired, SuperviseRunning, SuperviseExited, SuperviseMissing,
         SuperviseFails, Visit, NextWorker, Raise, stateFile, Down
    <2>2. \A v \in Worker : v # w => child'[v] = child[v]
      BY <1>0, <1>5 DEF SuperviseUndesired, SuperviseRunning, SuperviseExited, SuperviseMissing,
         SuperviseFails, Launch, StopWorker, ProcessInv
    <2>3. desired[w] \/ child'[w] \in {NoPid, child[w]}
      BY <1>0, <1>5 DEF SuperviseUndesired, SuperviseRunning, SuperviseExited, SuperviseMissing,
         SuperviseFails, StopWorker, ProcessInv
    <2> QED
      BY <1>0, <2>1, <2>2, <2>3 DEF ChildInv
  <1>6. ASSUME NEW w \in Worker, ApplyDesired(w) \/ ApplyFails(w) PROVE ChildInv'
    <2>1. pc = "apply" /\ w = Head(todo) /\ desired' = desired /\ ~Down' /\ pc' # "apply"
      BY <1>6 DEF ApplyDesired, ApplyFails, Raise, stateFile, Down
    <2>2. \A v \in Worker : v # w => child'[v] = child[v]
      BY <1>0, <1>6 DEF ApplyDesired, ApplyFails, StartWorker, Launch, StopWorker, StopTimesOut,
         ProcessInv
    <2>3. desired[w] \/ child'[w] = NoPid
      BY <1>0, <1>6, StopEffect, TimeOutEffect DEF ApplyDesired, ApplyFails
    <2> QED
      BY <1>0, <2>1, <2>2, <2>3 DEF ChildInv
  <1>7. CASE Die \/ Reboot \/ \E kept \in SUBSET Worker : StopAll(kept)
    BY <1>7 DEF Die, Reboot, StopAll, Forgotten, ChildInv
  <1>8. ASSUME NEW w \in Worker, NEW p \in Pid,
               LockRefused(w, p) \/ Exit(w, p) \/ AcquireLock(w, p)
        PROVE  ChildInv'
    BY <1>0, <1>8 DEF LockRefused, Exit, AcquireLock, End, Down, ChildInv, stateFile, memory
  <1>9. ASSUME NEW w \in Worker, BackOffEnds(w) PROVE ChildInv'
    BY <1>0, <1>9 DEF BackOffEnds, Down, ChildInv, stateFile
  <1>10. CASE UNCHANGED vars
    BY <1>0, <1>10 DEF vars, stateFile, memory, Down, ChildInv
  <1> QED
    BY <1>2, <1>3, <1>4, <1>5, <1>6, <1>7, <1>8, <1>9, <1>10 DEF Next, Loop, Process

\* An update that is begun is still in the queue; its handling goes from its first
\* worker to its last.
LEMMA UpdateStep ==
    ASSUME IInv, [Next]_vars
    PROVE  UpdateInv'
  <1>0. ThreadInv /\ UpdateInv
    BY Parts DEF IInv
  <1>1. ASSUME UNCHANGED <<commands, offset, hand, todo, pc>> PROVE UpdateInv'
    BY <1>0, <1>1 DEF UpdateInv
  <1>2. ASSUME hand' = 0, offset' \in Nat, pc' \notin {"command", "apply"} PROVE UpdateInv'
    BY <1>2 DEF UpdateInv
  <1>3. offset \in Nat /\ hand \in Nat
    BY <1>0 DEF ThreadInv
  <1>4. CASE Boot \/ StartByHand \/ BeginSupervision \/ EndPoll \/ FinishUpdate \/ HeartbeatFails
             \/ RequestStop
    BY <1>0, <1>2, <1>3, <1>4 DEF Boot, StartByHand, Begin, BeginSupervision, EndPoll,
       FinishUpdate, UpdateDone, HeartbeatFails, RequestStop, Raise, stateFile,
       ThreadInv, UpdateInv
  <1>5. CASE EndSupervision
    BY <1>0, <1>5 DEF EndSupervision, stateFile, UpdateInv
  <1>6. CASE BeginUpdate
    BY <1>0, <1>3, <1>6 DEF BeginUpdate, UpdateTaken, UpdateInv
  <1>7. CASE SaveDesired
    BY <1>0, <1>3, <1>7 DEF SaveDesired, UpdateInv
  <1>8. ASSUME NEW c \in Command, SendCommand(c) PROVE UpdateInv'
    <2>1. \A i \in 1 .. Len(commands) : commands'[i] = commands[i]
      BY <1>0, <1>8, SendAppends
    <2>2. hand = offset + 1 \/ pc \in {"command", "apply"} => commands'[hand] = commands[hand]
      BY <1>0, <1>3, <2>1 DEF ThreadInv
    <2> QED
      BY <1>0, <1>8, <2>2 DEF SendCommand, UpdateInv, stateFile, memory
  <1>9. ASSUME NEW w \in Worker,
               \/ SuperviseUndesired(w) \/ SuperviseRunning(w) \/ SuperviseExited(w)
               \/ SuperviseMissing(w) \/ SuperviseFails(w)
        PROVE  UpdateInv'
    <2>1. pc = "supervise" /\ (NextWorker \/ Raise)
      BY <1>9 DEF SuperviseUndesired, SuperviseRunning, SuperviseExited, SuperviseMissing,
         SuperviseFails, Visit
    <2> QED
      BY <1>0, <2>1 DEF NextWorker, Raise, stateFile, UpdateInv
  <1>10. ASSUME NEW w \in Worker, ApplyDesired(w) PROVE UpdateInv'
    <2>1. pc = "apply" /\ hand = offset /\ todo # <<>> /\ todo \in Seq(Worker)
      BY <1>0, <1>10 DEF ApplyDesired, ThreadInv
    <2>2. UNCHANGED <<commands, offset, hand>> /\ todo' = Tail(todo) /\ pc' = "command"
      BY <1>10 DEF ApplyDesired, stateFile
    <2>3. \A k \in DOMAIN todo' : k + 1 \in DOMAIN todo /\ todo'[k] = todo[k + 1]
      BY <2>1, <2>2
    <2> QED
      BY <1>0, <1>3, <2>1, <2>2, <2>3 DEF UpdateInv
  <1>11. ASSUME NEW w \in Worker, ApplyFails(w) PROVE UpdateInv'
    BY <1>0, <1>3, <1>11 DEF ApplyFails, Raise, stateFile, ThreadInv, UpdateInv
  <1>12. CASE Die \/ Reboot \/ \E kept \in SUBSET Worker : StopAll(kept)
    BY <1>2, <1>3, <1>12 DEF Die, Reboot, StopAll, Forgotten, stateFile
  <1>13. ASSUME NEW w \in Worker, NEW p \in Pid,
                LockRefused(w, p) \/ Exit(w, p) \/ AcquireLock(w, p)
         PROVE  UpdateInv'
    BY <1>1, <1>13 DEF LockRefused, Exit, AcquireLock, End, stateFile, memory
  <1>14. ASSUME NEW w \in Worker, BackOffEnds(w) PROVE UpdateInv'
    BY <1>1, <1>14 DEF BackOffEnds, stateFile
  <1>15. CASE UNCHANGED vars
    BY <1>1, <1>15 DEF vars, stateFile, memory
  <1> QED
    BY <1>4, <1>5, <1>6, <1>7, <1>8, <1>9, <1>10, <1>11, <1>12, <1>13, <1>14, <1>15
       DEF Next, Loop, Process

-----------------------------------------------------------------------------
(* The latest command and the state file.                                   *)

\* While commands, offset and desired stay, so do the latest commands and what they
\* asked for.
LEMMA LatestKept ==
    ASSUME LatestCommandSaved, UNCHANGED <<commands, offset, desired>>
    PROVE  LatestCommandSaved'
  BY DEF LatestCommandSaved, Latest

\* When the offset passes an update, the commands that stay the latest are the ones
\* that were, and perhaps this one.
LEMMA LatestShrinks ==
    ASSUME ThreadInv, hand = offset + 1, offset' = hand, commands' = commands,
           NEW w \in Worker, NEW i \in 1 .. offset', Latest(w, i)'
    PROVE  \/ i = hand /\ commands[hand].targets # <<>> /\ Head(commands[hand].targets) = w
           \/ /\ i \in 1 .. offset /\ Latest(w, i)
              /\ \A k \in DOMAIN commands[hand].targets : commands[hand].targets[k] # w
  <1>1. offset \in Nat
    BY DEF ThreadInv
  <1>2. CASE i = hand
    BY <1>2 DEF Latest
  <1>3. CASE i # hand
    <2>1. i \in 1 .. offset /\ hand \in i + 1 .. offset'
      BY <1>1, <1>3
    <2>2. w \notin {commands[hand].targets[k] : k \in DOMAIN commands[hand].targets}
      BY <2>1 DEF Latest
    <2>3. \A j \in i + 1 .. offset : j \in i + 1 .. offset'
      BY <1>1
    <2>4. Latest(w, i)
      BY <2>3 DEF Latest
    <2> QED
      BY <2>1, <2>2, <2>4
  <1> QED
    BY <1>2, <1>3

\* set_desired saves what the command says for its first worker together with the
\* offset, and for the second when the offset already is behind the command.
LEMMA SaveDesiredStep ==
    ASSUME IInv, SaveDesired
    PROVE  LatestCommandSaved'
  <1> DEFINE h == Head(todo)
  <1>0. ThreadInv /\ UpdateInv /\ LatestCommandSaved
    BY Parts DEF IInv
  <1>1. /\ pc = "command" /\ todo # <<>> /\ todo \in Seq(Worker)
        /\ desired' = [desired EXCEPT ![h] = commands[hand].on]
        /\ offset' = hand /\ commands' = commands
        /\ hand \in {offset, offset + 1}
    BY <1>0 DEF SaveDesired, ThreadInv
  <1>2. /\ 1 \in DOMAIN todo /\ todo[1] = h /\ h \in Worker
        /\ desired \in [Worker -> BOOLEAN] /\ offset \in Nat
    BY <1>0, <1>1 DEF ThreadInv
  <1>3. PICK j \in DOMAIN commands[hand].targets : commands[hand].targets[j] = h
    BY <1>0, <1>1, <1>2 DEF UpdateInv
  <1> HIDE DEF h
  <1>4. SUFFICES ASSUME NEW w \in Worker, NEW i \in 1 .. offset', Latest(w, i)'
                 PROVE  desired'[w] = commands[i].on
    BY <1>1 DEF LatestCommandSaved
  <1>5. CASE hand = offset
    <2>1. i \in 1 .. offset /\ Latest(w, i) /\ desired[w] = commands[i].on
      BY <1>0, <1>1, <1>4, <1>5 DEF Latest, LatestCommandSaved
    <2>2. CASE w = h
      <3>1. i = hand
        <4> SUFFICES ASSUME i # hand PROVE FALSE
          OBVIOUS
        <4>1. hand \in i + 1 .. offset
          BY <1>2, <1>5, <2>1
        <4> QED
          BY <1>3, <2>1, <2>2, <4>1 DEF Latest
      <3> QED
        BY <1>1, <1>2, <2>2, <3>1
    <2>3. CASE w # h
      BY <1>1, <1>2, <2>1, <2>3
    <2> QED
      BY <2>2, <2>3
  <1>6. CASE hand = offset + 1
    <2>1. Head(commands[hand].targets) = h
      BY <1>0, <1>1, <1>3, <1>6 DEF UpdateInv, h
    <2>2. CASE i = hand /\ Head(commands[hand].targets) = w
      BY <1>1, <1>2, <2>1, <2>2
    <2>3. CASE /\ i \in 1 .. offset /\ Latest(w, i)
               /\ \A k \in DOMAIN commands[hand].targets : commands[hand].targets[k] # w
      <3>1. w # h /\ desired[w] = commands[i].on
        BY <1>0, <1>3, <2>3 DEF LatestCommandSaved
      <3> QED
        BY <1>1, <1>2, <3>1
    <2> QED
      BY <1>0, <1>1, <1>4, <1>6, <2>2, <2>3, LatestShrinks
  <1> QED
    BY <1>1, <1>5, <1>6

\* The offset passes an update that was not saved only when it names nobody.
LEMMA FinishStep ==
    ASSUME IInv, FinishUpdate
    PROVE  LatestCommandSaved'
  <1>0. ThreadInv /\ UpdateInv /\ LatestCommandSaved
    BY Parts DEF IInv
  <1>1. /\ offset' = hand /\ UNCHANGED <<commands, desired>>
        /\ hand \in {offset, offset + 1}
        /\ pc = "finish" \/ todo = <<>>
    BY <1>0 DEF FinishUpdate, UpdateDone, ThreadInv
  <1>2. CASE hand = offset
    BY <1>0, <1>1, <1>2, LatestKept
  <1>3. CASE hand = offset + 1
    <2>1. commands[hand].targets = <<>>
      BY <1>0, <1>1, <1>3 DEF UpdateInv
    <2>2. ASSUME NEW w \in Worker, NEW i \in 1 .. offset', Latest(w, i)'
          PROVE  desired'[w] = commands'[i].on
      BY <1>0, <1>1, <1>3, <2>1, <2>2, LatestShrinks DEF LatestCommandSaved
    <2> QED
      BY <2>2 DEF LatestCommandSaved
  <1> QED
    BY <1>1, <1>2, <1>3

LEMMA SavedStep ==
    ASSUME IInv, [Next]_vars
    PROVE  LatestCommandSaved'
  <1>0. ThreadInv /\ LatestCommandSaved
    BY Parts DEF IInv
  <1>1. CASE SaveDesired \/ FinishUpdate
    BY <1>1, SaveDesiredStep, FinishStep
  <1>2. ASSUME NEW c \in Command, SendCommand(c) PROVE LatestCommandSaved'
    <2>1. \A i \in 1 .. offset : commands'[i] = commands[i]
      BY <1>0, <1>2, SendAppends DEF ThreadInv
    <2>2. UNCHANGED <<offset, desired>>
      BY <1>2 DEF SendCommand, stateFile
    <2>3. ASSUME NEW w \in Worker, NEW i \in 1 .. offset, Latest(w, i)' PROVE Latest(w, i)
      <3>1. offset \in Nat /\ \A j \in i + 1 .. offset : j \in 1 .. offset
        BY <1>0 DEF ThreadInv
      <3> QED
        BY <2>1, <2>2, <2>3, <3>1 DEF Latest
    <2> QED
      BY <1>0, <2>1, <2>2, <2>3 DEF LatestCommandSaved
  <1>3. CASE UNCHANGED <<commands, offset, desired>>
    BY <1>0, <1>3, LatestKept
  <1>4. [Next]_vars => \/ SaveDesired \/ FinishUpdate \/ \E c \in Command : SendCommand(c)
                       \/ UNCHANGED <<commands, offset, desired>>
    BY DEF Next, Loop, Process, Boot, StartByHand, Begin, BeginSupervision, EndSupervision,
       SuperviseUndesired,
       SuperviseRunning, SuperviseExited, SuperviseMissing, SuperviseFails, NextWorker, Raise,
       ApplyDesired, ApplyFails, BeginUpdate, UpdateTaken, EndPoll, StopAll, Forgotten,
       HeartbeatFails, RequestStop, Die, Reboot, BackOffEnds, AcquireLock, LockRefused, Exit,
       End, stateFile, memory, vars
  <1> QED
    BY <1>1, <1>2, <1>3, <1>4

-----------------------------------------------------------------------------
(* The theorems.                                                            *)

LEMMA InitIInv == Init => IInv
  <1> SUFFICES ASSUME Init PROVE IInv
    OBVIOUS
  <1>1. ProcessInv /\ ThreadInv /\ ChildInv
    BY FirstBootAssumption DEF Init, ProcessInv, ThreadInv, ChildInv, LocksOK
  <1>2. UpdateInv /\ LatestCommandSaved
    BY DEF Init, UpdateInv, LatestCommandSaved
  <1> QED
    BY <1>1, <1>2 DEF IInv, SupervisorInv, TypeOK, LocksOK, ChildrenOK, HandOK, ProcessInv,
       ThreadInv, ChildInv

LEMMA StepIInv == IInv /\ [Next]_vars => IInv'
  <1> SUFFICES ASSUME IInv, [Next]_vars PROVE IInv'
    OBVIOUS
  <1>1. ProcessInv' /\ ThreadInv' /\ ChildInv' /\ UpdateInv' /\ LatestCommandSaved'
    BY ProcessStep, ThreadStep, ChildStep, UpdateStep, SavedStep
  <1> QED
    BY <1>1 DEF IInv, SupervisorInv, TypeOK, LocksOK, ChildrenOK, HandOK, ProcessInv,
       ThreadInv, ChildInv

LEMMA IInvHolds == Spec => []IInv
  BY InitIInv, StepIInv, PTL DEF Spec

\* What the orchestrator believes of its workers and of the command in hand is
\* consistent in every state (set_desired, start_worker, stop_worker, supervise_once).
THEOREM SupervisorInvariant == Spec => []SupervisorInv
  <1>1. IInv => SupervisorInv
    BY DEF IInv
  <1> QED
    BY <1>1, IInvHolds, PTL

\* No update leaves Telegram's queue without its effect on the state file
\* (poll_once, set_desired).
THEOREM CommandsAreSaved == Spec => []LatestCommandSaved
  <1>1. IInv => LatestCommandSaved
    BY DEF IInv
  <1> QED
    BY <1>1, IInvHolds, PTL

\* A worker whose latest command is an off, is not started (start_worker,
\* supervise_once).
THEOREM OffWorkersStayOff == Spec => OffKeepsOff
  <1>1. IInv /\ [Next]_vars =>
           [\A w \in Worker, i \in 1 .. offset :
               Latest(w, i) /\ ~commands[i].on => live'[w] \subseteq live[w]]_vars
    <2> SUFFICES ASSUME IInv, Next, NEW w \in Worker, ~desired[w]
                 PROVE  live'[w] \subseteq live[w]
      BY DEF IInv, LatestCommandSaved
    <2>0. ProcessInv
      BY Parts
    <2>1. ASSUME NEW v \in Worker, desired[v],
                 Launch(v) \/ StartWorker(v)
          PROVE  live'[w] \subseteq live[w]
      BY <2>0, <2>1 DEF StartWorker, Launch, ProcessInv, processes
    <2>2. ASSUME NEW v \in Worker, StopWorker(v) PROVE live'[w] \subseteq live[w]
      BY <2>0, <2>2 DEF StopWorker, ProcessInv
    <2>3. ASSUME NEW v \in Worker,
                 \/ SuperviseUndesired(v) \/ SuperviseRunning(v) \/ SuperviseExited(v)
                 \/ SuperviseMissing(v) \/ SuperviseFails(v)
          PROVE  live'[w] \subseteq live[w]
      BY <2>1, <2>2, <2>3 DEF SuperviseUndesired, SuperviseRunning, SuperviseExited,
         SuperviseMissing, SuperviseFails, processes
    <2>4. ASSUME NEW v \in Worker, ApplyDesired(v) \/ ApplyFails(v)
          PROVE  live'[w] \subseteq live[w]
      BY <2>1, <2>2, <2>4 DEF ApplyDesired, ApplyFails, StopTimesOut, processes
    <2>5. ASSUME NEW kept \in SUBSET Worker, StopAll(kept) PROVE live'[w] \subseteq live[w]
      BY <2>5 DEF StopAll
    <2>6. ASSUME NEW v \in Worker, NEW p \in Pid, LockRefused(v, p) \/ Exit(v, p)
          PROVE  live'[w] \subseteq live[w]
      BY <2>0, <2>6, EndEffect DEF LockRefused, Exit
    <2>7. CASE Reboot
      BY <2>7 DEF Reboot
    <2>8. CASE \/ Boot \/ StartByHand \/ BeginSupervision \/ EndSupervision \/ BeginUpdate
               \/ EndPoll \/ SaveDesired \/ FinishUpdate \/ HeartbeatFails \/ RequestStop \/ Die
               \/ \E c \in Command : SendCommand(c)
               \/ \E v \in Worker : BackOffEnds(v) \/ \E p \in Pid : AcquireLock(v, p)
      BY <2>8 DEF Boot, StartByHand, Begin, BeginSupervision, EndSupervision, BeginUpdate,
         UpdateTaken, EndPoll, SaveDesired, FinishUpdate, UpdateDone, HeartbeatFails,
         RequestStop, Die, SendCommand,
         BackOffEnds, AcquireLock, processes
    <2> QED
      BY <2>3, <2>4, <2>5, <2>6, <2>7, <2>8 DEF Next, Loop, Process
  <1> QED
    BY <1>1, IInvHolds, PTL DEF Spec, OffKeepsOff

\* A running worker is lost from sight only by an end of the orchestrator or by a stop
\* that times out; so a second worker is never started beside a child
\* (start_worker).
THEOREM WorkersAreNotAbandoned == Spec => NeverAbandons
  <1>1. IInv /\ [Next]_vars =>
           [pc' = "down" \/ \A w \in Worker :
               Orphans(w)' \subseteq Orphans(w) \/ StopTimesOut(w)]_vars
    BY ProcessStep DEF NoNewOrphans
  <1> QED
    BY <1>1, IInvHolds, PTL DEF Spec, NeverAbandons
=============================================================================
