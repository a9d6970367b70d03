-------------------------- MODULE WorkloadManager ---------------------------
(***************************************************************************)
(* src/src/workloadmanager/WorkloadManager.cxx: the manager around the     *)
(* placement algorithm.  Four kinds of threads share _data_mutex: the      *)
(* client (start, addTask, stop...), the thread of runTasks, the thread of *)
(* endTasks, and one thread per running task (runOneTask).  runTasks and   *)
(* endTasks sleep on a condition variable each.                            *)
(*                                                                         *)
(* A step that takes and releases the mutex in one go is one action;       *)
(* runTasks and endTasks keep it over several (mutex names the holder).    *)
(* A TaskId is fresh for every launch: the task itself stands for it, and  *)
(* granted (the algorithm's) for the keys and contents of _runningTasks.   *)
(***************************************************************************)
EXTENDS DefaultAlgorithm

CONSTANTS
  Throwing,     \* the tasks whose run() may let an exception out
  MaxStarts     \* bound: how often the client calls start()

ASSUME ManagerAssumption == Throwing \subseteq Tasks /\ MaxStarts \in Nat

VARIABLES
  stop,         \* _stop
  mutex,        \* holder of _data_mutex across steps: "none", "run", "end"
  runPc,        \* thread of runTasks: "off", "lock", "asleep", "choosing"
  endPc,        \* thread of endTasks: "off", "lock", "asleep", "draining"
  thread,       \* of each task: "none", "running", "pushed", "ended"
  finished,     \* _finishedTasks
  client,       \* the caller of stop(): "idle", "notifying", "joining"
  added,        \* the tasks the client has given to addTask
  starts        \* number of start() that started the threads

managerVars == <<stop, mutex, runPc, endPc, thread, finished, client, added, starts>>
vars == <<algoVars, managerVars>>

WInit ==
  /\ Init
  /\ stop = TRUE
  /\ mutex = "none"
  /\ runPc = "off" /\ endPc = "off"
  /\ thread = [t \in Tasks |-> "none"]
  /\ finished = <<>>
  /\ client = "idle"
  /\ added = {}
  /\ starts = 0

(* notify_one on a condition variable that one thread at most waits for.   *)
Notified(pc) == IF pc = "asleep" THEN "lock" ELSE pc

RunningEmpty == granted = {}
Drained == stop /\ RunningEmpty /\ waiting = <<>>

-----------------------------------------------------------------------------
(* The client: one thread, so it makes no call while it is inside stop().  *)

(* Mutant: addTask does not notify the thread of runTasks.                 *)
WAddTaskSilent(t) ==
  /\ client = "idle" /\ mutex = "none" /\ t \notin added
  /\ AddTask(t)
  /\ added' = added \union {t}
  /\ UNCHANGED <<stop, mutex, runPc, endPc, thread, finished, client, starts>>

WAddTask(t) ==
  /\ client = "idle" /\ mutex = "none" /\ t \notin added
  /\ AddTask(t)
  /\ added' = added \union {t}
  /\ runPc' = Notified(runPc)
  /\ UNCHANGED <<stop, mutex, endPc, thread, finished, client, starts>>

WAddResource(r) ==
  /\ client = "idle" /\ mutex = "none" /\ ~frozen /\ r \notin Known
  /\ AddResource(r)
  /\ runPc' = Notified(runPc)
  /\ UNCHANGED <<stop, mutex, endPc, thread, finished, client, added, starts>>

WFreezeResources ==
  /\ client = "idle" /\ mutex = "none" /\ ~frozen
  /\ FreezeResources
  /\ runPc' = Notified(runPc)
  /\ UNCHANGED <<stop, mutex, endPc, thread, finished, client, added, starts>>

Start ==
  /\ client = "idle" /\ mutex = "none" /\ stop /\ starts < MaxStarts
  /\ stop' = FALSE
  /\ runPc' = "lock" /\ endPc' = "lock"
  /\ starts' = starts + 1
  /\ UNCHANGED <<algoVars, mutex, thread, finished, client, added>>

(* stop(): the flag is set under the mutex, the notifications come after   *)
(* it is released, then the two threads, if there are any, are joined.     *)
StopBegin ==
  /\ client = "idle" /\ mutex = "none"
  /\ stop' = TRUE
  /\ FreezeResources
  /\ client' = "notifying"
  /\ UNCHANGED <<mutex, runPc, endPc, thread, finished, added, starts>>

(* Mutant: stop() wakes the first thread only.                             *)
StopNotifyStart ==
  /\ client = "notifying"
  /\ client' = "joining"
  /\ runPc' = Notified(runPc)
  /\ UNCHANGED <<algoVars, stop, mutex, endPc, thread, finished, added, starts>>

StopNotify ==
  /\ client = "notifying"
  /\ client' = "joining"
  /\ runPc' = Notified(runPc)
  /\ endPc' = Notified(endPc)
  /\ UNCHANGED <<algoVars, stop, mutex, thread, finished, added, starts>>

StopReturn ==
  /\ client = "joining" /\ runPc = "off" /\ endPc = "off"
  /\ client' = "idle"
  /\ UNCHANGED <<algoVars, stop, mutex, runPc, endPc, thread, finished, added, starts>>

-----------------------------------------------------------------------------
(* The thread of runTasks.                                                 *)

RunLock ==
  /\ runPc = "lock" /\ mutex = "none"
  /\ IF waiting # <<>> \/ stop
       THEN runPc' = "choosing" /\ mutex' = "run"
       ELSE runPc' = "asleep" /\ UNCHANGED mutex
  /\ UNCHANGED <<algoVars, stop, endPc, thread, finished, client, added, starts>>

(* One turn of the inner loop: the task starts in a thread of its own.     *)
RunChoose ==
  /\ runPc = "choosing"
  /\ ChooseTask
  /\ thread' = [t \in Tasks |->
                  IF \E g \in granted' \ granted : g.task = t THEN "running"
                  ELSE thread[t]]
  /\ UNCHANGED <<stop, mutex, runPc, endPc, finished, client, added, starts>>

(* Nothing more to choose: release, then sleep 1 ms before the next turn.  *)
RunRelease ==
  /\ runPc = "choosing" /\ ~CanChoose
  /\ mutex' = "none"
  /\ runPc' = IF stop /\ waiting = <<>> THEN "off" ELSE "lock"
  /\ UNCHANGED <<algoVars, stop, endPc, thread, finished, client, added, starts>>

(* C++ lets a condition variable wake up for no reason.                    *)
SpuriousWakeup ==
  /\ \/ runPc = "asleep" /\ runPc' = "lock" /\ UNCHANGED endPc
     \/ endPc = "asleep" /\ endPc' = "lock" /\ UNCHANGED runPc
  /\ UNCHANGED <<algoVars, stop, mutex, thread, finished, client, added, starts>>

-----------------------------------------------------------------------------
(* The thread of one task.                                                 *)

(* task->run has returned: report under the mutex.                         *)
TaskPush(info) ==
  /\ thread[info.task] = "running" /\ mutex = "none"
  /\ thread' = [thread EXCEPT ![info.task] = "pushed"]
  /\ finished' = Append(finished, info)
  /\ endPc' = Notified(endPc)
  /\ UNCHANGED <<algoVars, stop, mutex, runPc, client, added, starts>>

(* runOneTask catches nothing: the future keeps the exception, the task is *)
(* never pushed.                                                           *)
TaskThrow(info) ==
  /\ info.task \in Throwing
  /\ thread[info.task] = "running"
  /\ thread' = [thread EXCEPT ![info.task] = "ended"]
  /\ UNCHANGED <<algoVars, stop, mutex, runPc, endPc, finished, client, added, starts>>

TaskExit(info) ==
  /\ thread[info.task] = "pushed"
  /\ thread' = [thread EXCEPT ![info.task] = "ended"]
  /\ UNCHANGED <<algoVars, stop, mutex, runPc, endPc, finished, client, added, starts>>

-----------------------------------------------------------------------------
(* The thread of endTasks.                                                 *)

EndLock ==
  /\ endPc = "lock" /\ mutex = "none"
  /\ IF finished # <<>> \/ Drained
       THEN endPc' = "draining" /\ mutex' = "end"
       ELSE endPc' = "asleep" /\ UNCHANGED mutex
  /\ UNCHANGED <<algoVars, stop, runPc, thread, finished, client, added, starts>>

(* Mutant: the front of the queue is read but not popped.                  *)
EndDrainNoPop ==
  /\ endPc = "draining" /\ finished # <<>>
  /\ thread[Head(finished).task] = "ended"
  /\ Liberate(Head(finished))
  /\ UNCHANGED <<stop, mutex, runPc, endPc, thread, finished, client, added, starts>>

(* Pop one finished task: its thread is waited for with the mutex held.    *)
EndDrain ==
  /\ endPc = "draining" /\ finished # <<>>
  /\ thread[Head(finished).task] = "ended"
  /\ finished' = Tail(finished)
  /\ Liberate(Head(finished))
  /\ UNCHANGED <<stop, mutex, runPc, endPc, thread, client, added, starts>>

EndRelease ==
  /\ endPc = "draining" /\ finished = <<>>
  /\ mutex' = "none"
  /\ endPc' = IF Drained THEN "off" ELSE "lock"
  /\ runPc' = Notified(runPc)
  /\ UNCHANGED <<algoVars, stop, thread, finished, client, added, starts>>

-----------------------------------------------------------------------------

(* The client makes no further call: not a deadlock when it is not blocked *)
(* inside stop().                                                          *)
ClientDone == client = "idle" /\ UNCHANGED vars

RunThread == RunLock \/ RunChoose \/ RunRelease
EndThread == EndLock \/ EndDrain \/ EndRelease
TaskThread(info) == TaskPush(info) \/ TaskThrow(info) \/ TaskExit(info)
Stopping == StopNotify \/ StopReturn

WNext ==
  \/ \E t \in Tasks : WAddTask(t)
  \/ \E r \in Resources : WAddResource(r)
  \/ WFreezeResources
  \/ Start
  \/ StopBegin
  \/ Stopping
  \/ RunThread
  \/ EndThread
  \/ \E info \in granted : TaskThread(info)
  \/ SpuriousWakeup
  \/ ClientDone

(* The mutex is strongly fair: runTasks sleeps 1 ms without it at each     *)
(* turn, precisely to "give a chance to other tasks to finish"             *)
(* (WorkloadManager.cxx:115); every run() returns.                         *)
Fairness ==
  /\ WF_vars(Stopping)
  /\ SF_vars(RunThread)
  /\ SF_vars(EndThread)
  /\ \A t \in Tasks : SF_vars(\E info \in granted : info.task = t /\ TaskThread(info))

WSpec == WInit /\ [][WNext]_vars
FairSpec == WSpec /\ Fairness

-----------------------------------------------------------------------------

WTypeOK ==
  /\ TypeOK
  /\ stop \in BOOLEAN
  /\ mutex \in {"none", "run", "end"}
  /\ runPc \in {"off", "lock", "asleep", "choosing"}
  /\ endPc \in {"off", "lock", "asleep", "draining"}
  /\ thread \in [Tasks -> {"none", "running", "pushed", "ended"}]
  /\ finished \in Seq(LaunchInfo)
  /\ client \in {"idle", "notifying", "joining"}
  /\ added \subseteq Tasks
  /\ starts \in Nat

(* endTasks looks finished tasks up in _runningTasks with operator[], which*)
(* would make up an invalid future (and waiting on it is undefined): every *)
(* finished task is still there, and is queued once.                       *)
FinishedAreRunning ==
  /\ Range(finished) \subseteq granted
  /\ \A i, j \in DOMAIN finished : i # j => finished[i].task # finished[j].task

(* A task has thrown: it is never reported, and keeps its cores.           *)
Lost == \E g \in granted : thread[g.task] = "ended" /\ g \notin Range(finished)

(* stop() returns, whatever the client did before, unless a task has       *)
(* thrown: no notification is lost between the two threads it joins.       *)
StopReturns == client = "joining" ~> (client = "idle" \/ Lost)

(* Once started with its resources frozen, the manager runs and liberates  *)
(* every task, without waiting for stop(): no notification is lost, and a  *)
(* task that no resource supports is handed out as an error.               *)
EveryTaskServed ==
  \A t \in Tasks : (t \in added /\ frozen /\ runPc # "off") ~> (t \notin Held \/ Lost)

(* The manager, seen from its client, is a TaskPool.                       *)
Stage(t) ==
  IF t \notin added THEN "new"
  ELSE IF t \in Range(waiting) THEN "waiting"
  ELSE IF \A g \in granted : g.task # t THEN "released"
  ELSE IF thread[t] = "running" THEN "running" ELSE "done"

Place(t) ==
  IF \E g \in granted : g.task = t /\ g.kind = "placed"
    THEN LET g == CHOOSE g \in granted : g.task = t IN <<g.resource, g.index>>
    ELSE <<NoResource, 0>>

Pool == INSTANCE TaskPool WITH
  stage <- [t \in Tasks |-> Stage(t)],
  holds <- [t \in Tasks |-> Place(t)],
  open <- runPc # "off" \/ endPc # "off"

IsTaskPool == Pool!Spec
=============================================================================
