----------------------------- MODULE ExecutorWlm -----------------------------
(***************************************************************************)
(* src/src/engine/Executor.cxx, runWlm, and WlmTask.cxx: the loop that     *)
(* runs a graph through the workload manager.  The loop gives every ready  *)
(* task to the manager, counts it as running at once, and the manager's    *)
(* threads load, connect, run and end it.  The manager is the TaskPool     *)
(* that WorkloadManager implements.                                        *)
(*                                                                         *)
(* A critical section on _mutexForSchedulerUpdate is one action.  Pauses   *)
(* are in Executor: here the only request is "stop on error", made before  *)
(* the run.  There is no homogeneous pool of containers.                   *)
(***************************************************************************)
EXTENDS Bloc, Integers, FiniteSetsExt

CONSTANTS
  Failures,       \* the steps of a task that may throw: "load", "connect", "execute"
  MaxNbThreads,   \* _maxNbThreads
  ProblemLimit,   \* 25 in runWlm
  Spurious,       \* the wait of the loop may return for no reason
  Types, TypeOf,  \* the container types, and WlmTask::type of each task
  Resources,      \* the compute nodes of the catalogue
  NoResource,
  Cores,          \* neededCores of each type
  Ignoring,       \* the types with ignoreResources
  NbCores,        \* of each resource
  Accepted        \* WlmTask::isAccepted: the resources each task accepts

ASSUME WlmAssumption ==
  /\ Failures \in [Tasks -> SUBSET {"load", "connect", "execute"}]
  /\ MaxNbThreads \in Nat /\ ProblemLimit \in Nat /\ Spurious \in BOOLEAN
  /\ TypeOf \in [Tasks -> Types] /\ Ignoring \subseteq Types
  /\ NoResource \notin Resources
  /\ Cores \in [Types -> Nat] /\ NbCores \in [Resources -> Nat]
  /\ Accepted \in [Tasks -> SUBSET Resources]

VARIABLES
  pc,             \* where the thread of runWlm is
  tasks,          \* _tasks: selected, not yet given to the manager
  numberAll,      \* numberAllTasks
  problemCount,
  state,          \* _executorState
  toContinue,     \* _toContinue
  okToEnd,        \* _isOKToEnd, and _execMode = STEPBYSTEP: set together
  stopOnError,    \* _stopOnErrorRequested
  isWaiting,      \* _isWaitingEventsFromRunningTasks
  ended,          \* _numberOfEndedTasks
  running,        \* _runningTasks
  at,             \* of each task: how far its thread is
  early,          \* history: the tasks reported as aborted before they are run
  missed,         \* history: an end since the last selection was not counted
  stage, holds, open    \* the workload manager

loopVars == <<pc, tasks, numberAll, problemCount>>
eventVars == <<isWaiting, ended, missed>>
errorVars == <<okToEnd, stopOnError>>
wlmVars == <<stage, holds, open>>
vars == <<blocVars, loopVars, state, toContinue, errorVars, eventVars, running, at,
          early, wlmVars>>

Manager == INSTANCE TaskPool

Init ==
  /\ BlocInit
  /\ Manager!Init
  /\ pc = "start" /\ tasks = {} /\ numberAll = 0 /\ problemCount = 0
  /\ state = "NOTYETINITIALIZED" /\ toContinue = TRUE
  /\ okToEnd = FALSE /\ stopOnError \in BOOLEAN
  /\ isWaiting = FALSE /\ ended = 0 /\ running = {}
  /\ at = [t \in Tasks |-> "none"] /\ early = {} /\ missed = FALSE

-----------------------------------------------------------------------------
(* The thread of runWlm.                                                   *)

(* Mutant: the state RUNNING is not set.                                   *)
InitialiseNotRunning ==
  /\ pc = "start"
  /\ ExStart
  /\ Manager!Open
  /\ pc' = "sleep" /\ state' = "INITIALISED"
  /\ UNCHANGED <<tasks, numberAll, problemCount, toContinue, errorVars, eventVars,
                 running, at, early>>

(* graph->init, graph->exUpdateState, the resources and the start of the   *)
(* manager.                                                                *)
Initialise ==
  /\ pc = "start"
  /\ ExStart
  /\ Manager!Open
  /\ pc' = "sleep" /\ state' = "RUNNING"
  /\ UNCHANGED <<tasks, numberAll, problemCount, toContinue, errorVars, eventVars,
                 running, at, early>>

(* sleepWhileNoEventsFromAnyRunningTask                                    *)
Sleep ==
  /\ pc = "sleep"
  /\ IF running # {} /\ ended = 0
       THEN pc' = "asleep" /\ isWaiting' = TRUE /\ UNCHANGED ended
       ELSE pc' = "select" /\ ended' = 0 /\ UNCHANGED isWaiting
  /\ UNCHANGED <<blocVars, tasks, numberAll, problemCount, state, toContinue, errorVars,
                 missed, running, at, early, wlmVars>>

(* Mutant: a task that waits in the manager, still TOLOAD, is taken again. *)
CandidatesAll == ReadyTasks

(* The ready tasks that have not been given to the manager yet.            *)
Candidates == ReadyTasks \ running

FreeThreads == IF Cardinality(running) < MaxNbThreads
                 THEN MaxNbThreads - Cardinality(running) ELSE 0

Select ==
  /\ pc = "select"
  /\ \E chosen \in SUBSET Candidates :
       /\ Cardinality(chosen) = IF Cardinality(Candidates) < FreeThreads
                                  THEN Cardinality(Candidates) ELSE FreeThreads
       /\ tasks' = chosen
       /\ numberAll' = Cardinality(running) + Cardinality(chosen)
  /\ pc' = "check" /\ missed' = FALSE
  /\ UNCHANGED <<blocVars, problemCount, state, toContinue, errorVars, isWaiting, ended,
                 running, at, early, wlmVars>>

(* _executorState is read, then checkBreakPoints: without a pilot the mode *)
(* is STEPBYSTEP only after an error that stops the run; the pause is then *)
(* announced and the loop left at once.                                    *)
Check ==
  /\ pc = "check"
  /\ pc' = CASE state # "RUNNING" -> "loopEnd"
             [] okToEnd           -> "stopping"
             [] OTHER             -> "launching"
  /\ state' = IF pc' = "stopping" THEN "PAUSED" ELSE state
  /\ UNCHANGED <<blocVars, tasks, numberAll, problemCount, toContinue, errorVars, eventVars,
                 running, at, early, wlmVars>>

(* beginTask, then addTask: the first touches _runningTasks only, the      *)
(* second the manager only.                                                *)
Launch(t) ==
  /\ pc = "launching" /\ t \in tasks
  /\ tasks' = tasks \ {t}
  /\ running' = running \union {t}
  /\ stage' = [stage EXCEPT ![t] = "waiting"]
  /\ UNCHANGED <<blocVars, pc, numberAll, problemCount, state, toContinue, errorVars,
                 eventVars, at, early, holds, open>>

(* RunB looks at the graph only when no task runs; runWlm always.          *)
More == ~IsFinished

LoopEnd ==
  /\ pc = "loopEnd" \/ (pc = "launching" /\ tasks = {})
  /\ problemCount' = IF More /\ numberAll = 0 THEN problemCount + 1 ELSE problemCount
  /\ toContinue' = (More /\ (numberAll = 0 => problemCount' <= ProblemLimit))
  /\ IF toContinue'
       THEN pc' = "sleep" /\ UNCHANGED state
       ELSE pc' = "stopping" /\ state' = "FINISHED"
  /\ UNCHANGED <<blocVars, tasks, numberAll, errorVars, eventVars, running, at, early,
                 wlmVars>>

(* wlm.stop, which waits for every task it was given, then STOPPED if the  *)
(* loop was left by a break.                                               *)
Stop ==
  /\ pc = "stopping"
  /\ Manager!Close
  /\ pc' = "over"
  /\ state' = IF toContinue THEN "STOPPED" ELSE state
  /\ toContinue' = FALSE
  /\ UNCHANGED <<blocVars, tasks, numberAll, problemCount, errorVars, eventVars, running,
                 at, early>>

-----------------------------------------------------------------------------
(* The manager, and the thread it runs a task in: WlmTask::run.            *)

(* No resource can ever run the task: it is started to report its error.   *)
Unplaceable(t) ==
  /\ TypeOf[t] \notin Ignoring
  /\ \A r \in Accepted[t] : Cores[TypeOf[t]] > NbCores[r]

Go(t, where) ==
  /\ at' = [at EXCEPT ![t] = where]
  /\ UNCHANGED <<loopVars, state, toContinue>>

Begin(t) ==
  /\ \/ Manager!Place(t) /\ Go(t, "load")
     \/ TypeOf[t] \in Ignoring /\ Manager!RunUnplaced(t) /\ Go(t, "load")
     \/ Unplaceable(t) /\ Manager!RunUnplaced(t) /\ Go(t, "refused")
  /\ UNCHANGED <<blocVars, errorVars, eventVars, running, early>>

(* loadTask: the start is notified.                                        *)
LoadStart(t) ==
  /\ at[t] = "load"
  /\ NotifyStart
  /\ Go(t, "loading")
  /\ UNCHANGED <<errorVars, eventVars, running, early, wlmVars>>

(* A step that throws: the abort is notified, and the thread goes on with  *)
(* the task as if nothing had happened.                                    *)
Early(t) ==
  /\ NotifyAbort(t)
  /\ early' = early \union {t}

LoadEnd(t) ==
  /\ at[t] = "loading"
  /\ \/ UNCHANGED <<blocVars, early>>
     \/ "load" \in Failures[t] /\ Early(t)
  /\ Go(t, "connect")
  /\ UNCHANGED <<errorVars, eventVars, running, wlmVars>>

(* makeDatastreamConnections: nothing for a task whose load has failed.    *)
Connect(t) ==
  /\ at[t] = "connect"
  /\ \/ node[t] = "TOLOAD" /\ SetState(t, "TOACTIVATE") /\ UNCHANGED early
     \/ node[t] = "TOLOAD" /\ "connect" \in Failures[t] /\ Early(t)
     \/ node[t] # "TOLOAD" /\ UNCHANGED <<blocVars, early>>
  /\ Go(t, "run")
  /\ UNCHANGED <<errorVars, eventVars, running, wlmVars>>

(* runTask: Task::begin, whatever the state of the task is.                *)
Run(t) ==
  /\ at[t] = "run"
  /\ SetState(t, "ACTIVATED")
  /\ Go(t, "executing")
  /\ UNCHANGED <<errorVars, eventVars, running, early, wlmVars>>

(* failTask: StateLoader, without the mutex.                               *)
Refuse(t) ==
  /\ at[t] = "refused"
  /\ SetState(t, "ERROR")
  /\ Go(t, "failed")
  /\ UNCHANGED <<errorVars, eventVars, running, early, wlmVars>>

(* Mutant: an event that nobody waits for is lost.                         *)
WakeUpLossy ==
  /\ isWaiting' = FALSE
  /\ pc' = IF isWaiting /\ pc = "asleep" THEN "woken" ELSE pc
  /\ missed' = (missed \/ (isWaiting /\ pc # "asleep"))
  /\ UNCHANGED ended

(* Called with the mutex: the event wakes the loop up, or is counted.      *)
(* After a wait that returned for no reason it does neither.               *)
WakeUp ==
  /\ isWaiting' = FALSE
  /\ pc' = IF isWaiting /\ pc = "asleep" THEN "woken" ELSE pc
  /\ missed' = (missed \/ (isWaiting /\ pc # "asleep"))
  /\ ended' = IF isWaiting THEN ended ELSE ended + 1

(* The wait has no predicate: when it returns for no reason,               *)
(* _isWaitingEventsFromRunningTasks stays set.                             *)
SpuriousWakeup ==
  /\ Spurious
  /\ pc = "asleep" /\ pc' = "woken"
  /\ UNCHANGED <<blocVars, tasks, numberAll, problemCount, state, toContinue, errorVars,
                 eventVars, running, at, early, wlmVars>>

Awake ==
  /\ pc = "woken"
  /\ pc' = "select" /\ ended' = 0
  /\ UNCHANGED <<blocVars, tasks, numberAll, problemCount, state, toContinue, errorVars,
                 isWaiting, missed, running, at, early, wlmVars>>

(* endTask, for the event the run of the task ended with.                  *)
EndTask(t, ok) ==
  /\ \/ ok /\ at[t] = "executing" /\ NotifyFinish(t) /\ UNCHANGED errorVars
     \/ /\ ~ok
        /\ \/ at[t] = "failed"
           \/ at[t] = "executing" /\ "execute" \in Failures[t]
        /\ NotifyAbort(t)
        /\ okToEnd' = (okToEnd \/ stopOnError)
        /\ UNCHANGED stopOnError
  /\ running' = running \ {t}
  /\ at' = [at EXCEPT ![t] = "ended"]
  /\ IF state # "PAUSED" THEN WakeUp ELSE UNCHANGED <<pc, eventVars>>
  /\ UNCHANGED <<tasks, numberAll, problemCount, state, toContinue, early, wlmVars>>

(* WlmTask::run returns: the manager gets the task back, then its place.   *)
Return(t) ==
  /\ at[t] = "ended"
  /\ Manager!Finish(t) \/ Manager!Release(t)
  /\ UNCHANGED <<blocVars, loopVars, state, toContinue, errorVars, eventVars, running, at,
                 early>>

-----------------------------------------------------------------------------

RunThread ==
  \/ Initialise \/ Sleep \/ Awake \/ Select \/ Check \/ LoopEnd \/ Stop
  \/ \E t \in Tasks : Launch(t)

TaskThread(t) ==
  \/ Begin(t) \/ LoadStart(t) \/ LoadEnd(t) \/ Connect(t) \/ Run(t) \/ Refuse(t)
  \/ EndTask(t, TRUE) \/ EndTask(t, FALSE)
  \/ Return(t)

Over == pc = "over" /\ UNCHANGED vars

Next == RunThread \/ (\E t \in Tasks : TaskThread(t)) \/ SpuriousWakeup \/ Over

Spec == Init /\ [][Next]_vars

(* Every thread goes on; the manager places a task that can be placed (it  *)
(* is WorkloadManager's EveryTaskServed); every task's execute returns. A  *)
(* wait need not return for no reason.                                     *)
Fairness == WF_vars(RunThread) /\ \A t \in Tasks : WF_vars(TaskThread(t))

FairSpec == Spec /\ Fairness

-----------------------------------------------------------------------------

WlmTypeOK ==
  /\ BlocTypeOK
  /\ pc \in {"start", "sleep", "asleep", "woken", "select", "check", "launching",
             "loopEnd", "stopping", "over"}
  /\ tasks \subseteq Tasks /\ numberAll \in Nat /\ problemCount \in Nat
  /\ state \in {"NOTYETINITIALIZED", "RUNNING", "PAUSED", "FINISHED", "STOPPED"}
  /\ toContinue \in BOOLEAN /\ okToEnd \in BOOLEAN /\ stopOnError \in BOOLEAN
  /\ isWaiting \in BOOLEAN /\ ended \in Nat /\ missed \in BOOLEAN
  /\ running \subseteq Tasks /\ early \subseteq Tasks
  /\ at \in [Tasks -> {"none", "load", "loading", "connect", "run", "executing",
                       "refused", "failed", "ended"}]
  /\ stage \in [Tasks -> {"new", "waiting", "running", "done", "released"}]
  /\ holds \in [Tasks -> (Resources \X Nat) \union {<<NoResource, 0>>}]
  /\ open \in BOOLEAN

(* A task is counted from beginTask to endTask: the loop counts exactly the *)
(* tasks that the manager holds and that have not reported their end.      *)
CountedWhileManaged ==
  running = {t \in Tasks : stage[t] \in {"waiting", "running"} /\ at[t] # "ended"}

(* A loop whose wait only returns for an event sleeps while a task runs,   *)
(* and over no ready task that a thread is left for: every other ready     *)
(* task is with the manager (Executor.cxx:1087, 1755).                     *)
AsleepOverNothing == pc = "asleep" => running # {} /\ (Candidates = {} \/ FreeThreads = 0)

(* With waits that return for no reason: a task runs all the same, and a   *)
(* ready task that the loop sleeps over, with a thread left for it, is one *)
(* whose event came after such a return and was not counted.  No other     *)
(* order of the ends and of the loop leaves a task aside.                  *)
AsleepOverMissed ==
  pc = "asleep" => running # {} /\ (missed \/ Candidates = {} \/ FreeThreads = 0)

(* When the run is announced as finished, a task still in the hands of the *)
(* manager is one whose failure can already be seen: reported by its load  *)
(* or connection, or set by failTask before it takes the mutex.  And no    *)
(* task is left that could be given to the manager or waits there to be    *)
(* run, unless no thread is allowed at all (Executor.cxx:1780, 1793).      *)
NothingReady == \A t \in Tasks : node[t] \notin {"TOLOAD", "TOACTIVATE"}

FinishedButEarly ==
  state = "FINISHED" =>
    /\ running \subseteq early \union {t \in Tasks : at[t] = "failed"}
    /\ MaxNbThreads > 0 => NothingReady

(* The loop uses the manager as TaskPool allows: no task is given to it    *)
(* twice, none once it is closed.                                          *)
ClientOfManager == Manager!Spec

(* runWlm returns, whatever fails, and no task outlives it.                *)
RunEnds == <>(pc = "over" /\ running = {})

(* A task reported early stays failed: what its thread does after that     *)
(* starts nothing and revives nothing behind it.  A task behind one that   *)
(* failTask has set in ERROR will not run any more, even before endTask    *)
(* takes the mutex and tells it.                                           *)
Gone(t) ==
  \/ t \in early \/ node[t] \in {"ERROR", "FAILED", "INTERNALERR"}
  \/ \E s \in Tasks : at[s] = "failed" /\ t \in After[s]

Seen(t) ==
  IF Gone(t) THEN "failed"
  ELSE CASE node[t] \in {"READY", "TOLOAD", "TOACTIVATE"} -> "idle"
         [] node[t] = "ACTIVATED" -> "running"
         [] node[t] = "DONE" -> "done"

Work == INSTANCE Workflow WITH
  outcome <- [t \in Tasks |-> Seen(t)],
  over <- state \in {"FINISHED", "STOPPED"}

IsWorkflow == Work!Spec

-----------------------------------------------------------------------------
(* What the comments of Executor.cxx say and the code does not do.         *)

(* "FINISHED (no more ready tasks, nore running tasks)" (Executor.cxx:195).*)
FinishedMeansOver == state = "FINISHED" => running = {}
=============================================================================
