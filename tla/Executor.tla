------------------------------ MODULE Executor ------------------------------
(***************************************************************************)
(* src/src/engine/Executor.cxx: RunB, the loop that runs a graph, and the  *)
(* requests of the pilot that controls it.  The actors are the thread of   *)
(* RunB, a thread per task being loaded, a thread per running task and the *)
(* thread of the pilot.  They share _mutexForSchedulerUpdate; a critical   *)
(* section is one action, and what the code reads or writes outside of it  *)
(* is an action of its own.                                                *)
(*                                                                         *)
(* The order of _tasks is abstracted: a loop over the vector visits its    *)
(* tasks in any order, and a filter that keeps the first n keeps any n.    *)
(***************************************************************************)
EXTENDS Bloc, Integers, FiniteSetsExt

CONSTANTS
  Pools,          \* the homogeneous pools of containers
  NoPool,
  PoolOf,         \* Task::getContainer, when it is such a pool
  Workers,        \* the size of each pool
  Failures,       \* the steps that may throw: "load", "connect", "execute"
  MaxThreads,     \* _maxThreads, the initial value of _semForMaxThreads
  MaxNbThreads,   \* _maxNbThreads
  ProblemLimit,   \* 25 in RunB
  Commands,       \* the requests the pilot makes
  MaxCommands,    \* bound: how many of them
  Careful,        \* the pilot calls setStepsToExecute only in a pause
  Spurious        \* condition variables may wake up for no reason

ASSUME ExecutorAssumption ==
  /\ NoPool \notin Pools
  /\ PoolOf \in [Tasks -> Pools \union {NoPool}]
  /\ Workers \in [Pools -> Nat]
  /\ Failures \in [Tasks -> SUBSET {"load", "connect", "execute"}]
  /\ MaxThreads \in Nat \ {0} /\ MaxNbThreads \in Nat
  /\ ProblemLimit \in Nat /\ MaxCommands \in Nat
  /\ Careful \in BOOLEAN /\ Spurious \in BOOLEAN

VARIABLES
  pc,             \* where the thread of RunB is
  todo,           \* what is left of its loop over _tasks
  loading,        \* the tasks with a thread in Task::load
  numberAll,      \* numberAllTasks
  problemCount,
  state,          \* _executorState
  mode,           \* _execMode
  toContinue,     \* _toContinue
  okToEnd,        \* _isOKToEnd
  errorDetected,  \* _errorDetected
  stopOnError,    \* _stopOnErrorRequested
  isWaiting,      \* _isWaitingEventsFromRunningTasks
  ended,          \* _numberOfEndedTasks
  running,        \* _runningTasks; _numberOfRunningTasks is its cardinality
  sem,            \* _semForMaxThreads
  tasks,          \* _tasks
  tasksSave,      \* _tasksSave
  breakpoints,    \* _listOfBreakPoints
  occupied,       \* the busy workers of each pool
  held,           \* _currentlyWorking: the tasks a pool has a worker for
  pilotPc,        \* "idle", or where the pilot is in a request
  restricted,     \* restrictedTasks, in setStepsToExecute
  commands        \* number of requests made so far

loopVars == <<todo, loading, numberAll, problemCount>>
modeVars == <<okToEnd, errorDetected, stopOnError, mode>>
eventVars == <<isWaiting, ended, running, sem>>
stepVars == <<tasks, tasksSave, breakpoints, restricted>>
poolVars == <<occupied, held>>
pilotVars == <<pilotPc, commands>>
vars == <<blocVars, pc, state, toContinue, loopVars, modeVars, eventVars,
          stepVars, poolVars, pilotVars>>

(* suspendASAP leaves with the mutex locked: nobody else can take it.      *)
Unlocked == pilotPc # "suspended"

Pooled(ts, p) == {t \in ts : PoolOf[t] = p}

(* Mutant: nobody is notified.                                             *)
NotifyPilotNever == UNCHANGED pilotPc

(* _condForPilot.notify_all.                                               *)
NotifyPilot == pilotPc' = IF pilotPc = "waiting" THEN "idle" ELSE pilotPc

Init ==
  /\ BlocInit
  /\ pc = "init" /\ todo = {} /\ loading = {}
  /\ numberAll = 0 /\ problemCount = 0
  /\ state = "NOTYETINITIALIZED" /\ mode = "CONTINUE"
  /\ toContinue = TRUE /\ okToEnd = FALSE
  /\ errorDetected = FALSE /\ stopOnError = FALSE
  /\ isWaiting = FALSE /\ ended = 0 /\ running = {} /\ sem = MaxThreads
  /\ tasks = {} /\ tasksSave = {} /\ breakpoints = {} /\ restricted = {}
  /\ occupied = [p \in Pools |-> 0] /\ held = {}
  /\ pilotPc = "idle" /\ commands = 0

-----------------------------------------------------------------------------
(* The thread of RunB: start of the run.                                   *)

Reset ==
  /\ pc = "init" /\ Unlocked
  /\ pc' = "start"
  /\ state' = "NOTYETINITIALIZED"
  /\ toContinue' = TRUE /\ okToEnd' = FALSE /\ errorDetected' = FALSE
  /\ isWaiting' = FALSE /\ ended' = 0 /\ running' = {}
  /\ UNCHANGED <<blocVars, loopVars, mode, stopOnError, sem, stepVars, poolVars, pilotVars>>

(* Mutant: the state RUNNING is not set.                                   *)
InitialiseNotRunning ==
  /\ pc = "start"
  /\ ExStart
  /\ pc' = "sleep" /\ state' = "INITIALISED"
  /\ UNCHANGED <<toContinue, loopVars, modeVars, eventVars, stepVars, poolVars, pilotVars>>

(* graph->init, graph->exUpdateState and the states set after it: none of  *)
(* them under the mutex (INITIALISED is overwritten at once).              *)
Initialise ==
  /\ pc = "start"
  /\ ExStart
  /\ pc' = "sleep" /\ state' = "RUNNING"
  /\ UNCHANGED <<toContinue, loopVars, modeVars, eventVars, stepVars, poolVars, pilotVars>>

(* The exception leaves RunB, and _condForPilot is not notified.           *)
InitialiseFails ==
  /\ pc = "start"
  /\ ExStartFails
  /\ pc' = "over" /\ state' = "FINISHED"
  /\ UNCHANGED <<toContinue, loopVars, modeVars, eventVars, stepVars, poolVars, pilotVars>>

-----------------------------------------------------------------------------
(* sleepWhileNoEventsFromAnyRunningTask                                    *)

Sleep ==
  /\ pc = "sleep" /\ Unlocked
  /\ IF running # {} /\ ended = 0
       THEN /\ pc' = "asleep" /\ isWaiting' = TRUE
            /\ UNCHANGED ended
       ELSE /\ pc' = "select" /\ ended' = 0
            /\ UNCHANGED isWaiting
  /\ UNCHANGED <<blocVars, state, toContinue, loopVars, modeVars, running, sem,
                 stepVars, poolVars, pilotVars>>

Awake ==
  /\ pc = "woken" /\ Unlocked
  /\ pc' = "select" /\ ended' = 0
  /\ UNCHANGED <<blocVars, state, toContinue, loopVars, modeVars, isWaiting, running,
                 sem, stepVars, poolVars, pilotVars>>

-----------------------------------------------------------------------------
(* getNextTasks, selectRunnableTasks (which does nothing) and              *)
(* filterTasksConsideringContainers                                        *)

(* Mutant: the tasks that already run are not counted.                     *)
FreeThreadsAll == MaxNbThreads

FreeThreads == IF Cardinality(running) < MaxNbThreads
                 THEN MaxNbThreads - Cardinality(running) ELSE 0

(* At most n of the tasks of ts, as many as there are.                     *)
FirstOf(ts, n) ==
  {us \in SUBSET ts : Cardinality(us) = IF Cardinality(ts) < n THEN Cardinality(ts) ELSE n}

Select ==
  /\ pc = "select" /\ Unlocked
  /\ \E chosen \in SUBSET ReadyTasks :
       /\ Pooled(chosen, NoPool) \in FirstOf(Pooled(ReadyTasks, NoPool), FreeThreads)
       /\ \A p \in Pools :
            Pooled(chosen, p) \in FirstOf(Pooled(ReadyTasks, p), Workers[p] - occupied[p])
       /\ tasks' = chosen
       /\ numberAll' = Cardinality(running) + Cardinality(chosen)
       /\ occupied' = [p \in Pools |-> occupied[p] + Cardinality(Pooled(chosen, p))]
       /\ held' = held \union {t \in chosen : PoolOf[t] # NoPool}
  /\ pc' = "check"
  /\ UNCHANGED <<blocVars, state, toContinue, todo, loading, problemCount, modeVars,
                 eventVars, tasksSave, breakpoints, restricted, pilotVars>>

(* _executorState and _execMode are read without the mutex.                *)
Check ==
  /\ pc = "check"
  /\ pc' = CASE state # "RUNNING"        -> "loopEnd"
             [] mode = "CONTINUE"        -> "load"
             [] mode = "STOPBEFORENODES" -> "breakpoints"
             [] OTHER                    -> "step"
  /\ UNCHANGED <<blocVars, state, toContinue, loopVars, modeVars, eventVars, stepVars,
                 poolVars, pilotVars>>

-----------------------------------------------------------------------------
(* checkBreakPoints                                                        *)

(* getNbOfThreads returns a local variable that stays 0: checkBreakPoints  *)
(* never sets WAITINGTASKS.                                                *)
NbOfThreads == 0

(* Mutants: the pause does not wait for the pilot; it waits even when the   *)
(* end has been asked for.                                                 *)
AfterPauseNoWait == IF okToEnd THEN "stopping" ELSE "load"
AfterPauseAlways == "paused"

(* waitResume, unless the end has been asked for.                          *)
AfterPause == IF okToEnd THEN "stopping" ELSE "paused"

Pause ==
  /\ state' = IF NbOfThreads > 0 THEN "WAITINGTASKS" ELSE "PAUSED"
  /\ NotifyPilot
  /\ pc' = AfterPause

CheckStep ==
  /\ pc = "step" /\ Unlocked
  /\ tasksSave' = tasks
  /\ Pause
  /\ UNCHANGED <<blocVars, toContinue, loopVars, modeVars, eventVars, tasks, breakpoints,
                 restricted, poolVars, commands>>

CheckBreakpoints ==
  /\ pc = "breakpoints" /\ Unlocked
  /\ tasksSave' = tasks
  /\ \/ tasks \intersect breakpoints # {} /\ Pause
     \/ /\ tasks \intersect breakpoints = {}
        /\ pc' = IF okToEnd THEN "stopping" ELSE "load"
        /\ UNCHANGED <<state, pilotPc>>
  /\ UNCHANGED <<blocVars, toContinue, loopVars, modeVars, eventVars, tasks, breakpoints,
                 restricted, poolVars, commands>>

Resumed ==
  /\ pc = "resumed" /\ Unlocked
  /\ pc' = IF okToEnd THEN "stopping" ELSE "load"
  /\ UNCHANGED <<blocVars, state, toContinue, loopVars, modeVars, eventVars, stepVars,
                 poolVars, pilotVars>>

-----------------------------------------------------------------------------
(* loadParallelTasks and launchTasks                                       *)

(* The beginning of each loop over _tasks, once the previous one is over.  *)
NextPhase ==
  /\ todo = {} /\ loading = {}
  /\ \/ pc = "load" /\ pc' = "loading" /\ todo' = tasks
     \/ pc = "loading" /\ pc' = "connecting" /\ todo' = tasks
     \/ pc = "connecting" /\ pc' = "launching" /\ todo' = tasks
     \/ pc = "launching" /\ pc' = "loopEnd" /\ UNCHANGED todo
  /\ UNCHANGED <<blocVars, state, toContinue, loading, numberAll, problemCount, modeVars,
                 eventVars, stepVars, poolVars, pilotVars>>

(* loadTask, in a thread per task: the start is notified, then the task is *)
(* loaded without the mutex.                                               *)
BeginLoad(t) ==
  /\ pc = "loading" /\ t \in todo
  /\ todo' = todo \ {t}
  /\ IF node[t] = "TOLOAD"
       THEN Unlocked /\ NotifyStart /\ loading' = loading \union {t}
       ELSE UNCHANGED <<blocVars, loading>>
  /\ UNCHANGED <<pc, state, toContinue, numberAll, problemCount, modeVars, eventVars,
                 stepVars, poolVars, pilotVars>>

EndLoad(t) ==
  /\ t \in loading
  /\ loading' = loading \ {t}
  /\ \/ UNCHANGED blocVars
     \/ "load" \in Failures[t] /\ Unlocked /\ NotifyAbort(t)
  /\ UNCHANGED <<pc, todo, state, toContinue, numberAll, problemCount, modeVars, eventVars,
                 stepVars, poolVars, pilotVars>>

Connect(t) ==
  /\ pc = "connecting" /\ t \in todo
  /\ todo' = todo \ {t}
  /\ \/ node[t] = "TOLOAD" /\ Unlocked /\ SetState(t, "TOACTIVATE")
     \/ node[t] = "TOLOAD" /\ Unlocked /\ "connect" \in Failures[t] /\ NotifyAbort(t)
     \/ node[t] # "TOLOAD" /\ UNCHANGED blocVars
  /\ UNCHANGED <<pc, loading, state, toContinue, numberAll, problemCount, modeVars, eventVars,
                 stepVars, poolVars, pilotVars>>

(* Mutant: the task is not counted.                                        *)
LaunchUncounted(t) ==
  /\ pc = "launching" /\ t \in todo
  /\ todo' = todo \ {t}
  /\ \/ /\ node[t] = "TOACTIVATE" /\ sem > 0 /\ Unlocked
        /\ sem' = sem - 1
        /\ SetState(t, "ACTIVATED")
        /\ UNCHANGED running
     \/ /\ node[t] # "TOACTIVATE"
        /\ UNCHANGED <<blocVars, sem, running>>
  /\ UNCHANGED <<pc, loading, state, toContinue, numberAll, problemCount, modeVars, isWaiting,
                 ended, stepVars, poolVars, pilotVars>>

(* launchTask: waits for the semaphore, then counts and starts the task.   *)
Launch(t) ==
  /\ pc = "launching" /\ t \in todo
  /\ todo' = todo \ {t}
  /\ \/ /\ node[t] = "TOACTIVATE" /\ sem > 0 /\ Unlocked
        /\ sem' = sem - 1
        /\ running' = running \union {t}
        /\ SetState(t, "ACTIVATED")
     \/ /\ node[t] # "TOACTIVATE"
        /\ UNCHANGED <<blocVars, sem, running>>
  /\ UNCHANGED <<pc, loading, state, toContinue, numberAll, problemCount, modeVars, isWaiting,
                 ended, stepVars, poolVars, pilotVars>>

-----------------------------------------------------------------------------
(* End of a turn, and of the run.                                          *)

(* The graph may be finished (failed) while tasks still run: wait for them.*)
More == IF running = {} THEN ~IsFinished ELSE toContinue

LoopEnd ==
  /\ pc = "loopEnd" /\ Unlocked
  /\ problemCount' = IF More /\ numberAll = 0 THEN problemCount + 1 ELSE problemCount
  /\ toContinue' = (More /\ (numberAll = 0 => problemCount' <= ProblemLimit))
  /\ IF toContinue'
       THEN pc' = "sleep" /\ UNCHANGED <<state, pilotPc>>
       ELSE pc' = "over" /\ state' = "FINISHED" /\ NotifyPilot
  /\ UNCHANGED <<blocVars, todo, loading, numberAll, modeVars, eventVars, stepVars,
                 poolVars, commands>>

(* After break: the end has been requested; _condForPilot is not notified. *)
Stopping ==
  /\ pc = "stopping" /\ Unlocked
  /\ pc' = "over" /\ state' = "STOPPED" /\ toContinue' = FALSE
  /\ UNCHANGED <<blocVars, loopVars, modeVars, eventVars, stepVars, poolVars, pilotVars>>

-----------------------------------------------------------------------------
(* functionForTaskExecution, once Task::execute has returned or thrown     *)

(* Mutant: the task is forgotten, the worker stays busy.                   *)
ReleaseKeepsWorker(t) ==
  /\ t \in running \intersect held
  /\ held' = held \ {t}
  /\ UNCHANGED <<blocVars, pc, state, toContinue, loopVars, modeVars, eventVars, stepVars,
                 occupied, pilotVars>>

(* The worker is released under the lock of the pool only.                 *)
Release(t) ==
  /\ t \in running \intersect held
  /\ held' = held \ {t}
  /\ occupied' = [occupied EXCEPT ![PoolOf[t]] = @ - 1]
  /\ UNCHANGED <<blocVars, pc, state, toContinue, loopVars, modeVars, eventVars, stepVars,
                 pilotVars>>

(* Mutant: the sleeping thread is not notified.                            *)
WakeUpNoNotify ==
  /\ isWaiting' = FALSE
  /\ ended' = IF isWaiting THEN ended ELSE ended + 1
  /\ UNCHANGED pc

WakeUp ==
  /\ isWaiting' = FALSE
  /\ ended' = IF isWaiting THEN ended ELSE ended + 1
  /\ pc' = IF isWaiting /\ pc = "asleep" THEN "woken" ELSE pc

(* The last task to end in a pause that waits for tasks (the state         *)
(* WAITINGTASKS) makes it a pause.  The thread of RunB is not resumed: the *)
(* code does it only for a run no pilot controls, and getNbOfThreads,      *)
(* called at each pause, sets _isRunningunderExternalControl.              *)
LastOfPause == running' = {} /\ mode' # "CONTINUE" /\ state = "WAITINGTASKS"

PauseReached ==
  /\ state' = "PAUSED"
  /\ NotifyPilot
  /\ UNCHANGED <<isWaiting, ended, pc>>

TaskEnd(t, ok) ==
  /\ t \in running \ held /\ Unlocked
  /\ IF ok
       THEN NotifyFinish(t) /\ UNCHANGED modeVars
       ELSE /\ "execute" \in Failures[t]
            /\ NotifyAbort(t)
            /\ errorDetected' = TRUE
            /\ mode' = IF stopOnError THEN "STEPBYSTEP" ELSE mode
            /\ okToEnd' = (okToEnd \/ stopOnError)
            /\ UNCHANGED stopOnError
  /\ running' = running \ {t}
  /\ sem' = sem + 1
  /\ IF LastOfPause THEN PauseReached
     ELSE /\ UNCHANGED <<state, pilotPc>>
          /\ IF state # "PAUSED" THEN WakeUp ELSE UNCHANGED <<isWaiting, ended, pc>>
  /\ UNCHANGED <<toContinue, loopVars, stepVars, poolVars, commands>>

SpuriousWakeup ==
  /\ Spurious
  /\ \/ pc = "asleep" /\ pc' = "woken"
     \/ pc = "paused" /\ pc' = "resumed"
  /\ UNCHANGED <<blocVars, state, toContinue, loopVars, modeVars, eventVars, stepVars,
                 poolVars, pilotVars>>

-----------------------------------------------------------------------------
(* The pilot: one thread, which makes one request after another.           *)

Request(command) ==
  /\ command \in Commands
  /\ pilotPc = "idle" /\ commands < MaxCommands
  /\ commands' = commands + 1

InPause == state \in {"WAITINGTASKS", "PAUSED"}

SetExecMode ==
  /\ Request("mode")
  /\ \E m \in {"CONTINUE", "STEPBYSTEP", "STOPBEFORENODES"} : mode' = m
  /\ UNCHANGED <<blocVars, pc, state, toContinue, loopVars, okToEnd, errorDetected,
                 stopOnError, eventVars, stepVars, poolVars, pilotPc>>

SetListOfBreakPoints ==
  /\ Request("breakpoints")
  /\ \E ts \in SUBSET Tasks : breakpoints' = ts
  /\ UNCHANGED <<blocVars, pc, state, toContinue, loopVars, modeVars, eventVars, tasks,
                 tasksSave, restricted, poolVars, pilotPc>>

(* setStopOnError and unsetStopOnError.                                    *)
SetStopOnError ==
  /\ Request("stopOnError")
  /\ \E on \in BOOLEAN : stopOnError' = on
  /\ UNCHANGED <<blocVars, pc, state, toContinue, loopVars, okToEnd, errorDetected, mode,
                 eventVars, stepVars, poolVars, pilotPc>>

(* resumeCurrentBreakPoint                                                 *)
Resume ==
  /\ state' = IF InPause THEN "RUNNING" ELSE state
  /\ pc' = IF InPause /\ pc = "paused" THEN "resumed" ELSE pc

ResumeCurrentBreakPoint ==
  /\ Request("resume")
  /\ Resume
  /\ UNCHANGED <<blocVars, toContinue, loopVars, modeVars, eventVars, stepVars, poolVars,
                 pilotPc>>

(* setStepsToExecute, under the mutex: in a pause, the tasks of the list.  *)
SetStepsToExecute ==
  /\ Request("steps")
  /\ Careful => InPause
  /\ pilotPc' = "steps"
  /\ IF InPause
       THEN \E ts \in SUBSET tasksSave : restricted' = ts /\ tasks' = ts
       ELSE restricted' = {} /\ UNCHANGED tasks
  /\ UNCHANGED <<blocVars, pc, state, toContinue, loopVars, modeVars, eventVars, tasksSave,
                 breakpoints, poolVars>>

(* The same list is then stored again, without the mutex and whatever the  *)
(* state is.                                                               *)
StoreSteps ==
  /\ pilotPc = "steps"
  /\ pilotPc' = "idle"
  /\ tasks' = restricted
  /\ UNCHANGED <<blocVars, pc, state, toContinue, loopVars, modeVars, eventVars, tasksSave,
                 breakpoints, restricted, poolVars, commands>>

WaitPause ==
  /\ Request("wait")
  /\ pilotPc' = IF state \in {"NOTYETINITIALIZED", "RUNNING"} THEN "waiting" ELSE "idle"
  /\ UNCHANGED <<blocVars, pc, state, toContinue, loopVars, modeVars, eventVars, stepVars,
                 poolVars>>

(* stopExecution: three steps, the second one without the mutex.           *)
StopExecution ==
  /\ Request("stop")
  /\ mode' = "STEPBYSTEP"
  /\ pilotPc' = "allowEnd"
  /\ UNCHANGED <<blocVars, pc, state, toContinue, loopVars, okToEnd, errorDetected,
                 stopOnError, eventVars, stepVars, poolVars>>

AllowEnd ==
  /\ pilotPc = "allowEnd"
  /\ pilotPc' = "resume"
  /\ okToEnd' = TRUE
  /\ UNCHANGED <<blocVars, pc, state, toContinue, loopVars, mode, errorDetected,
                 stopOnError, eventVars, stepVars, poolVars, commands>>

StopResume ==
  /\ pilotPc = "resume"
  /\ pilotPc' = "idle"
  /\ Resume
  /\ UNCHANGED <<blocVars, toContinue, loopVars, modeVars, eventVars, stepVars, poolVars,
                 commands>>

(* suspendASAP keeps the mutex, unless the run is finished.                *)
SuspendASAP ==
  /\ Request("suspend")
  /\ pilotPc' = IF ~toContinue /\ state = "FINISHED" THEN "idle" ELSE "suspended"
  /\ UNCHANGED <<blocVars, pc, state, toContinue, loopVars, modeVars, eventVars, stepVars,
                 poolVars>>

ResumeSuspended ==
  /\ pilotPc = "suspended"
  /\ pilotPc' = "idle"
  /\ UNCHANGED <<blocVars, pc, state, toContinue, loopVars, modeVars, eventVars, stepVars,
                 poolVars, commands>>

-----------------------------------------------------------------------------

Loading == \E t \in Tasks : BeginLoad(t) \/ EndLoad(t) \/ Connect(t)
Launching == \E t \in Tasks : Launch(t)

RunThread ==
  \/ Reset \/ Initialise \/ InitialiseFails
  \/ Sleep \/ Awake \/ Select \/ Check
  \/ CheckStep \/ CheckBreakpoints \/ Resumed
  \/ NextPhase \/ Loading \/ Launching
  \/ LoopEnd \/ Stopping

TaskThread(t) == Release(t) \/ TaskEnd(t, TRUE) \/ TaskEnd(t, FALSE)

(* What the pilot does inside a request it has begun.                      *)
PilotInside == StoreSteps \/ AllowEnd \/ StopResume \/ ResumeSuspended

Pilot ==
  \/ SetExecMode \/ SetListOfBreakPoints \/ SetStopOnError
  \/ ResumeCurrentBreakPoint \/ SetStepsToExecute \/ WaitPause
  \/ StopExecution \/ SuspendASAP
  \/ PilotInside

(* RunB has returned: nothing is left to do once its last tasks ended.     *)
Over == pc = "over" /\ running = {} /\ UNCHANGED vars

Next ==
  \/ RunThread
  \/ \E t \in Tasks : TaskThread(t)
  \/ SpuriousWakeup
  \/ Pilot
  \/ Over

Spec == Init /\ [][Next]_vars

(* Every thread goes on; every task's execute returns or throws.  The      *)
(* mutex is held in suspendASAP only, and the pilot resumes.               *)
Fairness ==
  /\ WF_vars(RunThread)
  /\ \A t \in Tasks : WF_vars(TaskThread(t))
  /\ WF_vars(PilotInside)

FairSpec == Spec /\ Fairness

-----------------------------------------------------------------------------

ETypeOK ==
  /\ BlocTypeOK
  /\ pc \in {"init", "start", "sleep", "asleep", "woken", "select", "check", "step",
             "breakpoints", "paused", "resumed", "load", "loading", "connecting",
             "launching", "loopEnd", "stopping", "over"}
  /\ todo \subseteq Tasks /\ loading \subseteq Tasks
  /\ numberAll \in Nat /\ problemCount \in Nat
  /\ state \in {"NOTYETINITIALIZED", "RUNNING", "WAITINGTASKS", "PAUSED", "FINISHED", "STOPPED"}
  /\ mode \in {"CONTINUE", "STEPBYSTEP", "STOPBEFORENODES"}
  /\ toContinue \in BOOLEAN /\ okToEnd \in BOOLEAN
  /\ errorDetected \in BOOLEAN /\ stopOnError \in BOOLEAN
  /\ isWaiting \in BOOLEAN /\ ended \in Nat
  /\ running \subseteq Tasks /\ sem \in Nat
  /\ tasks \subseteq Tasks /\ tasksSave \subseteq Tasks
  /\ breakpoints \subseteq Tasks /\ restricted \subseteq Tasks
  /\ occupied \in [Pools -> Int] /\ held \subseteq Tasks
  /\ pilotPc \in {"idle", "waiting", "steps", "allowEnd", "resume", "suspended"}
  /\ commands \in Nat

(* The set of running tasks, the states of the nodes and the semaphore     *)
(* tell the same story, although launchTask and the end of a task update   *)
(* them in different threads.                                              *)
RunningConsistent ==
  /\ running = {t \in Tasks : node[t] = "ACTIVATED"}
  /\ sem + Cardinality(running) = MaxThreads

(* setMaxNbOfThreads bounds the tasks that run at the same time outside of *)
(* the pools, although the filter counts them long before they start.      *)
ThreadBound == Cardinality(Pooled(running, NoPool)) <= MaxNbThreads

(* "FINISHED (no more ready tasks, nore running tasks)" (Executor.cxx:195),*)
(* whatever failed, unless the graph was refused before it began.          *)
Refused == \E t \in Tasks : node[t] = "INTERNALERR"

FinishedMeansOver == state = "FINISHED" => running = {} /\ (ReadyTasks = {} \/ Refused)

(* No wakeup is lost: the executor sleeps "until a running task ends"      *)
(* (Executor.cxx:1080), so some task has to be running.                    *)
AsleepHasRunning == pc = "asleep" => running # {}

(* In waitResume, the state says so: a resume is neither lost nor          *)
(* overwritten, and the pilot can see that it is awaited.                  *)
WaitingIsVisible == pc = "paused" => InPause

(* Every busy worker of a pool is held by a task selected in this turn or  *)
(* running, and no pool is overbooked.                                     *)
WorkersAccounted ==
  /\ held \subseteq tasks \union running
  /\ \A p \in Pools : /\ occupied[p] = Cardinality(Pooled(held, p))
                      /\ occupied[p] <= Workers[p]

(* Threads and workers are counted at the selection and given back steps   *)
(* later in other threads: neither is overbooked, and no worker is lost.   *)
LimitsRespected == ThreadBound /\ WorkersAccounted

(* No task starts while the executor says that it is in a pause.           *)
NothingStartsInPause == [][InPause /\ InPause' => running' \subseteq running]_vars

(* The run ends, whatever tasks fail and in whatever order they end.       *)
RunEnds == <>(pc = "over" /\ running = {})

(* A stop requested during the run ends it: no pause or sleep holds it up. *)
StopTakesEffect == (pilotPc = "allowEnd" /\ pc # "init") ~> pc = "over"

(* waitPause returns: "Do nothing if execution is finished or in pause"    *)
(* (Executor.cxx:604).                                                     *)
WaitPauseReturns == pilotPc = "waiting" ~> pilotPc # "waiting"

(* waitPause returns at the pause or at the end it waits for, unless the   *)
(* run is stopped or was refused by init, which notify nobody.             *)
WaitEndsWithRun ==
  pilotPc = "waiting" ~> (pilotPc # "waiting" \/ state = "STOPPED" \/ Refused)

(* The run of the graph, seen without threads, is a Workflow.              *)
Seen(t) ==
  CASE node[t] \in {"READY", "TOLOAD", "TOACTIVATE"} -> "idle"
    [] node[t] = "ACTIVATED" -> "running"
    [] node[t] = "DONE" -> "done"
    [] node[t] \in Ended \ {"DONE"} -> "failed"

Work == INSTANCE Workflow WITH
  outcome <- [t \in Tasks |-> Seen(t)],
  over <- state \in {"FINISHED", "STOPPED"}

IsWorkflow == Work!Spec

-----------------------------------------------------------------------------
(* What the comments of Executor.cxx say and the code does not do.         *)

(* "Requests are taken into account only on certain states, otherwise      *)
(* return the status IgnoredRequest" (Executor.cxx:210): outside of a      *)
(* pause setStepsToExecute leaves the tasks of the turn alone.             *)
StepsOnlyInPause ==
  [][pilotPc = "steps" /\ ~InPause => UNCHANGED tasks]_vars
=============================================================================
