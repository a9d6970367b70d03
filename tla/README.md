# A TLA+ model of YACS

YACS is the module of SALOME that runs *schemas*: graphs of tasks joined by
control links, data links and control structures (loops, switches). This
directory holds a TLA+ model of what decides when a task runs, where it runs and
when a run is over; TLC configurations that check it on small instances; and
theorems about it, proved with TLAPS for every value of the constants.

Paths below are those of the repository; `Executor.cxx` without a directory is
`src/src/engine/Executor.cxx`.

## 1. The system

| Component | State it keeps | Operations | Talks to |
|---|---|---|---|
| **Executor** (`engine/Executor.cxx`) | `_executorState`, `_execMode`, the running tasks and their count, the ended tasks, the tasks of the turn, `_isOKToEnd`, breakpoints | `RunB` (the main loop), `runWlm` (the same with a workload manager), `RunA` (the older one); requests of a pilot: modes, breakpoints, steps, resume, stop, suspend, waitPause | calls the graph (`Scheduler` interface) and the tasks; started by a driver, controlled by a pilot (GUI, Python, CORBA) from another thread |
| **Graph of nodes** (`Bloc.cxx`, `ComposedNode.cxx`, `Node.cxx`, `ElementaryNode.cxx`, `InGate.cxx`, `OutGate.cxx`) | `_state` of each node, the flags of the gates | `init`, `exUpdateState`, `getNextTasks`, `notifyFrom(START, FINISH, ABORT)`, forwarding of ends and failures | called by the executor under its mutex |
| **Control structures** (`Switch`, `WhileLoop`, `ForLoop`) | number of turns, chosen case, fake node for a run of nothing | start of a turn, `init` of the body, end or failure of the structure | nodes of the graph that contain others |
| **ForEachLoop** (`ForEachLoop.cxx`, `DynParaLoop.cxx`) | the id each branch has, `_execVals`, the results passed by an earlier run, counters of init, finalize and failed nodes | dealing samples to branches, failures with and without keep-going, `getPassedResults`, `assignPassedResults` | the graph; the client that relaunches it |
| **OptimizerLoop**, `Pool`, `OptimizerAlg` | the pool of samples, the id each branch has, "convergence reached while others compute" | `takeDecision`, `launchMaxOfSamples`, `finalize`, errors of the algorithm | the graph; the optimizer's plugin |
| **AlternateThread** (`bases/AlternateThreadPT.cxx`) | `_threadStatus`, a mutex, a condition | `start`, `signalMasterAndWait`, `signalSlaveAndWait`, `terminateSlaveThread` | the OptimizerLoop and the thread of the algorithm |
| **Workload manager** (`workloadmanager/WorkloadManager.cxx`) | `_runningTasks`, `_finishedTasks`, `_stop` | `start`, `stop`, `addTask`, `addResource`, threads `runTasks`, `endTasks`, `runOneTask` | the placement algorithm; used by `runWlm` |
| **Placement algorithm** (`workloadmanager/DefaultAlgorithm.cxx`) | waiting tasks, load of each resource, container indices in use | `addTask`, `chooseTask`, `liberate`, `addResource`, `freezeResources` | called under the manager's mutex |
| **Playground and pools of containers** (`PlayGround.cxx`, `runtime/SalomeHPContainer*.cxx`) | occupied cores of each machine, working task of each worker | `getNumberOfFreePlace`, `allocateFor`, `release`, partitions | the executor's filter and the end of each task |
| **Save/load of a state** (`VisitorSaveState.cxx`, `yacsloader/LoadState.cxx`, `yacsorb/YACS.py`) | an XML file | save, load, `resetState`, restart | the executor, suspended or over |
| **Link checks** (`LinkInfo.cxx`, `BlocPoint.cxx`...) | none at run time | cycles and collisions of links at edition time | the graph |
| Runtime nodes and ports, conversions, XML loader, observers, `evalyfx`, `pmml`, `py2yacs`, GUIs, bindings, wrappers | objects of their own | input/output, parsing, display | around the engine |

### What is hard

* **Interleaving.** Many kinds of threads share `_mutexForSchedulerUpdate`: the
  loop, one thread per task being loaded, one per running task, the pilot, and
  with `runWlm` the manager's threads. Some reads (`_executorState`,
  `_execMode`) and writes (`_isOKToEnd`, `_tasks`, the state set by `failTask`)
  are made without it.
* **Condition variables without a predicate.** The three waits of the executor
  (`sleepWhileNoEventsFromAnyRunningTask`, `waitResume`, `waitPause`) and those of
  `AlternateThread` are plain `pthread_cond_wait`s: a notification sent too early,
  not sent, or made up by the system matters.
* **Failure in the middle.** A task fails to load, to connect or to run; the
  forwarding of an end throws halfway; a worker has been taken in between; other
  branches of the loop are still at work.
* **Reuse.** Nodes inside a loop run again and again: gates, counters, fake nodes
  and states have to be those of a first turn. A schema is run again after a
  failure or an interruption, in the same process or from a file.
* **Two numberings.** The samples of a relaunched ForEachLoop have a rank in the
  collection and an id among those that are left.
* **Bounded resources.** Threads, workers of pools, cores of machines, branches:
  taken in one thread, given back in another, several steps later.
* **Protocols.** Any sequence of pilot requests, at any moment; start, stop and
  restart of the manager with tasks added in between.

### What makes each part correct

* Graph: dependencies are respected, at any depth and in every turn; a failure
  reaches all of what is behind it and nothing else, and the root; a structure is
  over with what is in it, neither before nor after.
* Executor: no wakeup is lost, the run always ends, `FINISHED` means that nothing
  is left, nothing starts in a pause, a stop takes effect, its books agree.
* ForEachLoop: a sample is with one branch at a time, its result reaches its rank,
  is never lost and never computed again.
* OptimizerLoop: no branch idle beside a waiting sample, results go to their
  samples, the algorithm is always finished.
* AlternateThread: one of two threads runs; every slave is joined.
* Restart: what is done stays done, what failed is run again.
* Pools and playground: a worker or core has one user; all come back.
* Placement: distinct workers that fit, low indices, errors final.
* Manager: every task runs once and is liberated; `stop` returns, drained.

`PROJECT.json` lists the hazards at the lines where they bite, with the
properties that cover each.

## 2. The modules

```
  Workflow  <=implements=  Executor     --EXTENDS--> Bloc
            <=implements=  ExecutorWlm  --EXTENDS--> Bloc
  TaskPool  <=uses======== ExecutorWlm
            <=implements=  WorkloadManager --EXTENDS--> DefaultAlgorithm
  Composed                 (Bloc in bloc, Switch, loops, restart, RunB)
  Samples   <=implements=  ForEachLoop
  OptimizerLoop            AlternateThread
  PlayGround

  proofs:  Bloc_proofs  <--EXTENDS--  Executor_proofs, ExecutorWlm_proofs
           WorkloadManager_proofs (with those of DefaultAlgorithm)
           PlayGround_proofs, Composed_proofs, ForEachLoop_proofs,
           OptimizerLoop_proofs (with those of AlternateThread)
```

Each `MC<module>` extends a module and defines the instances TLC checks.
`ExecutorWlm` and `WorkloadManager` are composed through `TaskPool`: the
manager is shown to implement it, the executor to use it as it allows
(`ClientOfManager`) and to need no more from it.

Mutated definitions (marked "Mutant" in their comment) stand beside the ones they
mutate. No specification uses them: putting one in the place of the original
makes TLC report the property it is paired with in `PROJECT.json`, which shows that
the property depends on that piece of the code.

### Bloc

State: `node` (`_state` of each elementary node), `bloc` (`_state` of the bloc),
`arrived` (the flags of the in-gates). Its operators are the calls of the
`Scheduler` interface, to be conjoined into the actions of an executor:
`ExStart` (init and exUpdateState), `ReadyTasks` (getNextTasks), `NotifyStart`,
`NotifyFinish`, `NotifyAbort` (task->finished/aborted, then notifyFrom).

* `After[t]` is what the recursion of `exNotifyFailed` reaches. It is a constant
  with an assumption (closed under links, without `t`, nothing that is not
  reached) instead of a recursion: links form no cycle
  (`Bloc::checkNoCyclePassingThrough`).
* `Invalid` is the set of nodes with an input port that *may* be unset when the
  node becomes loadable: `ElementaryNode::exUpdateState` then throws. Ports
  have no values here, so whether it is unset is a choice of each step. The
  exception interrupts a loop over a `std::set` of pointers: the nodes served
  before it are any subset.

### Executor

`RunB`, thread by thread. `pc` is the position of the loop's thread. A critical
section is one action; what the code reads or writes outside of the mutex is an
action of its own (`Check`, `StoreSteps`, `AllowEnd`, `Initialise`).

| Action | Code |
|---|---|
| `Reset`, `Initialise`, `InitialiseFails` | head of `RunB` |
| `Sleep`, `Awake` | `sleepWhileNoEventsFromAnyRunningTask`, before and after the wait |
| `Select` | `getNextTasks` and `filterTasksConsideringContainers` |
| `Check`, `CheckStep`, `CheckBreakpoints`, `Resumed` | the test of line 303, `checkBreakPoints`, `waitResume` |
| `NextPhase`, `BeginLoad`, `EndLoad`, `Connect`, `Launch` | `loadParallelTasks`, `launchTasks`, `launchTask` |
| `LoopEnd`, `Stopping` | end of a turn, end of the run |
| `Release`, `TaskEnd` | `functionForTaskExecution` after the execution |
| `SpuriousWakeup` | a wait that returns for no reason, when `Spurious` |
| `SetExecMode` ... `ResumeSuspended` | the requests of the pilot, `stopExecution` in its three steps, `setStepsToExecute` in its two |

* `_tasks` is a set: the order of a vector that comes from iterating sets of
  pointers is arbitrary. The filter that keeps the first *n* keeps any *n*.
* A homogeneous pool is a counter of busy workers. Which worker, on which cores,
  is in PlayGround. Any two pools have different widths, as
  the filter requires (see the finding about equal widths).
* The wait for the semaphore and the critical section that follows it in
  `launchTask` are one action: only the loop's thread takes the semaphore, so
  nobody can see it taken and not yet used.
* `sendEvent`, traces, dumps and the observers are left out; `INITIALISED` is
  overwritten before anything reads it. No datastream links, so `TORECONNECT`
  and coupled tasks do not occur.
* `problemCount` runs to `ProblemLimit` (25 in the code, 1 in the instances: it
  only counts turns).
* `Careful` says that the pilot calls `setStepsToExecute` only in a pause, as the
  doc of `RunB` intends. `MaxCommands` bounds the requests of one run.

### ExecutorWlm

`runWlm` and `WlmTask::run`. The loop's thread: `Initialise`, `Sleep`, `Awake`,
`Select`, `Check`, `Launch`, `LoopEnd`, `Stop`. The thread the manager gives to a
task: `Begin` (the manager places it, or starts it to report that no node can
ever run it), `LoadStart`, `LoadEnd`, `Connect`, `Run`, `EndTask`, `Refuse`
(failTask), `Return`. A task goes on to the next step whatever became of
the one before, as `WlmTask::run` does. The manager's variables are those of
`TaskPool`.

`SpuriousWakeup` is the wait that returns for no reason, when `Spurious`: it leaves
`isWaiting` set, and the next `WakeUp` then neither notifies nor counts. The history
variable `missed` remembers that this has happened since the last selection:
`AsleepOverMissed` says that nothing else leaves a ready task aside while the loop
sleeps and a thread is free. `AsleepOverNothing`, without that exception, holds when
`Spurious` is `FALSE` and is a finding when it is `TRUE`.

### Workflow

What a run promises with none of that: a task runs at most once, only when all
it depends on is done; what is behind a failure never runs; nothing starts
once the run is over. `IsWorkflow` of Executor and of ExecutorWlm map the nodes'
states to outcomes. In ExecutorWlm a task may have two failures seen by the loop (its
load, then its execution): `Seen` counts it as started until the manager has it back
(`Gone`), so that the second one is not a second end.

### Composed

A hierarchy of nodes: `Father`, `Kind`, `Links` describe several schemas, of which
one is run. `graph` is the state of all the nodes and loops. The operators
that take it as `g` are the calls made in one critical section:

| Operator | Code |
|---|---|
| `ExUpdateState`, `Entered`, `MakesFake`, `RunOf` | `exUpdateState` of each kind of node, from father to children that wait for nothing |
| `InitNode`, `RunAgain` | `init(false)` then `exUpdateState`, before a new turn |
| `NotifyFrom`, `UpdateStateFrom` | `ComposedNode::notifyFrom`, `updateStateFrom`, up to the root or to a father that sends no event |
| `BlocFinished`, `ForFinished`, `WhileFinished`, `WorkNodeOver`, `OnFailed` | `updateStateOnFinishedEventFrom`, `updateStateOnFailedEventFrom` of each structure |
| `ReadyTasks` | `getReadyTasks` from the root down |
| `ResetState`, `Loaded`, `Kept` | `resetState(1)`; what a file of a saved state keeps; the decision ports that do not change |

Around it, RunB without limits or pools (`Select` ... `Abort`), `Restart` (after
the end, in the same process) and `Reload` (killed at any moment, from the file).
A structure that has nothing to run makes a *fake node* (`FakeOf`), which runs as
a task. The decision ports take any value of `Options` at each start. `MayFail` are the
tasks whose execution may fail, `Unloadable` those of them whose load may fail too: all
of them in the runs, but for one (see `Tame` in section 4).

### ForEachLoop, Samples

One action per event of a node of a branch: `InitFinished`, `WorkFinished`,
`WorkFailed` (keep-going), `FinalizeFinished`, `Failed`; `Select` and `Start` are the
executor's; `Relaunch` is `getPassedResults` at any moment followed by a new run
with `assignPassedResults`, by the same object or by a new one (another process).
`special` is `_nodeForSpecialCases`: it is `spent` once it has run, and the same object
keeps it for its later runs, in which it is listed in the place of the branches
(`Hidden`). `WorkOver` is `updateStateForWorkNodeOnFinishedEventFrom`.
The result of the sample of rank *r* is *r*, so that a misplaced result is seen.
`Samples` is what a user counts on, over all runs: `done` only grows, a sample is
evaluated by one branch at a time and never again once it has a result.

### OptimizerLoop, AlternateThread

The algorithm is anything: asked for a decision, it pushes up to `MaxPush` samples,
returns, empties the pool or reports an error, with or without samples pushed in the
same call. `WorkFinished` is the whole
answer of the loop to a result (`putOutSampleAt`, `takeDecision`, convergence,
`launchMaxOfSamples`). An exchange with the slave thread is one step there, since
the mutex of the executor is held; its own steps are in AlternateThread, where a
call of the master is the actions up to its wait and those after it.

### DefaultAlgorithm, WorkloadManager, TaskPool

One operator per method of `DefaultAlgorithm`, one record of `granted` per
`LaunchInfo` given out and not liberated. `Next` lets any client make any calls
(each task held once). `Candidates`, `Preferred` and `Best` are the scan for the
cheapest resource with its tie-breaking; `NextFree` is the loop on
`_firstFreeContainer`. Cores are integers; the cost of a task without cores is
1/4096 of a core, as in the code.

WorkloadManager EXTENDS it with the manager's threads. `mutex` names the thread
that keeps `_data_mutex` over several steps (the loops of `runTasks` and `endTasks`);
all else is one action per critical section. Conditions are `asleep` states that
`Notified` turns into waiting for the mutex. A task may let an exception out
(`Throwing`); it is then `Lost`: the code catches nothing.

TaskPool is the manager as its client sees it: submitted, running on a worker that
nobody else has and that fits, done, released; closing waits for all. The worker is
the first free one of the type of the task on its resource, so that a container that
was given back is used again before a new one is started.

### PlayGround

Cores of machines, workers as chunks of cores, the tables `_currentlyWorking` of
each container, the group formed by the filter. An exception that leaves a
thread sets `thrown`, after which nothing happens: the process is gone.
`release` reads the worker's id through an iterator just erased; the value is
taken to be still there.

## 3. The runs

| Run | Question | Instance and bounds |
|---|---|---|
| MCExecutor | Does a run keep its books, respect links and failures, and end? | diamond `a -> b, c -> d` and `e` apart; one thread, a pool of one worker for `c`, `d`; any task may fail when run, `e` also in loading and connecting; spurious wakeups |
| MCExecutorPilot | Are waits, pauses and stops safe under any requests? | chain `a -> b` and `c` apart; three requests of all eight kinds at any moment; `b` and `c` may have an unset port: one is refused in the middle of a run, the other at its start; two threads |
| MCExecutorWlm | Is `runWlm` a Workflow that ends, and a proper client of the manager? | join `a, b -> c -> d` and `e -> f` apart, where `d` and `e` fit no node; nodes of two cores and one; two threads; `a` may fail to load or run, `b` to run, `c` to connect; spurious wakeups |
| MCWorkloadManager | Does the manager serve, drain and stop? | tasks of 1 (may throw), 2 and 3 cores (one too many), a resource of 2; two starts; spurious wakeups |
| MCDefaultAlgorithm | Is every sequence of calls placed right? | six tasks of 2, 1, 0 cores and one that ignores resources; resources of 1 and 3 cores, added late or frozen |
| MCPlayGround | Do widths share cores safely? | widths 1, 2, 3 on one machine of 7 cores, five tasks |
| MCComposed | Do structures in structures run in order, end, report failures and keep what is done? | five schemas: `F` (a ForLoop around a bloc), `S` (a WhileLoop in a Switch), `E` (a ForEachLoop over blocs), `N` (a ForEachLoop in a ForLoop), `K` (a ForLoop in a branch of a ForEachLoop); three turns; one restart or reload |
| MCForEachLoop | Does every result reach its rank, over failures and relaunches? | four samples; 0, 2 or 3 branches, chosen anew in each of three runs of one object or of several; any stage may fail; init and finalize nodes, and either setting of keep-going |
| MCOptimizerLoop | Do branches, pool and algorithm match, and is the algorithm always finished? | four samples of two priorities; 0, 2 or 3 branches; two runs; at most two pushes at a time; both kinds of algorithm |
| MCAlternateThread | Does one of two threads run, and is every slave joined? | two slaves one after the other, six requests each; no spurious wakeups |
| MCComposedWhile | (violation) Does a while loop end whatever its body? | a WhileLoop whose body is a Switch that may have no case to run |
| MCComposedRestart | (violation) Does a restart repair a failure? | schema `F`: a failure behind a ForLoop that is done |

Why these bounds are enough for the cases meant. Two independent tasks give every
order of two ends and a launch; a diamond or join gives a node with several
predecessors, failures that reach a node twice, and a node apart that goes on past
a failure; one thread and one worker make both limits bind. Three requests are
enough to stop a run that has been paused and resumed. Two starts give a restart.
Seven cores are no multiple of 2 or 3, so machines have cores left over. Three
turns give a first, a middle and a last one. Four samples on three branches make
branches take a second sample while others compute their first; on two, samples are
left over when a run is interrupted, with ranks that differ from the ids of the
next run; a third run starts from the results of two. Two priorities in the pool
give an order other than that of the pushes.

MCComposed runs `E`, `N` and `K` with keep-going only. Without it, the START of a node in
a branch puts a loop that has already failed back to `ACTIVATED`
(`ComposedNode.cxx:1436`): the loop's end is then lost, which is a finding of its own
below and would hide the rest.

Deadlock is checked where the system ends in a state that is not blocked: a step
such as `Over` or `ClientDone` is the only one then. It is not checked in
MCExecutorPilot, where a run may wait in a pause for a request that `MaxCommands` does
not allow any more, nor in MCPlayGround, MCForEachLoop, MCOptimizerLoop and
MCAlternateThread, whose tasks, runs and slaves are finite and which stop when
they are through; liveness properties say that the last three get there.

The runs check the properties that say most. The modules define a few more (type
invariants; `ThreadBound`, `WorkersAccounted`, `WaitingIsVisible`, `OverWithItsNodes`,
`FailureReachesAfter`, `CountedWhileManaged`, `CapacityRespected`, `IndexWithinCapacity`),
some of them parts of the conjunctions above: added to the `.cfg` of their module's
run, they hold there.

### What the code does not keep

Two runs check a property that the documentation states and TLC finds violated:

* **MCComposedWhile** (`LoopsEnd`): when the body of a while loop is a structure
  that had nothing to run, the node that reports its end is the fake node of that
  structure. `WhileLoop.cxx:116-118` re-initialises this fake node in place of the
  body; the new turn never starts and the run is over with turns left.
* **MCComposedRestart** (`RestartRepairs`): `exUpdateState` of ForLoop, WhileLoop,
  Switch and OptimizerLoop has no test of `DONE`, which Bloc and ForEachLoop have.
  A restart activates a loop that is done; nothing in it is run again and the
  run does not end `DONE`.

Other disagreements are listed under `findings` in `PROJECT.json` without a run of
their own. Each can be seen by checking the property named, on a variant of an
instance above:

| Property | Variant | What happens |
|---|---|---|
| `Executor!FinishedMeansOver` | MCExecutor with `b` and `c` in the pool and a failure of `c` in loading | the worker of a task that fails to load is never released, the others are never selected, the run is `FINISHED` with ready tasks |
| `Executor!WaitPauseReturns` | MCExecutorPilot with stops, modes and waits, two requests, nothing invalid | `STOPPED` is set without `_condForPilot.notify_all()`: `waitPause` never returns (`WaitEndsWithRun` leaves out just this end, and holds) |
| `Executor!StepsOnlyInPause` | MCExecutorPilot with steps only, `Careful = FALSE` | `setStepsToExecute` outside of a pause drops the tasks of the turn |
| `PlayGround!NeverThrows` | MCPlayGround with machines of 2 and 3 cores | `PlayGround::release` never adds to its offset: a worker of another machine frees wrong cores |
| `PlayGround!NeverThrows` | MCPlayGround with widths 1, 1, 3 | containers of one width are grouped, a task is released in another than its own |
| `ExecutorWlm!FinishedMeansOver` | MCExecutorWlm | `runWlm` sets `_toContinue` without asking for running tasks, and a task whose load has failed goes on: `FINISHED` while a task still runs (`FinishedButEarly`, which allows for just this, holds) |
| `ExecutorWlm!AsleepOverNothing` | MCExecutorWlm | a wait that returned for no reason leaves the flag up: the next end is not counted, and the loop sleeps beside the task it made ready, with a thread free, until another task ends (`AsleepOverMissed`, which allows for just this, holds) |
| `ForEachLoop!EveryRunEnds` | MCForEachLoop | a loop that had no branch in one run keeps its fake node: in a later run of the same object with branches, `getReadyTasks` looks at this node alone and the loop stays `ACTIVATED` (`LoopEnds` leaves out just this, and holds) |
| `Composed!RunsInOrder` | MCComposed with `K.x` in `Unloadable` | a task of a branch that keeps going fails to load and is `TOLOAD` again for the next sample; `launchTasks` of the same turn takes it for one that was loaded: it runs without `load` and `initService`, even in a loop that has no turn for this sample. Looking for an invariant of the first run met it (`Tame`) |
| `OptimizerLoop!IgnoredAfterError` | MCOptimizerLoop | a START revives a loop that failed; the next result is given to an algorithm that is already finished |
| `ForEachLoop!CollectionConstructed` | MCForEachLoop | a relaunch with every sample passed sends an empty collection |
| `AlternateThread!StartRunsSlave` | MCAlternateThread with `Spurious = TRUE` | a wait without predicate returns for no reason: both threads run |

Met while reading and not stated by any document, so not findings: the
`aborted` of the fake node of a Switch compares (`!=`) where it should assign
(`Switch.cxx:268-269`); the counter of failed samples of a ForEachLoop is not reset by `resetState`; a ForEachLoop or OptimizerLoop
directly over a structure with a fake node does not recognise that node
(`DynParaLoop.cxx:413-430` throws); `getPassedResults` before the loop has begun
returns nothing, although an earlier run had passed results (`ForEachLoop.cxx:1189-1192`);
`Pool::checkConsistency` is inverted and never called; with no branch an
OptimizerLoop never calls `finishProxy`. The modules model the code as it is in
these places, or leave them out where section 5 says so.

### Fairness

* Executor: weak fairness of the loop's thread, of the thread of each task
  (`execute` returns or throws) and of the pilot *inside* a request. No fairness
  for new requests. Weak fairness is enough: the mutex is kept over a step only
  by `suspendASAP`, whose `resume` is one of the fair steps, and requests
  are bounded.
* ExecutorWlm: weak fairness of the loop's thread and of each task's thread. The
  manager's own progress is what WorkloadManager shows. Spurious wakeups are never
  forced.
* WorkloadManager: weak fairness of `stop`, strong fairness of `runTasks`,
  `endTasks` and each task's thread, which compete for `_data_mutex`. `runTasks`
  sleeps one millisecond per turn without the mutex, "to release the lock and
  give a chance to other tasks to finish" (`WorkloadManager.cxx:115`), which is
  what strong fairness says. Spurious wakeups are never forced.
* Composed, ForEachLoop, OptimizerLoop: weak fairness of `Advance`, the steps of
  the loop's thread and of the tasks. Relaunches, restarts and reloads are not fair.
  Composed states it as "infinitely many steps, or over for good", which is the same
  since a step is possible until the run is over.
* AlternateThread: weak fairness of both threads together; the loop finishes its
  algorithm, and each turn of the algorithm ends. That the algorithm heeds
  the request to end is not assumed: the master then cancels it.

## 4. The proofs

Proved for every value of the constants, from the assumptions named in the
modules (`BlocAssumption`, `ExecutorAssumption`, `WlmAssumption`,
`PlacementAssumption`, `ManagerAssumption`, `PlayGroundAssumption`,
`ComposedAssumption`, `HierarchyAssumption`, `ForEachAssumption`, `OptimizerAssumption`,
`AlternateAssumption`); TLC evaluates these on every instance. The inductive invariants were first checked by TLC on the
instances of section 3.

Some theorems have a hypothesis more. Each is named, holds in the instance of the run
that checks the property (`Spurious` in MCExecutor is `TRUE`, but it has no pilot),
but for one, and is needed: the third column says what happens without it.

| Hypothesis | Theorems | Without it |
|---|---|---|
| `Calm`: no wait returns by itself, or there is no pilot | `NoWakeupLost`, `PauseIsRespected`, `LimitsHold`, `FinishedIsOver` | the waits have no predicate: a loop that leaves a pause by itself forgets what the pilot asked |
| `PoolsKept`: a task of a pool fails in no other way than by its execution, and is not deselected by steps | `LimitsHold`, `FinishedIsOver` | the worker of a task that fails to load is never released (finding at `Executor.cxx:866`) |
| a thread, and a worker in each pool | `FinishedIsOver` | ready tasks that nothing can run are dropped after 26 turns |
| `Tasks # {}` | `OutcomeHolds` | a bloc without nodes gets no notification and stays `ACTIVATED` |
| `Invalid = {}`: no port unset | `FinishedIsEarly`, `SleepsOverMissed`, `SleepsOverNothing`, `WlmImplementsWorkflow` | the exception of a port leaves the forwarding of an end in the middle |
| `~Spurious` | the theorems of AlternateThread | the finding about `start` |
| `~Spurious` | `SleepsOverNothing` (`SleepsOverMissed` does without) | the finding at `Executor.cxx:1090`; this one hypothesis does not hold in its run, MCExecutorWlm, which checks `AsleepOverMissed` |
| `Plain`: one machine, pools of different widths | the theorems of PlayGround | the findings at `PlayGround.cxx:212` and `Executor.cxx:1343` |
| `Tame`: no structure is directly the body of a ForEachLoop, and below one that keeps going a task that may fail to load (`Unloadable`) is in no structure inside the branch | the theorems of Composed | `getIdentityOfNotifyerNode` throws (`DynParaLoop.cxx:413`); the finding at `Executor.cxx:928` |
| `Sturdy`: a schema that may stop at a failure has no ForEachLoop; the body of a WhileLoop is not a structure; a bloc has nodes; a ForEachLoop in a loop always has something to run | `FirstRunGoes`, `FirstEndsWithItsGraph` | the START of another branch revives a loop that failed (`ComposedNode.cxx:1436`); the finding at `WhileLoop.cxx:117`; a bloc without nodes gets no notification; a ForEachLoop that once had nothing to run goes on looking at its fake node (`ForEachLoop.cxx:542`). In each case a structure stays `ACTIVATED` and the run is over without its graph; TLC shows it on MCComposed with `E` not keeping going, on the schema of MCComposedWhile, and with `{0, 1}` samples for `N.each` |
| `Patient`: results are asked for once the loop has begun | `LoopIsSamples` | `getPassedResults` returns nothing, and results are computed again |

**Bloc_proofs** has what the operations of a bloc keep, whoever calls them. `Ordered`
strengthens `DependenciesRespected`, which is not inductive alone: a gate is ready
when its flags are set, so the invariant says that a set flag comes from a node that
is `DONE`; and a failure reaches far behind the failed node, so it says that a node
anywhere behind `t` (in `After[t]`) has started only if `t` is `DONE`: then
`exNotifyFailed` never overwrites a node that runs. `Reached` strengthens `BlocOutcome`
in the same way.

**Executor_proofs.** `IInv == ETypeOK /\ RunningConsistent /\ Ordered /\ Shape` is
inductive. `Shape` says what the places of the loop's thread imply: the bloc is
untouched before the start, a node being loaded stays `TOLOAD`, the final states come
with the end of the loop. From it follow `TypeCorrect`, `RunningIsConsistent`,
`DependenciesHold` and, with `Reached`, `OutcomeHolds`.

`Watch` relates the sleeping thread to the flag, to the running tasks and to the
state of the pause. `NoWakeupLost` and `PauseIsRespected` say that the handshake of
`_isWaitingEventsFromRunningTasks`, of `wakeUp` and of `resumeCurrentBreakPoint` loses
no notification, for any number of tasks and any requests.

`LimitsHold` needs to follow a task from its selection, where threads and workers are
counted, to its launch, in another critical section and after others have ended:
`Steps` says what the pilot's steps and the phases of the turn may have left, `Threads`
counts the tasks that will run with those that do, `Kept` says that a task that holds a worker and does not
run is still to be met by the phases of the turn. `FinishedIsOver` adds `Idle`: while
the loop counts no task, none is planned, loading, running or ready.

`ImplementsWorkflow`: each action is a step of Workflow or leaves its variables alone,
given `IInv'` and the fact that a run that is over launches nothing.

**ExecutorWlm_proofs.** The invariant `IInv` relates the stage of a task in the manager,
the place of its thread, its state and the count of the loop (`Behind`, `Path`): it gives
`WlmTypeCorrect`, `CountsWhatIsManaged` and `UsesManager` (each step is one of TaskPool's,
or touches none of its variables). `Drained` says which tasks may still be in progress
when the graph is finished, and that a loop that counts no task and selects none has
nothing ready, so that neither way to FINISHED (`Executor.cxx:1780`, 1793) leaves a node
that could be loaded or run: `FinishedIsEarly`. With it `Watch` says that between two
looks at the ended tasks, with no end missed, all candidates were offered, which gives
`SleepsOverMissed`; without spurious returns the flag is only up while the loop sleeps, so
nothing is missed: `SleepsOverNothing`. `WlmImplementsWorkflow` is the refinement.

**WorkloadManager_proofs** begins with the algorithm alone. `AlgoInv == TypeOK /\
IndicesInUse /\ DistinctWorkers /\ ErrorsAreFinal`: the index that will be handed out
next is never in `_runningContainers`, and those in it are exactly the ones in
`granted`. It gives `AlgorithmTypes`, `WorkersAreDistinct` and `ErrorsAreHopeless`;
the last also needs that resources cannot be added once frozen. `QueueIsSorted`
follows from what an insertion at the first smaller task does (it is proved
without a run). `PlacedTasksFit` is about
sums over a set that changes: `IsSum` and `Total` are shown to be what the library's
`MapThenSumSet` computes (existence and uniqueness of the sum by a least
counterexample), to change by one term with one element and to be monotonous. With
them `Accounts` is inductive: the load of a resource is the sum of the cores of what is
placed on it, at most its cores, and the indices in use have no hole below the next one.

Then the manager. `WInv == WTypeOK /\ AlgoInv /\ OncePerTask /\ Reported`: each action is
a step of the algorithm or leaves it alone; a task is in one place at a time. It gives
`FinishedTasksAreRunning` and `ManagerWorkersAreDistinct`; with `Accounts`,
`ManagerPlacementFits`. `ManagerIsTaskPool` is the refinement of TaskPool: the choices of
`chooseTask` are placements on the first free worker of a resource with enough free cores
(from `Accounts`), and the pool is closed only when nothing is placed or waiting
(`Lifetimes`: `runTasks` and `endTasks` stop in that order).

**PlayGround_proofs.** `PlayGroundInv`: a task that works has one worker of its own pool,
within the machine; the occupied cores are those of the workers, and no core is of two.
A free chunk has no occupied core, so it is neither in the table of its pool nor over a
worker of another width; the tasks that get one are as many as there are chunks (a
one-to-one map between sets of one size). It gives `CoresAreOfWorkers` and `NothingThrows`.

**Composed_proofs.** The hierarchy is any forest of tasks, blocs, loops and switches: the
first lemmas show, from the recursive functions `Ancestors`, `Behind` and `Reached`, that
the inside of a node, what is behind it and what a start reaches are what they should be
(induction on the number of nodes on the way, `FarInduction`). `FirstRun` is the invariant:

* `Ordered`, of the graph alone: a set flag comes from a node that is `DONE` (`Flags`); a
  node that waits for a link has not begun, nor anything inside it (`Unstarted`); a switch
  runs the chosen case (`Cases`); a branch at work has a sample (`Ids`); a node that is
  `DONE` has no failure inside (`DoneIsClean`), and a node fails only for a failure beside
  or below it (`Causes`), where a failure is a node in `ERROR` or a counted failed sample
  (`Hard`);
* `Acts`: a task that RunB loads, launches or runs is in structures that run it, each of
  them `ACTIVATED`, or failed while it ran when nothing keeps going (`Open`);
* `Lapsed`: a task of the turn that is no longer `TOLOAD` or `TOACTIVATE` has failed to
  load; it is this part that the finding at `Executor.cxx:928` breaks;
* a failure that was reported is still found inside the root (`Marked`).

Each thing that a notification does to the graph keeps it: a start
(`StartKeeps`), a new turn (`RunAgainKeeps`), a change of one state (`SetKeeps`), a new
count of failures (`RecountKeeps`), the failure of what is behind (`FailedKeeps`). Then
`ForClimbs`, `WhileClimbs`, `SwitchClimbs`, `BlocFinishedClimbs`, `BlocFailedClimbs`,
`ForEachClimbs` and `AbortClimbs` show that a father that is told of an event (`Sent`:
from a child that it runs, which is quiet when it has ended) leaves a graph that is in
order and sends an event that is again well sent; `NotifyKeeps` follows the event level
by level up to the root. One lemma per action, from `InitFirst` to `EndFirst`, makes
`FirstRunInvariant` of it; `FirstRunsInOrder`, `FirstDoneMeansQuiet` and
`FirstFailureReachesRoot` are what it says of the tasks, for schemas of any depth.

`DoneIsKept` needs the invariant too: a failure marks what is behind it `FAILED`, a START
activates the father and a new turn makes nodes `READY`, and it is because gates are
closed (`Unstarted`), chains open and turns inside loops that none of them meets a node
that is `DONE` outside a loop. `Follows`, the relation that the steps above have from one
graph to the next, has `KeepsDone` for this. The restart needs no invariant of the run:
`ResetIs` and `LoadedIs` say what `resetState` and a file leave of the graph, and
`RestartKeepsDone` that starting the root again only activates structures that were done,
which is what `Spoils` tells. `FirstDoneIsKept` says it of a behaviour up to its
first restart included (`[][restarts = 0]_vars`).

`EndsWithItsGraph` says that RunB does not stop early, which is a safety property of the
end with a reason of liveness behind it: while the schema has not ended there is a task
to select or one that runs. `FirstGoing` is the invariant that carries it. Each node that
is `ACTIVATED` is `Settled`: a bloc has a child that has not ended, and each child that
was not started waits for one before it (`BlocGoes`); a structure has a child at work that
it runs (`ControlGoes`), or its fake node to launch or running (`FakeHeld`); a branch of a
ForEachLoop that has a sample is at work (`ForEachGoes`). `Steady` has what they rest on:
a task that is `ACTIVATED` has its thread (`TaskHeld`), a node that was failed while it
waited has a failed node before it (`Blamed`), and nothing has failed but for a failed
task (`Untroubled`).

None of this is true between the end of a node and the answer of its father, so `Going`
has a hole: x, the node that has just ended, which its father may count as not ended yet.
`EndMoves` opens the hole at a task; `BlocTold`, `TurnTold`, `WorkNodeTold` and `UpdateTold`
show that the answer of the father either closes it, by starting something
(`FinishedMoves`, `LoopGoesOn`), or moves it one level up, by ending (`EndTold`);
`NotifyTold` follows it up to the root, whose end needs no answer. At the end of the run
`NothingLeft` goes down again: with no task ready or running, no node in a chain of nodes
that run each other is at work, by induction from the tasks up (`UpInduction`) and, in a
bloc, along its links (`ForthInduction`). So the root has ended (`FirstRunGoes`), and
`FirstReachesRoot` and `Untroubled` tell in which state (`FirstEndsWithItsGraph`).

The theorems are about the first run (`restarts = 0`), and `FirstDoneIsKept` about the
restart that follows it: a restart may activate a structure that was done
(`RestartRepairs`), and the runs after one are only model-checked.

**ForEachLoop_proofs.** A sample has a rank in the collection and, in a run that
starts from passed results, an id among those left; `At` and `Pos` are the two
directions, and the first lemmas show, for finite sets of integers, that they are
inverse and keep the order. `IInv` adds to `SamplesKept` the types (`Types`),
that passed results come first and in order (`PassedInOrder`), that a loop that has not
begun has no branch and one with a fake node, of this run or of an earlier one, has begun
none (`NotBegun`), that branches have distinct ids below the next
one (`Dealt`), that a sample not dealt has no result and one dealt has it, is with
its branch, or has failed (`Covered`), and what the output holds (`Output`).
`ResultsAreKept` is `Spec => []SamplesKept`, for any number of samples, branches and
relaunches; `LoopIsSamples` is the refinement of Samples.

**OptimizerLoop_proofs.** `OptimizerInv == TypeOK /\ Matched /\ Phases /\ Heard /\
AlgorithmReleased`. `Matched` pairs the branches at work with the samples in use;
`Phases` says what the stage of a branch, the flag of convergence and an end or error of
the loop imply for each other; `Heard` that the algorithm is there to hear of each sample
at work, unless it has converged or something has failed. `launchMaxOfSamples` pairs the free branches with the launchable samples, rank by
rank: the lemmas about it say that it leaves no free branch or no launchable sample. It gives
`ResultsReachTheirSample`, `SamplesAreTaken` and `EndedIsReleased`, for any algorithm.
`SamplesAreTaken` is about a run where nothing has failed: the samples that an algorithm
pushes before it reports an error stay in the pool, and a START may activate the loop
once more (finding `IgnoredAfterError`).

At the end of this module, the threads of AlternateThread, on whose alternation that one
step per call of an algorithm rests: `Turns` says, for each place of the two threads, who
has the turn and who is in a wait. It gives `ThreadsAlternate` and `CancelEnds`: when the
master is back from a cancellation, the slave has ended, as the assertion of
`AlternateThreadPT.cxx:88` wants.

**Only model-checked.** Liveness (`RunEnds`, `StopTakesEffect`, `WaitEndsWithRun`,
`StopReturns`, `EveryTaskServed`, `LoopEnds`, `SlavesAreJoined`), which needs ENABLED.
In Composed, the runs that a restart begins.

## 5. What is not modelled, and the plan

Done: the modules of section 2, their runs and proofs.

What could follow, in this order:

1. Proofs about Composed: the invariant of the runs that a restart begins.
2. The requests of a pilot in the pauses of `runWlm`; pools together with a pilot (a
   task deselected in a pause keeps its worker); PlayGround as a refinement of the
   pools of Executor; partitions of a playground.
3. ForEachLoop: weights, and the ForEachLoopDyn whose number of branches is computed;
   results of a ForEachLoop kept in the file of a saved state.
4. OptimizerLoop: an algorithm that reads the pool back, or empties it and then pushes
   in one decision.
5. Composed: the default case of a Switch, disabled nodes, `resetState(0)`.
6. Checks of links (cycles, collisions) as operators against reachability.
7. `RunA`, the older loop, which nothing in `src/src` calls.

Left out for good: data values, ports and type conversions, CORBA and
Python calls, XML parsing, GUIs, wrappers, `pmml`, `py2yacs` (input/output or pure
translation); these make up most of the lines of the repository and have no control
of their own to check. Datastream exchange (an external library); the edition of
schemas. The undefined behaviour of data races on `_tasks` and `_semThreadCnt` is
not modelled; `PROJECT.json` lists them among the hazards.
