-------------------------- MODULE Executor_proofs ---------------------------
(***************************************************************************)
(* What holds of every run of every graph, however many tasks, pools and   *)
(* threads there are: proofs about the specification of Executor.          *)
(***************************************************************************)
EXTENDS Executor, Bloc_proofs

-----------------------------------------------------------------------------
(* Types.                                                                  *)

LEMMA TypeInit == Init => ETypeOK
<1> SUFFICES ASSUME Init PROVE ETypeOK
  OBVIOUS
<1> USE DEF Init
<1>1. BlocTypeOK
  BY DEF BlocInit, BlocTypeOK, NodeStates
<1>2. occupied \in [Pools -> Int] /\ sem \in Nat
  BY ExecutorAssumption
<1>3. isWaiting \in BOOLEAN /\ ended \in Nat /\ running \subseteq Tasks
  OBVIOUS
<1>4. /\ toContinue \in BOOLEAN /\ okToEnd \in BOOLEAN
      /\ errorDetected \in BOOLEAN /\ stopOnError \in BOOLEAN
  OBVIOUS
<1>5. /\ numberAll \in Nat /\ problemCount \in Nat /\ commands \in Nat
      /\ held \subseteq Tasks
  OBVIOUS
<1> QED BY <1>1, <1>2, <1>3, <1>4, <1>5 DEF ETypeOK

LEMMA TypeStep == ETypeOK /\ [Next]_vars => ETypeOK'
<1> SUFFICES ASSUME ETypeOK, [Next]_vars PROVE ETypeOK'
  OBVIOUS
<1> USE ExecutorAssumption
    DEF ETypeOK, vars, blocVars, loopVars, modeVars, eventVars, stepVars, poolVars, pilotVars
<1>b. UNCHANGED blocVars => BlocTypeOK'
  BY DEF BlocTypeOK
<1>1. CASE Reset
  BY <1>1, <1>b DEF Reset
<1>2. CASE Initialise \/ InitialiseFails
  <2>1. ExStart \/ ExStartFails
    BY <1>2 DEF Initialise, InitialiseFails
  <2>2. CASE Tasks = {}
    BY <2>2, <2>1, <1>2, BlocAssumption
       DEF BlocTypeOK, ExStart, ExStartFails, Sources, ExUpdateState, Initialise, InitialiseFails
  <2>3. CASE Tasks # {}
    BY <2>3, <2>1, <1>2, BlocOperationTypes DEF Initialise, InitialiseFails
  <2> QED BY <2>2, <2>3
<1>3. CASE Sleep
  <2>1. CASE running # {} /\ ended = 0
    BY <2>1, <1>3, <1>b DEF Sleep
  <2>2. CASE ~(running # {} /\ ended = 0)
    BY <2>2, <1>3, <1>b DEF Sleep
  <2> QED BY <2>1, <2>2
<1>15. CASE Awake
  BY <1>15, <1>b DEF Awake
<1>4. CASE Select
  <2>1. PICK chosen \in SUBSET ReadyTasks :
          /\ tasks' = chosen
          /\ numberAll' = Cardinality(running) + Cardinality(chosen)
          /\ occupied' = [p \in Pools |-> occupied[p] + Cardinality(Pooled(chosen, p))]
          /\ held' = held \union {t \in chosen : PoolOf[t] # NoPool}
    BY <1>4 DEF Select
  <2>2. chosen \subseteq Tasks
    BY DEF ReadyTasks
  <2>3. numberAll' \in Nat
    BY <2>1, <2>2, TaskSets
  <2>4. occupied' \in [Pools -> Int]
    BY <2>1, <2>2, TaskSets DEF Pooled
  <2> QED BY <1>4, <1>b, <2>1, <2>2, <2>3, <2>4 DEF Select
<1>5. CASE Check \/ Resumed \/ NextPhase
  BY <1>5, <1>b DEF Check, Resumed, NextPhase
<1>6. CASE CheckStep \/ CheckBreakpoints
  BY <1>6, <1>b DEF CheckStep, CheckBreakpoints, Pause, AfterPause, NotifyPilot
<1>7. CASE Loading
  <2>1. PICK t \in Tasks : BeginLoad(t) \/ EndLoad(t) \/ Connect(t)
    BY <1>7 DEF Loading
  <2>2. NotifyAbort(t) \/ NotifyStart \/ SetState(t, "TOACTIVATE") \/ UNCHANGED blocVars
    BY <2>1 DEF BeginLoad, EndLoad, Connect
  <2>3. BlocTypeOK'
    BY <2>2, <1>b, BlocOperationTypes DEF NodeStates
  <2> QED BY <2>1, <2>3 DEF BeginLoad, EndLoad, Connect
<1>8. CASE Launching
  <2>1. PICK t \in Tasks : Launch(t)
    BY <1>8 DEF Launching
  <2>2. BlocTypeOK'
    BY <2>1, <1>b, BlocOperationTypes DEF Launch, NodeStates
  <2> QED BY <2>1, <2>2 DEF Launch
<1>9. CASE LoopEnd
  BY <1>9, <1>b DEF LoopEnd, NotifyPilot
<1>16. CASE Stopping
  BY <1>16, <1>b DEF Stopping
<1>10. ASSUME NEW t \in Tasks, Release(t)
       PROVE  ETypeOK'
  <2>1. occupied' \in [Pools -> Int]
    <3>1. occupied' = [p \in Pools |-> IF p = PoolOf[t] THEN occupied[p] - 1 ELSE occupied[p]]
      BY <1>10 DEF Release
    <3> QED BY <3>1
  <2>2. held' \subseteq Tasks
    BY <1>10 DEF Release
  <2>3. UNCHANGED <<blocVars, pc, state, toContinue, loopVars, modeVars, eventVars,
                    stepVars, pilotVars>>
    BY <1>10 DEF Release
  <2> QED BY <1>b, <2>1, <2>2, <2>3
<1>11. ASSUME NEW t \in Tasks, NEW ok \in BOOLEAN, TaskEnd(t, ok)
       PROVE  ETypeOK'
  <2>1. BlocTypeOK'
    BY <1>11, BlocOperationTypes DEF TaskEnd
  <2>2. /\ UNCHANGED <<toContinue, loopVars, stepVars, poolVars, commands>>
        /\ running' \subseteq Tasks /\ sem' \in Nat
    BY <1>11 DEF TaskEnd
  <2>3. /\ mode' \in {"CONTINUE", "STEPBYSTEP", "STOPBEFORENODES"}
        /\ okToEnd' \in BOOLEAN /\ errorDetected' \in BOOLEAN /\ stopOnError' \in BOOLEAN
    BY <1>11 DEF TaskEnd
  <2>4. CASE LastOfPause
    BY <1>11, <2>1, <2>2, <2>3, <2>4 DEF TaskEnd, PauseReached, NotifyPilot
  <2>5. CASE ~LastOfPause /\ state = "PAUSED"
    BY <1>11, <2>1, <2>2, <2>3, <2>5 DEF TaskEnd
  <2>6. CASE ~LastOfPause /\ state # "PAUSED"
    <3>1. isWaiting' = FALSE /\ ended' \in Nat /\ pc' \in {pc, "woken"}
      BY <1>11, <2>6 DEF TaskEnd, WakeUp
    <3> QED BY <1>11, <2>1, <2>2, <2>3, <2>6, <3>1 DEF TaskEnd
  <2> QED BY <2>4, <2>5, <2>6
<1>12. CASE SpuriousWakeup
  BY <1>12, <1>b DEF SpuriousWakeup
<1>13. CASE Pilot
  <2> USE <1>b DEF Request
  <2>1. CASE SetExecMode
    BY <2>1 DEF SetExecMode
  <2>2. CASE SetListOfBreakPoints
    BY <2>2 DEF SetListOfBreakPoints
  <2>3. CASE SetStopOnError
    BY <2>3 DEF SetStopOnError
  <2>4. CASE ResumeCurrentBreakPoint
    BY <2>4 DEF ResumeCurrentBreakPoint, Resume
  <2>5. CASE SetStepsToExecute
    BY <2>5 DEF SetStepsToExecute
  <2>6. CASE WaitPause \/ SuspendASAP
    BY <2>6 DEF WaitPause, SuspendASAP
  <2>7. CASE StopExecution
    BY <2>7 DEF StopExecution
  <2>8. CASE StopResume
    BY <2>8 DEF StopResume, Resume
  <2>9. CASE StoreSteps
    BY <2>9 DEF StoreSteps
  <2>10. CASE AllowEnd
    BY <2>10 DEF AllowEnd
  <2>11. CASE ResumeSuspended
    BY <2>11 DEF ResumeSuspended
  <2> QED
    BY <1>13, <2>1, <2>2, <2>3, <2>4, <2>5, <2>6, <2>7, <2>8, <2>9, <2>10, <2>11
       DEF Pilot, PilotInside
<1>14. CASE UNCHANGED vars
  BY <1>14, <1>b
<1> QED
  BY <1>1, <1>2, <1>3, <1>15, <1>16, <1>4, <1>5, <1>6, <1>7, <1>8, <1>9, <1>10, <1>11, <1>12, <1>13, <1>14
     DEF Next, RunThread, TaskThread, Over

(* Every variable of the executor keeps its type.                          *)
THEOREM TypeCorrect == Spec => []ETypeOK
<1>1. Init => ETypeOK
  BY TypeInit
<1>2. ETypeOK /\ [Next]_vars => ETypeOK'
  BY TypeStep
<1> QED BY <1>1, <1>2, PTL DEF Spec

-----------------------------------------------------------------------------
(* The inductive invariant.                                                *)

Finals == {"FINISHED", "STOPPED"}

(* Where the threads are, told by the state of the nodes: the graph is as  *)
(* it was created until the run starts, a task is loaded only in its phase *)
(* and is loadable meanwhile, and a run that is over has left its loop.    *)
Shape ==
  /\ pc \in {"init", "start"} => BlocInit
  /\ loading # {} => pc = "loading"
  /\ \A t \in loading : node[t] = "TOLOAD"
  /\ state \in Finals => pc = "over"

IInv == ETypeOK /\ RunningConsistent /\ Ordered /\ Shape

LEMMA InvInit == Init => IInv
<1> SUFFICES ASSUME Init PROVE IInv
  OBVIOUS
<1>1. RunningConsistent
  BY FS_EmptySet, ExecutorAssumption DEF Init, BlocInit, RunningConsistent
<1>2. Ordered
  BY BlocAssumption DEF Init, BlocInit, Ordered, Started
<1>3. Shape
  BY DEF Init, Shape, Finals
<1> QED BY TypeInit, <1>1, <1>2, <1>3 DEF IInv

(* A step that touches neither the graph nor the running tasks keeps the   *)
(* invariant if it goes on in the same part of the run.                    *)
LEMMA QuietStep ==
  ASSUME IInv, ETypeOK', UNCHANGED <<blocVars, running, sem, loading>>,
         pc' \in {"init", "start"} => pc \in {"init", "start"},
         loading # {} => pc' = pc,
         state' \in Finals => pc' = "over"
  PROVE  IInv'
BY DEF IInv, blocVars, RunningConsistent, Ordered, Shape, BlocInit

LEMMA InvStep == IInv /\ [Next]_vars => IInv'
<1> SUFFICES ASSUME IInv, [Next]_vars PROVE IInv'
  OBVIOUS
<1> USE DEF vars, blocVars, loopVars, modeVars, eventVars, stepVars, poolVars, pilotVars
<1>t. ETypeOK /\ ETypeOK' /\ BlocTypeOK
  BY TypeStep DEF IInv, ETypeOK
<1>1. CASE Reset
  <2>1. running = {}
    BY <1>1 DEF Reset, IInv, Shape, BlocInit, RunningConsistent
  <2>2. UNCHANGED <<blocVars, running, sem, loading>>
    BY <1>1, <2>1 DEF Reset
  <2> QED BY <1>1, <1>t, <2>2, QuietStep DEF Reset, IInv, Shape, Finals
<1>2. CASE Initialise \/ InitialiseFails
  <2>1. BlocInit /\ (ExStart \/ ExStartFails)
    BY <1>2 DEF Initialise, InitialiseFails, IInv, Shape
  <2>2. Ordered' /\ \A t \in Tasks : node'[t] # "ACTIVATED"
    BY <2>1, <1>t, StartKeepsOrder
  <2>3. running = {}
    BY <2>1 DEF IInv, RunningConsistent, BlocInit
  <2>4. RunningConsistent'
    BY <1>2, <2>2, <2>3 DEF Initialise, InitialiseFails, IInv, RunningConsistent
  <2>5. loading = {}
    BY <1>2 DEF Initialise, InitialiseFails, IInv, Shape
  <2>6. Shape'
    BY <1>2, <2>5 DEF Initialise, InitialiseFails, Shape, Finals
  <2> QED BY <1>t, <2>2, <2>4, <2>6 DEF IInv
<1>3. CASE Sleep \/ Awake \/ Select \/ Check \/ Resumed \/ NextPhase
  BY <1>3, <1>t, QuietStep
     DEF Sleep, Awake, Select, Check, Resumed, NextPhase, IInv, Shape, Finals
<1>4. CASE CheckStep \/ CheckBreakpoints
  BY <1>4, <1>t, QuietStep
     DEF CheckStep, CheckBreakpoints, Pause, AfterPause, IInv, Shape, Finals
<1>5. ASSUME NEW t \in Tasks, BeginLoad(t)
      PROVE  IInv'
  <2>1. /\ node' = node /\ arrived' = arrived
        /\ \A u \in loading' : u \in loading \/ node[u] = "TOLOAD"
    BY <1>5 DEF BeginLoad, NotifyStart
  <2> QED BY <1>5, <1>t, <2>1
          DEF BeginLoad, IInv, RunningConsistent, Ordered, Shape, BlocInit
<1>6. ASSUME NEW t \in Tasks, EndLoad(t) \/ Connect(t)
      PROVE  IInv'
  <2>1. /\ UNCHANGED <<pc, state, running, sem>>
        /\ t \notin loading' /\ loading' \subseteq loading
        /\ pc \in {"loading", "connecting"}
    BY <1>6 DEF EndLoad, Connect, IInv, Shape
  <2>2. CASE UNCHANGED blocVars
    BY <2>1, <2>2, <1>t DEF IInv, RunningConsistent, Ordered, Shape, BlocInit
  <2>3. CASE ~UNCHANGED blocVars
    <3>1. node[t] = "TOLOAD" /\ (NotifyAbort(t) \/ SetState(t, "TOACTIVATE"))
      BY <1>6, <2>3 DEF EndLoad, Connect, IInv, Shape
    <3>2. /\ Ordered' /\ OthersStay(t)
          /\ node'[t] # "ACTIVATED"
      BY <3>1, <1>t, AbortKeepsOrder
         DEF IInv, Started, SetState, Ordered, OthersStay, BlocTypeOK
    <3>3. {u \in Tasks : node'[u] = "ACTIVATED"} = {u \in Tasks : node[u] = "ACTIVATED"}
      BY <3>1, <3>2 DEF OthersStay, Started
    <3>4. RunningConsistent'
      BY <2>1, <3>3 DEF IInv, RunningConsistent
    <3>5. \A u \in loading' : node'[u] = "TOLOAD"
      BY <2>1, <3>2, <1>t DEF IInv, Shape, OthersStay, Started, ETypeOK
    <3> QED BY <2>1, <3>2, <3>4, <3>5, <1>t DEF IInv, Shape
  <2> QED BY <2>2, <2>3
<1>7. ASSUME NEW t \in Tasks, Launch(t)
      PROVE  IInv'
  <2>1. CASE node[t] # "TOACTIVATE"
    BY <1>7, <2>1, <1>t, QuietStep DEF Launch, IInv, Shape, Finals
  <2>2. CASE node[t] = "TOACTIVATE"
    <3>1. /\ SetState(t, "ACTIVATED") /\ sem' = sem - 1 /\ running' = running \union {t}
          /\ pc = "launching" /\ UNCHANGED <<pc, state, loading>>
      BY <1>7, <2>2 DEF Launch
    <3>2. /\ node' = [node EXCEPT ![t] = "ACTIVATED"] /\ arrived' = arrived
          /\ t \notin running /\ running \subseteq Tasks
      BY <3>1, <2>2 DEF SetState, IInv, RunningConsistent
    <3>3. running' = {u \in Tasks : node'[u] = "ACTIVATED"}
      BY <3>1, <3>2, <1>t DEF BlocTypeOK, IInv, RunningConsistent
    <3>4. Cardinality(running') = Cardinality(running) + 1
      BY <3>1, <3>2, TaskSets, FS_AddElement
    <3>5. sem' + Cardinality(running') = MaxThreads
      BY <3>1, <3>2, <3>4, TaskSets, <1>t, ExecutorAssumption
         DEF IInv, RunningConsistent, ETypeOK
    <3>6. Ordered'
      BY <2>2, <3>2, <1>t DEF BlocTypeOK, IInv, Ordered, Started
    <3>7. Shape'
      BY <3>1 DEF IInv, Shape
    <3> QED BY <1>t, <3>3, <3>5, <3>6, <3>7 DEF IInv, RunningConsistent
  <2> QED BY <2>1, <2>2
<1>8. CASE LoopEnd \/ Stopping
  BY <1>8, <1>t, QuietStep DEF LoopEnd, Stopping, IInv, Shape, Finals
<1>9. ASSUME NEW t \in Tasks, Release(t)
      PROVE  IInv'
  BY <1>9, <1>t, QuietStep DEF Release, IInv, Shape
<1>10. ASSUME NEW t \in Tasks, NEW ok \in BOOLEAN, TaskEnd(t, ok)
       PROVE  IInv'
  <2>1. /\ t \in running /\ running' = running \ {t} /\ sem' = sem + 1
        /\ loading' = loading
        /\ NotifyFinish(t) \/ NotifyAbort(t)
    BY <1>10 DEF TaskEnd
  <2>2. node[t] = "ACTIVATED"
    BY <2>1 DEF IInv, RunningConsistent
  <2>3. Ordered' /\ OthersStay(t) /\ node'[t] # "ACTIVATED"
    BY <2>1, <2>2, <1>t, FinishKeepsOrder, AbortKeepsOrder DEF IInv, Started
  <2>4. running' = {u \in Tasks : node'[u] = "ACTIVATED"}
    BY <2>1, <2>3 DEF IInv, RunningConsistent, OthersStay, Started
  <2>5. Cardinality(running') = Cardinality(running) - 1
    BY <2>1, <1>t, TaskSets, FS_RemoveElement DEF ETypeOK
  <2>6. sem' + Cardinality(running') = MaxThreads
    BY <2>1, <2>5, <1>t, TaskSets, ExecutorAssumption DEF IInv, RunningConsistent, ETypeOK
  <2>7. pc \notin {"init", "start"}
    BY <2>2, <1>t DEF IInv, Shape, BlocInit, ETypeOK
  <2>8. /\ pc' \in {pc, "woken", "resumed"}
        /\ pc' # pc => pc \in {"asleep", "paused"}
        /\ state' \in {state, "PAUSED"}
    BY <1>10 DEF TaskEnd, PauseReached, WakeUp
  <2>9. \A u \in loading : node'[u] = "TOLOAD"
    BY <2>2, <2>3, <1>t DEF IInv, Shape, OthersStay, Started, ETypeOK
  <2>10. Shape'
    BY <2>1, <2>7, <2>8, <2>9 DEF IInv, Shape, Finals
  <2> QED BY <1>t, <2>3, <2>4, <2>6, <2>10 DEF IInv, RunningConsistent
<1>11. CASE SpuriousWakeup
  BY <1>11, <1>t, QuietStep DEF SpuriousWakeup, IInv, Shape, Finals
<1>12. CASE Pilot
  <2>1. /\ UNCHANGED <<blocVars, running, sem, loading>>
        /\ pc' # pc => pc = "paused" /\ pc' = "resumed"
        /\ state' \in {state, "RUNNING"}
    <3>1. CASE ResumeCurrentBreakPoint \/ StopResume
      BY <3>1 DEF ResumeCurrentBreakPoint, StopResume, Resume
    <3>2. CASE SetExecMode \/ SetListOfBreakPoints \/ SetStopOnError
      BY <3>2 DEF SetExecMode, SetListOfBreakPoints, SetStopOnError
    <3>3. CASE SetStepsToExecute \/ StoreSteps
      BY <3>3 DEF SetStepsToExecute, StoreSteps
    <3>4. CASE WaitPause \/ StopExecution \/ AllowEnd
      BY <3>4 DEF WaitPause, StopExecution, AllowEnd
    <3>5. CASE SuspendASAP \/ ResumeSuspended
      BY <3>5 DEF SuspendASAP, ResumeSuspended
    <3> QED BY <1>12, <3>1, <3>2, <3>3, <3>4, <3>5 DEF Pilot, PilotInside
  <2> QED BY <2>1, <1>t, QuietStep DEF IInv, Shape, Finals
<1>13. CASE UNCHANGED vars
  BY <1>13, <1>t, QuietStep DEF IInv, Shape, Finals
<1> QED
  BY <1>1, <1>2, <1>3, <1>4, <1>5, <1>6, <1>7, <1>8, <1>9, <1>10, <1>11, <1>12, <1>13
     DEF Next, RunThread, TaskThread, Loading, Launching, Over

LEMMA InvCorrect == Spec => []IInv
<1>1. Init => IInv
  BY InvInit
<1>2. IInv /\ [Next]_vars => IInv'
  BY InvStep
<1> QED BY <1>1, <1>2, PTL DEF Spec

(* The running tasks, the states of the nodes and the semaphore agree in   *)
(* every state of every run, whatever number of threads update them.       *)
THEOREM RunningIsConsistent == Spec => []RunningConsistent
<1>1. IInv => RunningConsistent
  BY DEF IInv
<1> QED BY <1>1, InvCorrect, PTL

(* No node of any graph is loaded or run before the nodes it is linked     *)
(* from have finished, whatever fails meanwhile.                           *)
THEOREM DependenciesHold == Spec => []DependenciesRespected
<1>1. IInv => DependenciesRespected
  BY BlocAssumption DEF IInv, Ordered, Started, DependenciesRespected, Successors
<1> QED BY <1>1, InvCorrect, PTL

-----------------------------------------------------------------------------
(* What becomes of a bloc whose nodes fail.                                *)

LEMMA ReachedStep ==
  ASSUME Tasks # {}, IInv, Reached, [Next]_vars
  PROVE  Reached'
<1> USE DEF vars, blocVars, loopVars, modeVars, eventVars, stepVars, poolVars, pilotVars
<1>t. BlocTypeOK /\ Ordered
  BY DEF IInv, ETypeOK
<1>q. ASSUME UNCHANGED blocVars PROVE Reached'
  BY <1>q DEF Reached, IsFinished, AllEnded, FailureReachesAfter
<1>1. CASE Initialise
  <2>1. \A u \in Tasks : node'[u] \in {"READY", "TOLOAD"}
    BY <1>1 DEF Initialise, IInv, Shape, BlocInit, ExStart, ExUpdateState
  <2>2. bloc' = "ACTIVATED"
    BY <1>1 DEF Initialise, ExStart
  <2> QED BY <2>1, <2>2 DEF Reached, FailureReachesAfter, IsFinished, AllEnded, Ended
<1>2. CASE InitialiseFails
  BY <1>2 DEF InitialiseFails, ExStartFails, Reached
<1>3. CASE \/ Reset \/ Sleep \/ Awake \/ Select \/ Check \/ CheckStep \/ CheckBreakpoints
           \/ Resumed \/ NextPhase \/ LoopEnd \/ Stopping
  BY <1>3, <1>q DEF Reset, Sleep, Awake, Select, Check, CheckStep, CheckBreakpoints, Resumed,
                    NextPhase, LoopEnd, Stopping
<1>4. ASSUME NEW t \in Tasks, BeginLoad(t)
      PROVE  Reached'
  <2>1. CASE node[t] = "TOLOAD"
    BY <1>4, <2>1, <1>t, MoveKeepsReached
       DEF BeginLoad, NotifyStart, BlocTypeOK, NodeStates, Ended
  <2>2. CASE node[t] # "TOLOAD"
    BY <1>4, <2>2, <1>q DEF BeginLoad
  <2> QED BY <2>1, <2>2
<1>5. ASSUME NEW t \in Tasks, EndLoad(t) \/ Connect(t) \/ Launch(t)
      PROVE  Reached'
  <2>1. \/ UNCHANGED blocVars
        \/ node[t] = "TOLOAD" /\ NotifyAbort(t)
        \/ node[t] = "TOLOAD" /\ SetState(t, "TOACTIVATE")
        \/ node[t] = "TOACTIVATE" /\ SetState(t, "ACTIVATED")
    BY <1>5 DEF EndLoad, Connect, Launch, IInv, Shape
  <2>2. CASE node[t] = "TOLOAD" /\ NotifyAbort(t)
    BY <2>2, <1>t, AbortKeepsReached DEF Started
  <2>3. ASSUME NEW s \in {"TOACTIVATE", "ACTIVATED"}, SetState(t, s),
               node[t] \in {"TOLOAD", "TOACTIVATE"}
        PROVE  Reached'
    <3>1. node' = [node EXCEPT ![t] = node'[t]] /\ node'[t] = s /\ bloc' = bloc
      BY <2>3, <1>t DEF SetState, BlocTypeOK
    <3> QED BY <2>3, <3>1, <1>t, MoveKeepsReached DEF NodeStates, Ended
  <2> QED BY <2>1, <2>2, <2>3, <1>q
<1>6. ASSUME NEW t \in Tasks, Release(t)
      PROVE  Reached'
  BY <1>6, <1>q DEF Release
<1>7. ASSUME NEW t \in Tasks, NEW ok \in BOOLEAN, TaskEnd(t, ok)
      PROVE  Reached'
  <2>1. node[t] = "ACTIVATED" /\ (NotifyFinish(t) \/ NotifyAbort(t))
    BY <1>7 DEF TaskEnd, IInv, RunningConsistent
  <2> QED BY <2>1, <1>t, FinishKeepsReached, AbortKeepsReached DEF Started
<1>8. CASE SpuriousWakeup \/ UNCHANGED vars
  BY <1>8, <1>q DEF SpuriousWakeup
<1>9. CASE Pilot
  BY <1>9, <1>q
     DEF Pilot, PilotInside, SetExecMode, SetListOfBreakPoints, SetStopOnError,
         ResumeCurrentBreakPoint, SetStepsToExecute, WaitPause, StopExecution,
         SuspendASAP, StoreSteps, AllowEnd, StopResume, ResumeSuspended
<1> QED
  BY <1>1, <1>2, <1>3, <1>4, <1>5, <1>6, <1>7, <1>8, <1>9
     DEF Next, RunThread, TaskThread, Loading, Launching, Over

(* Whatever the graph, a failure reaches the nodes behind it and no other, *)
(* and the bloc is over exactly when all its nodes are.  (A bloc without   *)
(* nodes never gets a notification: it stays ACTIVATED.)                   *)
THEOREM OutcomeHolds ==
  ASSUME Tasks # {}
  PROVE  Spec => []BlocOutcome
<1>1. Init => Reached
  BY DEF Init, BlocInit, Reached, IsFinished, AllEnded, Ended, FailureReachesAfter
<1>2. IInv /\ Reached /\ [Next]_vars => Reached'
  BY ReachedStep
<1>3. Reached => BlocOutcome
  BY DEF Reached, BlocOutcome, OverWithItsNodes, FailureReachesAfter
<1> QED BY <1>1, <1>2, <1>3, InvCorrect, PTL DEF Spec

-----------------------------------------------------------------------------
(* Sleeping and pausing.                                                   *)

(* Condition variables wake up only if they are notified, or no pilot      *)
(* controls the run, which then never pauses.                              *)
Calm == ~Spurious \/ Commands = {}

(* Why the executor never sleeps for nothing: in a pause the thread of     *)
(* RunB waits for the pilot or is about to stop, and while it sleeps it    *)
(* has announced it, with a task still running that will see it.           *)
Watch ==
  /\ state # "WAITINGTASKS"
  /\ state = "NOTYETINITIALIZED" => pc \in {"init", "start"}
  /\ state = "PAUSED" => pc \in {"paused", "stopping"}
  /\ pc = "paused" => state = "PAUSED"
  /\ pc = "asleep" => isWaiting /\ running # {}
  /\ Commands = {} =>
       /\ mode = "CONTINUE" /\ ~stopOnError /\ pilotPc = "idle"
       /\ pc \notin {"step", "breakpoints", "paused", "resumed"}

LEMMA WatchStep ==
  ASSUME Calm, Watch, ETypeOK, [Next]_vars
  PROVE  Watch'
<1> USE DEF Watch, vars, blocVars, loopVars, modeVars, eventVars, stepVars, poolVars, pilotVars
<1>1. CASE Reset \/ Initialise \/ InitialiseFails
  BY <1>1 DEF Reset, Initialise, InitialiseFails
<1>2. CASE Sleep
  BY <1>2 DEF Sleep
<1>3. CASE Awake \/ Select \/ Check \/ Resumed \/ NextPhase
  BY <1>3 DEF Awake, Select, Check, Resumed, NextPhase
<1>4. CASE CheckStep \/ CheckBreakpoints
  BY <1>4 DEF CheckStep, CheckBreakpoints, Pause, AfterPause, NbOfThreads
<1>5. ASSUME NEW t \in Tasks, BeginLoad(t) \/ EndLoad(t) \/ Connect(t) \/ Launch(t)
      PROVE  Watch'
  BY <1>5 DEF BeginLoad, EndLoad, Connect, Launch
<1>6. CASE LoopEnd \/ Stopping
  BY <1>6 DEF LoopEnd, Stopping, NotifyPilot
<1>7. ASSUME NEW t \in Tasks, Release(t)
      PROVE  Watch'
  BY <1>7 DEF Release
<1>8. ASSUME NEW t \in Tasks, NEW ok \in BOOLEAN, TaskEnd(t, ok)
      PROVE  Watch'
  <2>1. /\ state' = state /\ pilotPc' = pilotPc
        /\ IF state # "PAUSED" THEN WakeUp ELSE UNCHANGED <<isWaiting, ended, pc>>
        /\ ~stopOnError => UNCHANGED <<mode, stopOnError>>
    BY <1>8 DEF TaskEnd, LastOfPause
  <2>2. CASE state = "PAUSED"
    BY <2>1, <2>2
  <2>3. CASE state # "PAUSED"
    BY <2>1, <2>3 DEF WakeUp
  <2> QED BY <2>2, <2>3
<1>9. CASE SpuriousWakeup
  BY <1>9 DEF SpuriousWakeup, Calm
<1>10. CASE Pilot
  <2> USE DEF Request
  <2>1. CASE ResumeCurrentBreakPoint \/ StopResume
    BY <2>1 DEF ResumeCurrentBreakPoint, StopResume, Resume, InPause
  <2>2. CASE SetExecMode \/ SetListOfBreakPoints \/ SetStopOnError
    BY <2>2 DEF SetExecMode, SetListOfBreakPoints, SetStopOnError
  <2>3. CASE SetStepsToExecute \/ StoreSteps
    BY <2>3 DEF SetStepsToExecute, StoreSteps
  <2>4. CASE WaitPause \/ StopExecution \/ AllowEnd
    BY <2>4 DEF WaitPause, StopExecution, AllowEnd
  <2>5. CASE SuspendASAP \/ ResumeSuspended
    BY <2>5 DEF SuspendASAP, ResumeSuspended
  <2> QED BY <1>10, <2>1, <2>2, <2>3, <2>4, <2>5 DEF Pilot, PilotInside
<1>11. CASE UNCHANGED vars
  BY <1>11
<1> QED
  BY <1>1, <1>2, <1>3, <1>4, <1>5, <1>6, <1>7, <1>8, <1>9, <1>10, <1>11
     DEF Next, RunThread, TaskThread, Loading, Launching, Over

LEMMA WatchCorrect ==
  ASSUME Calm
  PROVE  Spec => []Watch
<1>1. Init => Watch
  BY DEF Init, Watch
<1>2. Watch /\ ETypeOK /\ [Next]_vars => Watch'
  BY WatchStep
<1> QED BY <1>1, <1>2, TypeCorrect, PTL DEF Spec

(* In such a run no wakeup is lost: the executor sleeps only while a task  *)
(* runs.                                                                   *)
THEOREM NoWakeupLost ==
  ASSUME Calm
  PROVE  Spec => []AsleepHasRunning
<1>1. Watch => AsleepHasRunning
  BY DEF Watch, AsleepHasRunning
<1> QED BY <1>1, WatchCorrect, PTL

(* Under the same condition, no task starts in a pause, and a thread that  *)
(* waits for a resume says so.                                             *)
THEOREM PauseIsRespected ==
  ASSUME Calm
  PROVE  Spec => []WaitingIsVisible /\ NothingStartsInPause
<1>1. Watch => WaitingIsVisible
  BY DEF Watch, WaitingIsVisible, InPause
<1>2. Watch /\ ETypeOK /\ [Next]_vars =>
        [InPause /\ InPause' => running' \subseteq running]_vars
  <2> SUFFICES ASSUME Watch, ETypeOK, Next, InPause, NEW t \in running', t \notin running
               PROVE  FALSE
    BY DEF vars, eventVars
  <2>1. Launching
    <3> USE DEF blocVars, loopVars, modeVars, eventVars, stepVars, poolVars, pilotVars
    <3>1. CASE Reset \/ Initialise \/ InitialiseFails \/ Sleep \/ Awake \/ Select \/ Check
      BY <3>1 DEF Reset, Initialise, InitialiseFails, Sleep, Awake, Select, Check
    <3>2. CASE CheckStep \/ CheckBreakpoints \/ Resumed \/ NextPhase \/ LoopEnd \/ Stopping
      BY <3>2 DEF CheckStep, CheckBreakpoints, Resumed, NextPhase, LoopEnd, Stopping
    <3>3. CASE Loading
      BY <3>3 DEF Loading, BeginLoad, EndLoad, Connect
    <3>4. CASE \E u \in Tasks : TaskThread(u)
      BY <3>4 DEF TaskThread, Release, TaskEnd
    <3>5. CASE SpuriousWakeup \/ Over
      BY <3>5 DEF SpuriousWakeup, Over, vars
    <3>6. CASE Pilot
      BY <3>6
         DEF Pilot, PilotInside, SetExecMode, SetListOfBreakPoints, SetStopOnError,
             ResumeCurrentBreakPoint, SetStepsToExecute, WaitPause, StopExecution,
             SuspendASAP, StoreSteps, AllowEnd, StopResume, ResumeSuspended
    <3> QED BY <3>1, <3>2, <3>3, <3>4, <3>5, <3>6 DEF Next, RunThread
  <2>2. pc = "launching"
    BY <2>1 DEF Launching, Launch
  <2> QED BY <2>2 DEF Watch, InPause
<1> QED BY <1>1, <1>2, WatchCorrect, TypeCorrect, PTL DEF Spec, NothingStartsInPause

-----------------------------------------------------------------------------
(* Threads and workers: counted at the selection, used steps later.        *)

(* The parts of a turn between the selection and its end.                  *)
Phases == {"loading", "connecting", "launching"}
Turn == {"check", "step", "breakpoints", "paused", "resumed", "load"} \union Phases
Active == Turn \union {"loopEnd"}

(* The tasks that may still be launched in this turn.                      *)
Planned == tasks \union todo \union (IF pc = "paused" THEN tasksSave ELSE {})

(* A list of steps on its way holds tasks of the pause it was given in.    *)
Steps ==
  /\ pc \notin Phases => todo = {}
  /\ pilotPc = "steps" =>
       /\ "steps" \in Commands
       /\ \/ restricted = {}
          \/ pc = "paused" /\ restricted \subseteq tasksSave
          \/ pc \in {"stopping", "over"}

LEMMA StepsStep ==
  ASSUME Calm, ETypeOK, Watch, Shape, Steps, [Next]_vars
  PROVE  Steps'
<1> USE DEF Steps, Phases,
            vars, blocVars, loopVars, modeVars, eventVars, stepVars, poolVars, pilotVars
<1>1. CASE Reset \/ Initialise \/ InitialiseFails
  BY <1>1 DEF Reset, Initialise, InitialiseFails
<1>2. CASE Sleep \/ Awake \/ Select \/ Check \/ Resumed \/ Stopping
  BY <1>2 DEF Sleep, Awake, Select, Check, Resumed, Stopping
<1>3. CASE CheckStep \/ CheckBreakpoints
  BY <1>3 DEF CheckStep, CheckBreakpoints, Pause, AfterPause, NotifyPilot
<1>4. CASE NextPhase
  BY <1>4 DEF NextPhase
<1>5. ASSUME NEW t \in Tasks, BeginLoad(t) \/ EndLoad(t) \/ Connect(t) \/ Launch(t)
      PROVE  Steps'
  BY <1>5 DEF BeginLoad, EndLoad, Connect, Launch, Shape
<1>6. CASE LoopEnd
  BY <1>6 DEF LoopEnd, NotifyPilot
<1>7. ASSUME NEW t \in Tasks, Release(t) \/ TaskEnd(t, TRUE) \/ TaskEnd(t, FALSE)
      PROVE  Steps'
  BY <1>7 DEF Release, TaskEnd, LastOfPause, WakeUp, Watch
<1>8. CASE SpuriousWakeup
  BY <1>8 DEF SpuriousWakeup, Calm
<1>9. CASE Pilot
  <2> USE DEF Request
  <2>1. CASE ResumeCurrentBreakPoint \/ StopResume
    BY <2>1 DEF ResumeCurrentBreakPoint, StopResume, Resume
  <2>2. CASE SetExecMode \/ SetListOfBreakPoints \/ SetStopOnError
    BY <2>2 DEF SetExecMode, SetListOfBreakPoints, SetStopOnError
  <2>3. CASE SetStepsToExecute
    BY <2>3 DEF SetStepsToExecute, InPause, Watch
  <2>4. CASE WaitPause \/ StopExecution \/ AllowEnd \/ StoreSteps
    BY <2>4 DEF WaitPause, StopExecution, AllowEnd, StoreSteps
  <2>5. CASE SuspendASAP \/ ResumeSuspended
    BY <2>5 DEF SuspendASAP, ResumeSuspended
  <2> QED BY <1>9, <2>1, <2>2, <2>3, <2>4, <2>5 DEF Pilot, PilotInside
<1>10. CASE UNCHANGED vars
  BY <1>10
<1> QED
  BY <1>1, <1>2, <1>3, <1>4, <1>5, <1>6, <1>7, <1>8, <1>9, <1>10
     DEF Next, RunThread, TaskThread, Loading, Launching, Over

(* After the selection a turn plans no other task, and one that has none   *)
(* planned, loading or running leaves the graph alone.                     *)
SameTurn ==
  /\ pc \in Active /\ numberAll' = numberAll
  /\ Planned' \union running' \subseteq Planned \union running
  /\ Planned \union running \union loading = {} => UNCHANGED <<node, bloc, loading>>

LEMMA TurnStep ==
  ASSUME Calm, ETypeOK, Watch, Shape, Steps, [Next]_vars
  PROVE  /\ pc' \in Active => Select \/ SameTurn
         /\ pc' \notin Active => running' \subseteq running
<1> USE DEF Phases, Turn, Active, Planned, SameTurn,
            vars, blocVars, loopVars, modeVars, eventVars, stepVars, poolVars, pilotVars
<1> DEFINE Goal == /\ pc' \in Active => Select \/ SameTurn
                   /\ pc' \notin Active => running' \subseteq running
<1>1. CASE Reset \/ Initialise \/ InitialiseFails
  BY <1>1 DEF Reset, Initialise, InitialiseFails
<1>2. CASE Sleep \/ Awake \/ Stopping
  BY <1>2 DEF Sleep, Awake, Stopping
<1>3. CASE Check \/ Resumed
  BY <1>3 DEF Check, Resumed
<1>4. CASE Select
  BY <1>4 DEF Select
<1>5. CASE CheckStep \/ CheckBreakpoints
  BY <1>5 DEF CheckStep, CheckBreakpoints, Pause, AfterPause
<1>6. CASE NextPhase
  BY <1>6 DEF NextPhase
<1>7. ASSUME NEW t \in Tasks, BeginLoad(t) \/ EndLoad(t) \/ Connect(t) \/ Launch(t)
      PROVE  Goal
  <2>1. /\ t \in todo \union loading /\ pc \in Phases
        /\ pc' = pc /\ numberAll' = numberAll /\ tasks' = tasks /\ todo' \subseteq todo
        /\ running' = running \/ (running' = running \union {t} /\ t \in todo)
    BY <1>7 DEF BeginLoad, EndLoad, Connect, Launch, Shape
  <2> QED BY <2>1
<1>8. CASE LoopEnd
  BY <1>8 DEF LoopEnd
<1>9. ASSUME NEW t \in Tasks, Release(t) \/ TaskEnd(t, TRUE) \/ TaskEnd(t, FALSE)
      PROVE  Goal
  <2>1. /\ t \in running /\ running' \subseteq running
        /\ pc' = pc \/ (pc' = "woken" /\ pc = "asleep")
        /\ UNCHANGED <<tasks, tasksSave, todo, numberAll>>
    BY <1>9 DEF Release, TaskEnd, LastOfPause, WakeUp, Watch
  <2> QED BY <2>1
<1>10. CASE SpuriousWakeup
  BY <1>10 DEF SpuriousWakeup
<1>11. CASE Pilot
  <2>1. CASE ResumeCurrentBreakPoint \/ StopResume
    BY <2>1 DEF ResumeCurrentBreakPoint, StopResume, Resume
  <2>2. CASE SetExecMode \/ SetListOfBreakPoints \/ SetStopOnError
    BY <2>2 DEF SetExecMode, SetListOfBreakPoints, SetStopOnError
  <2>3. CASE SetStepsToExecute \/ StoreSteps
    BY <2>3 DEF SetStepsToExecute, StoreSteps, InPause, Steps, Watch
  <2>4. CASE WaitPause \/ StopExecution \/ AllowEnd
    BY <2>4 DEF WaitPause, StopExecution, AllowEnd
  <2>5. CASE SuspendASAP \/ ResumeSuspended
    BY <2>5 DEF SuspendASAP, ResumeSuspended
  <2> QED BY <1>11, <2>1, <2>2, <2>3, <2>4, <2>5 DEF Pilot, PilotInside
<1>12. CASE UNCHANGED vars
  BY <1>12
<1> QED
  BY <1>1, <1>2, <1>3, <1>4, <1>5, <1>6, <1>7, <1>8, <1>9, <1>10, <1>11, <1>12
     DEF Next, RunThread, TaskThread, Loading, Launching, Over

(* Fewer tasks, fewer of a pool.                                           *)
LEMMA PooledCount ==
  ASSUME NEW T \in SUBSET Tasks, NEW S \in SUBSET T, NEW p
  PROVE  /\ Cardinality(Pooled(T, p)) \in Nat
         /\ Cardinality(Pooled(S, p)) <= Cardinality(Pooled(T, p))
         /\ Cardinality(Pooled(T, p)) <= Cardinality(T)
<1>1. /\ Pooled(T, p) \in SUBSET T /\ Pooled(T, p) \in SUBSET Tasks
      /\ Pooled(S, p) \in SUBSET Pooled(T, p)
  BY DEF Pooled
<1> QED BY <1>1, TaskSets, FS_Subset

(* A selection from the ready tasks.                                       *)
Chosen(chosen) ==
  /\ Pooled(chosen, NoPool) \in FirstOf(Pooled(ReadyTasks, NoPool), FreeThreads)
  /\ \A p \in Pools :
       Pooled(chosen, p) \in FirstOf(Pooled(ReadyTasks, p), Workers[p] - occupied[p])

LEMMA ReadyAreIdle ==
  ASSUME IInv
  PROVE  /\ ReadyTasks \subseteq Tasks
         /\ \A t \in ReadyTasks : node[t] \in {"TOLOAD", "TOACTIVATE"} /\ t \notin running
BY DEF ReadyTasks, IInv, RunningConsistent

(* No more tasks are taken than there are threads for.                     *)
LEMMA ThreadsChosen ==
  ASSUME IInv, ThreadBound, NEW chosen \in SUBSET ReadyTasks, Chosen(chosen)
  PROVE  Cardinality(Pooled(chosen \union running, NoPool)) <= MaxNbThreads
<1> DEFINE C == Pooled(chosen, NoPool)
           R == Pooled(running, NoPool)
<1>1. running \in SUBSET Tasks /\ chosen \in SUBSET Tasks /\ ReadyTasks \in SUBSET Tasks
  BY ReadyAreIdle DEF IInv, ETypeOK
<1>2. /\ C \in SUBSET Tasks /\ R \in SUBSET Tasks
      /\ C \intersect R = {} /\ Pooled(chosen \union running, NoPool) = C \union R
  BY <1>1, ReadyAreIdle DEF Pooled
<1>3. Cardinality(C \union R) = Cardinality(C) + Cardinality(R)
  BY <1>2, TaskSets, FS_Union, FS_EmptySet
<1>4. /\ Cardinality(R) <= Cardinality(running) /\ Cardinality(C) \in Nat
      /\ Cardinality(R) \in Nat /\ Cardinality(running) \in Nat
  BY <1>1, <1>2, PooledCount, TaskSets
<1>5. Cardinality(C) <= FreeThreads
  <2>1. Cardinality(Pooled(ReadyTasks, NoPool)) \in Nat /\ FreeThreads \in Nat
    BY <1>1, <1>4, PooledCount, ExecutorAssumption DEF FreeThreads
  <2> HIDE DEF C
  <2> QED BY <2>1 DEF Chosen, FirstOf, C
<1>6. MaxNbThreads \in Nat /\ Cardinality(R) <= MaxNbThreads
  BY ExecutorAssumption DEF ThreadBound
<1>7. Cardinality(C) + Cardinality(R) <= MaxNbThreads
  <2> HIDE DEF C, R
  <2> QED BY <1>4, <1>5, <1>6 DEF FreeThreads
<1> QED BY <1>2, <1>3, <1>7

(* The strengthening of ThreadBound: the tasks to be launched count.       *)
Threads ==
  /\ ThreadBound
  /\ pc \in Active => Cardinality(Pooled(Planned \union running, NoPool)) <= MaxNbThreads

LEMMA SelectChooses ==
  ASSUME Select
  PROVE  \E chosen \in SUBSET ReadyTasks :
           /\ Chosen(chosen) /\ tasks' = chosen
           /\ numberAll' = Cardinality(running) + Cardinality(chosen)
           /\ occupied' = [p \in Pools |-> occupied[p] + Cardinality(Pooled(chosen, p))]
           /\ held' = held \union {t \in chosen : PoolOf[t] # NoPool}
BY DEF Select, Chosen

LEMMA ThreadsStep ==
  ASSUME Calm, IInv, Watch, Steps, Threads, [Next]_vars
  PROVE  Threads'
<1>t. ETypeOK /\ ETypeOK' /\ Shape
  BY TypeStep DEF IInv
<1>p. Planned \union running \in SUBSET Tasks /\ Planned' \union running' \in SUBSET Tasks
  BY <1>t DEF ETypeOK, Planned
<1>1. CASE Select
  <2>1. PICK chosen \in SUBSET ReadyTasks : Chosen(chosen) /\ tasks' = chosen
    BY <1>1, SelectChooses
  <2>2. Planned' = chosen /\ running' = running
    BY <1>1, <2>1 DEF Select, Steps, Phases, loopVars, eventVars, Planned
  <2>3. Cardinality(Pooled(Planned' \union running', NoPool)) <= MaxNbThreads
    BY <2>1, <2>2, ThreadsChosen DEF Threads
  <2>4. Cardinality(Pooled(running', NoPool)) <= MaxNbThreads
    BY <2>2 DEF Threads, ThreadBound
  <2> QED BY <2>3, <2>4 DEF Threads, ThreadBound, Pooled
<1>2. CASE pc' \in Active /\ ~Select
  <2>1. SameTurn
    BY <1>2, <1>t, TurnStep
  <2>2. Cardinality(Pooled(Planned' \union running', NoPool)) <= MaxNbThreads
    <3>1. /\ Cardinality(Pooled(Planned' \union running', NoPool))
               <= Cardinality(Pooled(Planned \union running, NoPool))
          /\ Cardinality(Pooled(Planned' \union running', NoPool)) \in Nat
          /\ Cardinality(Pooled(Planned \union running, NoPool)) \in Nat
      BY <2>1, <1>p, PooledCount DEF SameTurn
    <3>2. Cardinality(Pooled(Planned \union running, NoPool)) <= MaxNbThreads
      BY <2>1 DEF SameTurn, Threads
    <3> QED BY <3>1, <3>2, ExecutorAssumption
  <2>3. /\ Cardinality(Pooled(running', NoPool))
             <= Cardinality(Pooled(Planned' \union running', NoPool))
        /\ Cardinality(Pooled(running', NoPool)) \in Nat
        /\ Cardinality(Pooled(Planned' \union running', NoPool)) \in Nat
    <3>1. running' \in SUBSET (Planned' \union running') /\ running' \in SUBSET Tasks
      BY <1>p
    <3> QED BY <3>1, <1>p, PooledCount
  <2>4. ThreadBound'
    BY <2>2, <2>3, ExecutorAssumption DEF ThreadBound, Pooled
  <2> QED BY <2>2, <2>4 DEF Threads, Pooled
<1>3. CASE pc' \notin Active
  <2>1. running' \in SUBSET running /\ running \in SUBSET Tasks
    BY <1>3, <1>t, <1>p, TurnStep
  <2>2. /\ Cardinality(Pooled(running', NoPool)) <= Cardinality(Pooled(running, NoPool))
        /\ Cardinality(Pooled(running', NoPool)) \in Nat
        /\ Cardinality(Pooled(running, NoPool)) \in Nat
    BY <2>1, PooledCount
  <2>3. ThreadBound'
    BY <2>2, ExecutorAssumption DEF Threads, ThreadBound, Pooled
  <2> QED BY <1>3, <2>3 DEF Threads, Active
<1> QED BY <1>1, <1>2, <1>3

(* A task of a pool that could not be loaded or connected, or that the     *)
(* pilot deselects, keeps its worker: no run does that.                    *)
PoolsKept ==
  \A t \in Tasks :
    PoolOf[t] # NoPool => Failures[t] \subseteq {"execute"} /\ "steps" \notin Commands

HasWorker == held \ running

(* The strengthening of WorkersAccounted: a task that holds a worker and   *)
(* does not run yet is on its way through the phases of the turn.          *)
Kept ==
  /\ \A t \in held : PoolOf[t] # NoPool
  /\ WorkersAccounted
  /\ pc \notin Turn \union {"stopping", "over"} => HasWorker = {}
  /\ pc \in Turn => \A t \in HasWorker : node[t] \in {"TOLOAD", "TOACTIVATE"}
  /\ pc = "connecting" => \A t \in HasWorker : t \in todo \/ node[t] = "TOACTIVATE"
  /\ pc = "launching" => \A t \in HasWorker : t \in todo /\ node[t] = "TOACTIVATE"

(* The selection fills no pool beyond its size.                            *)
LEMMA WorkersChosen ==
  ASSUME IInv, Kept, HasWorker = {}, NEW chosen \in SUBSET ReadyTasks, Chosen(chosen),
         held' = held \union {t \in chosen : PoolOf[t] # NoPool},
         occupied' = [p \in Pools |-> occupied[p] + Cardinality(Pooled(chosen, p))],
         NEW p \in Pools
  PROVE  occupied'[p] = Cardinality(Pooled(held', p)) /\ occupied'[p] <= Workers[p]
<1> DEFINE C == Pooled(chosen, p)
           H == Pooled(held, p)
<1>1. held \in SUBSET Tasks /\ chosen \in SUBSET Tasks /\ ReadyTasks \in SUBSET Tasks
  BY ReadyAreIdle DEF IInv, ETypeOK
<1>2. /\ C \in SUBSET Tasks /\ H \in SUBSET Tasks
      /\ C \intersect H = {}
      /\ Pooled(held', p) = C \union H
  BY <1>1, ReadyAreIdle, ExecutorAssumption DEF Pooled, HasWorker
<1>3. Cardinality(C \union H) = Cardinality(C) + Cardinality(H)
  <2>1. /\ IsFiniteSet(C) /\ IsFiniteSet(H)
        /\ Cardinality(C) \in Nat /\ Cardinality(H) \in Nat
    BY <1>2, TaskSets
  <2>2. Cardinality(C \intersect H) = 0
    BY <1>2, FS_EmptySet
  <2>3. Cardinality(C \union H) = Cardinality(C) + Cardinality(H) - Cardinality(C \intersect H)
    BY <2>1, FS_Union
  <2> QED BY <2>1, <2>2, <2>3
<1>4. occupied[p] = Cardinality(H) /\ occupied[p] <= Workers[p]
  BY DEF Kept, WorkersAccounted
<1>5. Cardinality(C) \in Nat /\ Cardinality(H) \in Nat /\ Workers[p] \in Nat
  BY <1>2, TaskSets, ExecutorAssumption
<1>6. Cardinality(C) <= Workers[p] - occupied[p]
  <2>1. Cardinality(Pooled(ReadyTasks, p)) \in Nat
    BY <1>1, PooledCount
  <2> HIDE DEF C, H
  <2> QED BY <2>1, <1>4, <1>5 DEF Chosen, FirstOf, C
<1>7. occupied'[p] = occupied[p] + Cardinality(C)
  OBVIOUS
<1>8. Cardinality(C) + Cardinality(H) = occupied'[p] /\ occupied'[p] <= Workers[p]
  <2> HIDE DEF C, H
  <2> QED BY <1>4, <1>5, <1>6, <1>7
<1> QED BY <1>2, <1>3, <1>8

(* A step that gives no worker and takes none back.                        *)
LEMMA KeptMove ==
  ASSUME Kept, UNCHANGED <<occupied, held, tasks>>, HasWorker' \subseteq HasWorker,
         pc' \notin Turn \union {"stopping", "over"} => HasWorker' = {},
         pc' \in Turn => \A t \in HasWorker' : node'[t] \in {"TOLOAD", "TOACTIVATE"},
         pc' = "connecting" => \A t \in HasWorker' : t \in todo' \/ node'[t] = "TOACTIVATE",
         pc' = "launching" => \A t \in HasWorker' : t \in todo' /\ node'[t] = "TOACTIVATE"
  PROVE  Kept'
<1>1. WorkersAccounted'
  BY DEF Kept, WorkersAccounted, Pooled, HasWorker
<1> QED BY <1>1 DEF Kept

LEMMA KeptStep ==
  ASSUME Calm, PoolsKept, IInv, Watch, Steps, Kept, [Next]_vars
  PROVE  Kept'
<1> USE DEF Phases, Turn, HasWorker,
            vars, blocVars, loopVars, modeVars, eventVars, stepVars, poolVars, pilotVars
<1>t. ETypeOK /\ ETypeOK' /\ Shape /\ BlocTypeOK
  BY TypeStep DEF IInv, ETypeOK
<1>h. \A t \in held : t \in Tasks /\ PoolOf[t] \in Pools /\ (t \in running \/ t \in tasks)
  BY <1>t, ExecutorAssumption DEF ETypeOK, Kept, WorkersAccounted
<1>f. \A t \in held : Failures[t] \subseteq {"execute"} /\ "steps" \notin Commands
  BY <1>h DEF PoolsKept, Kept
<1>1. CASE Reset \/ Initialise \/ InitialiseFails
  <2>1. running' = running
    BY <1>1 DEF Reset, Initialise, InitialiseFails, Shape, BlocInit, IInv, RunningConsistent
  <2> QED BY <1>1, <2>1, KeptMove DEF Reset, Initialise, InitialiseFails, Kept
<1>2. CASE Sleep \/ Awake \/ LoopEnd \/ Stopping
  BY <1>2, KeptMove DEF Sleep, Awake, LoopEnd, Stopping, Kept
<1>3. CASE Check
  <2>1. state = "RUNNING"
    BY <1>3, <1>t DEF Check, Watch, Shape, Finals, ETypeOK
  <2> QED BY <1>3, <2>1, KeptMove DEF Check, Kept
<1>4. CASE Select
  <2>1. PICK chosen \in SUBSET ReadyTasks :
          /\ Chosen(chosen) /\ tasks' = chosen
          /\ occupied' = [p \in Pools |-> occupied[p] + Cardinality(Pooled(chosen, p))]
          /\ held' = held \union {t \in chosen : PoolOf[t] # NoPool}
    BY <1>4, SelectChooses
  <2>2. HasWorker = {} /\ pc' = "check" /\ UNCHANGED <<node, running>>
    BY <1>4 DEF Select, Kept
  <2>3. \A p \in Pools : occupied'[p] = Cardinality(Pooled(held', p)) /\ occupied'[p] <= Workers[p]
    BY <2>1, <2>2, WorkersChosen
  <2>4. WorkersAccounted'
    BY <2>1, <2>2, <2>3 DEF WorkersAccounted, Pooled
  <2>5. \A t \in HasWorker' : node'[t] \in {"TOLOAD", "TOACTIVATE"}
    BY <2>1, <2>2, ReadyAreIdle
  <2> QED BY <2>1, <2>2, <2>4, <2>5 DEF Kept
<1>5. CASE CheckStep \/ CheckBreakpoints \/ Resumed
  BY <1>5, KeptMove DEF CheckStep, CheckBreakpoints, Resumed, Pause, AfterPause, Kept
<1>6. CASE NextPhase
  BY <1>6, <1>h, KeptMove DEF NextPhase, Kept
<1>7. ASSUME NEW t \in Tasks, BeginLoad(t)
      PROVE  Kept'
  BY <1>7, KeptMove DEF BeginLoad, NotifyStart, Kept
<1>8. ASSUME NEW t \in Tasks, EndLoad(t) \/ Connect(t)
      PROVE  Kept'
  <2>1. /\ pc \in {"loading", "connecting"} /\ UNCHANGED <<pc, running, occupied, held, tasks>>
        /\ todo' = todo \/ (pc = "connecting" /\ todo' = todo \ {t})
        /\ \/ UNCHANGED blocVars /\ (todo' = todo \/ node[t] # "TOLOAD")
           \/ node[t] = "TOLOAD" /\ SetState(t, "TOACTIVATE")
           \/ /\ node[t] = "TOLOAD" /\ NotifyAbort(t)
              /\ Failures[t] \intersect {"load", "connect"} # {}
    <3>1. CASE EndLoad(t)
      BY <1>t, <3>1 DEF EndLoad, Shape
    <3>2. CASE Connect(t)
      BY <3>2 DEF Connect
    <3> QED BY <1>8, <3>1, <3>2
  <2>2. CASE UNCHANGED blocVars /\ (todo' = todo \/ node[t] # "TOLOAD")
    BY <2>1, <2>2, KeptMove DEF Kept
  <2>3. CASE node[t] = "TOLOAD" /\ SetState(t, "TOACTIVATE")
    <3>1. node' = [node EXCEPT ![t] = "TOACTIVATE"]
      BY <2>3 DEF SetState
    <3>2. \A u \in Tasks : node'[u] = IF u = t THEN "TOACTIVATE" ELSE node[u]
      BY <3>1, <1>t DEF BlocTypeOK
    <3> QED BY <2>1, <3>2, <1>h, KeptMove DEF Kept
  <2>4. CASE node[t] = "TOLOAD" /\ NotifyAbort(t) /\ Failures[t] \intersect {"load", "connect"} # {}
    <3>1. OthersStay(t)
      BY <2>4, <1>t, AbortKeepsOrder DEF IInv, Started
    <3>2. t \notin held
      BY <2>4, <1>f
    <3>3. \A u \in HasWorker : node'[u] = node[u]
      BY <3>1, <3>2, <2>1, <1>h DEF OthersStay, Started, Kept
    <3> QED BY <2>1, <3>2, <3>3, KeptMove DEF Kept
  <2> QED BY <2>1, <2>2, <2>3, <2>4
<1>9. ASSUME NEW t \in Tasks, Launch(t)
      PROVE  Kept'
  <2>1. CASE node[t] # "TOACTIVATE"
    BY <1>9, <2>1, KeptMove DEF Launch, Kept
  <2>2. CASE node[t] = "TOACTIVATE"
    <3>1. /\ pc = "launching" /\ UNCHANGED <<pc, occupied, held, tasks>>
          /\ todo' = todo \ {t} /\ running' = running \union {t}
          /\ node' = [node EXCEPT ![t] = "ACTIVATED"]
      BY <1>9, <2>2 DEF Launch, SetState
    <3>2. \A u \in Tasks \ {t} : node'[u] = node[u]
      BY <3>1, <1>t DEF BlocTypeOK
    <3> QED BY <3>1, <3>2, <1>h, KeptMove DEF Kept
  <2> QED BY <2>1, <2>2
<1>10. ASSUME NEW t \in Tasks, Release(t)
       PROVE  Kept'
  <2>1. /\ t \in running /\ t \in held /\ held' = held \ {t}
        /\ occupied' = [occupied EXCEPT ![PoolOf[t]] = @ - 1]
        /\ UNCHANGED <<node, pc, todo, running, tasks>>
    BY <1>10 DEF Release
  <2>2. ASSUME NEW p \in Pools
        PROVE  occupied'[p] = Cardinality(Pooled(held', p)) /\ occupied'[p] <= Workers[p]
    <3>1. /\ Pooled(held', p) = IF p = PoolOf[t] THEN Pooled(held, p) \ {t} ELSE Pooled(held, p)
          /\ Pooled(held, p) \in SUBSET Tasks
          /\ p = PoolOf[t] => t \in Pooled(held, p)
      BY <2>1, <1>h DEF Pooled
    <3>2. occupied'[p] = IF p = PoolOf[t] THEN occupied[p] - 1 ELSE occupied[p]
      BY <2>1, <1>t DEF ETypeOK
    <3>3. Cardinality(Pooled(held', p))
            = IF p = PoolOf[t] THEN Cardinality(Pooled(held, p)) - 1 ELSE Cardinality(Pooled(held, p))
      BY <3>1, TaskSets, FS_RemoveElement
    <3>4. occupied[p] = Cardinality(Pooled(held, p)) /\ occupied[p] <= Workers[p]
      BY DEF Kept, WorkersAccounted
    <3>5. Cardinality(Pooled(held, p)) \in Nat /\ Workers[p] \in Nat
      BY <3>1, TaskSets, ExecutorAssumption
    <3> QED BY <3>2, <3>3, <3>4, <3>5
  <2>3. WorkersAccounted'
    BY <2>1, <2>2 DEF Kept, WorkersAccounted, Pooled
  <2> QED BY <2>1, <2>3 DEF Kept
<1>11. ASSUME NEW t \in Tasks, NEW ok \in BOOLEAN, TaskEnd(t, ok)
       PROVE  Kept'
  <2>1. /\ t \in running /\ t \notin held /\ running' = running \ {t}
        /\ UNCHANGED <<occupied, held, tasks, todo>>
        /\ pc' = pc \/ (pc = "asleep" /\ pc' = "woken")
        /\ NotifyFinish(t) \/ NotifyAbort(t)
    BY <1>11 DEF TaskEnd, LastOfPause, WakeUp, Watch
  <2>2. node[t] = "ACTIVATED" /\ Ordered
    BY <2>1 DEF IInv, RunningConsistent
  <2>3. OthersStay(t)
    BY <2>1, <2>2, <1>t, FinishKeepsOrder, AbortKeepsOrder DEF Started
  <2>4. HasWorker' = HasWorker
    BY <2>1
  <2>5. pc \in Turn => \A u \in HasWorker : node'[u] = node[u]
    BY <2>1, <2>3, <1>h DEF OthersStay, Started, Kept
  <2> QED BY <2>1, <2>4, <2>5, KeptMove DEF Kept
<1>12. CASE SpuriousWakeup
  BY <1>12, KeptMove DEF SpuriousWakeup, Kept
<1>13. CASE Pilot
  <2>1. CASE ResumeCurrentBreakPoint \/ StopResume
    BY <2>1, KeptMove DEF ResumeCurrentBreakPoint, StopResume, Resume, Kept
  <2>2. CASE SetExecMode \/ SetListOfBreakPoints \/ SetStopOnError
    BY <2>2, KeptMove DEF SetExecMode, SetListOfBreakPoints, SetStopOnError, Kept
  <2>3. CASE SetStepsToExecute \/ StoreSteps
    <3>1. "steps" \in Commands
      BY <2>3 DEF SetStepsToExecute, Request, StoreSteps, Steps
    <3>2. held = {} /\ UNCHANGED <<pc, occupied, held>>
      BY <2>3, <3>1, <1>f DEF SetStepsToExecute, StoreSteps
    <3> QED BY <3>2 DEF Kept, WorkersAccounted, Pooled
  <2>4. CASE WaitPause \/ StopExecution \/ AllowEnd
    BY <2>4, KeptMove DEF WaitPause, StopExecution, AllowEnd, Kept
  <2>5. CASE SuspendASAP \/ ResumeSuspended
    BY <2>5, KeptMove DEF SuspendASAP, ResumeSuspended, Kept
  <2> QED BY <1>13, <2>1, <2>2, <2>3, <2>4, <2>5 DEF Pilot, PilotInside
<1>14. CASE UNCHANGED vars
  BY <1>14, KeptMove DEF Kept
<1> QED
  BY <1>1, <1>2, <1>3, <1>4, <1>5, <1>6, <1>7, <1>8, <1>9, <1>10, <1>11, <1>12, <1>13, <1>14
     DEF Next, RunThread, TaskThread, Loading, Launching, Over

(* The graph is left alone by a run that is over and runs no task; only    *)
(* the end of a turn and a refused start finish a run.                     *)
LEMMA EndStep ==
  ASSUME Calm, ETypeOK, Watch, Shape, [Next]_vars
  PROVE  \/ Reset \/ InitialiseFails \/ LoopEnd \/ Stopping
         \/ /\ toContinue' = toContinue
            /\ pc' = "over" <=> pc = "over"
            /\ state' = "FINISHED" <=> state = "FINISHED"
            /\ pc = "over" /\ running = {} => UNCHANGED <<node, bloc, running>>
<1> DEFINE Goes == /\ toContinue' = toContinue
                   /\ pc' = "over" <=> pc = "over"
                   /\ state' = "FINISHED" <=> state = "FINISHED"
                   /\ pc = "over" /\ running = {} => UNCHANGED <<node, bloc, running>>
<1> USE DEF Shape, Watch, Finals,
            vars, blocVars, loopVars, modeVars, eventVars, stepVars, poolVars, pilotVars
<1>1. CASE Initialise \/ Sleep \/ Awake \/ Select \/ Check \/ Resumed \/ NextPhase
  BY <1>1 DEF Initialise, Sleep, Awake, Select, Check, Resumed, NextPhase
<1>2. CASE CheckStep \/ CheckBreakpoints
  BY <1>2 DEF CheckStep, CheckBreakpoints, Pause, AfterPause
<1>3. ASSUME NEW t \in Tasks, BeginLoad(t) \/ EndLoad(t) \/ Connect(t) \/ Launch(t)
      PROVE  Goes
  <2>1. /\ pc \in {"loading", "connecting", "launching"} /\ pc' = pc
        /\ toContinue' = toContinue /\ state' = state
    BY <1>3 DEF BeginLoad, EndLoad, Connect, Launch
  <2> QED BY <2>1
<1>4. ASSUME NEW t \in Tasks, Release(t) \/ TaskEnd(t, TRUE) \/ TaskEnd(t, FALSE)
      PROVE  Goes
  BY <1>4 DEF Release, TaskEnd, LastOfPause, WakeUp
<1>5. CASE SpuriousWakeup
  BY <1>5 DEF SpuriousWakeup
<1>6. CASE Pilot
  <2>1. CASE ResumeCurrentBreakPoint \/ StopResume
    BY <2>1 DEF ResumeCurrentBreakPoint, StopResume, Resume, InPause
  <2>2. CASE SetExecMode \/ SetListOfBreakPoints \/ SetStopOnError
    BY <2>2 DEF SetExecMode, SetListOfBreakPoints, SetStopOnError
  <2>3. CASE SetStepsToExecute \/ StoreSteps
    BY <2>3 DEF SetStepsToExecute, StoreSteps
  <2>4. CASE WaitPause \/ StopExecution \/ AllowEnd
    BY <2>4 DEF WaitPause, StopExecution, AllowEnd
  <2>5. CASE SuspendASAP \/ ResumeSuspended
    BY <2>5 DEF SuspendASAP, ResumeSuspended
  <2> QED BY <1>6, <2>1, <2>2, <2>3, <2>4, <2>5 DEF Pilot, PilotInside
<1>7. CASE UNCHANGED vars
  BY <1>7
<1> QED
  BY <1>1, <1>2, <1>3, <1>4, <1>5, <1>6, <1>7
     DEF Next, RunThread, TaskThread, Loading, Launching, Over

(* A selection that takes nothing while nothing runs leaves nothing: there *)
(* is a thread, or a worker, for any ready task.                           *)
LEMMA NoneChosen ==
  ASSUME MaxNbThreads > 0, \A p \in Pools : Workers[p] > 0,
         IInv, Kept, HasWorker = {}, running = {}, Chosen({})
  PROVE  ReadyTasks = {}
<1> SUFFICES ASSUME NEW t \in ReadyTasks PROVE FALSE
  OBVIOUS
<1> DEFINE p == PoolOf[t]
           R == Pooled(ReadyTasks, p)
<1>1. t \in Tasks /\ R \in SUBSET Tasks /\ t \in R
  BY ReadyAreIdle DEF Pooled
<1>2. Cardinality(R) \in Nat /\ Cardinality(R) # 0
  BY <1>1, TaskSets, FS_EmptySet
<1>3. Cardinality({}) = 0 /\ Pooled({}, p) = {}
  BY FS_EmptySet DEF Pooled
<1>4. CASE p = NoPool
  <2>1. FreeThreads = MaxNbThreads
    BY <1>3, ExecutorAssumption DEF FreeThreads
  <2>2. Pooled({}, p) \in FirstOf(R, MaxNbThreads)
    BY <1>4, <2>1 DEF Chosen
  <2> HIDE DEF p, R
  <2> QED BY <2>2, <1>2, <1>3, ExecutorAssumption DEF FirstOf
<1>5. CASE p # NoPool
  <2>1. p \in Pools
    BY <1>1, <1>5, ExecutorAssumption
  <2>2. occupied[p] = 0
    <3>1. Pooled(held, p) = {}
      BY DEF HasWorker, Pooled
    <3> QED BY <2>1, <3>1, <1>3 DEF Kept, WorkersAccounted
  <2>3. Pooled({}, p) \in FirstOf(R, Workers[p] - 0) /\ Workers[p] \in Nat
    BY <2>1, <2>2, ExecutorAssumption DEF Chosen
  <2> HIDE DEF p, R
  <2> QED BY <2>1, <2>3, <1>2, <1>3 DEF FirstOf
<1> QED BY <1>4, <1>5

(* The strengthening of FinishedMeansOver: a turn that counted no task has *)
(* none, and the loop is left only at its end or by the request to stop.   *)
Idle ==
  /\ pc # "over" => toContinue
  /\ pc \in Active /\ numberAll = 0 =>
       Planned \union running \union loading = {} /\ ReadyTasks = {}
  /\ FinishedMeansOver

LEMMA IdleStep ==
  ASSUME Calm, PoolsKept, MaxNbThreads > 0, \A p \in Pools : Workers[p] > 0,
         IInv, Watch, Steps, Kept, Idle, [Next]_vars
  PROVE  Idle'
<1>t. ETypeOK /\ Shape
  BY DEF IInv
<1>1. pc' # "over" => toContinue'
  BY <1>t, EndStep DEF Idle, Reset, InitialiseFails, LoopEnd, Stopping
<1>2. ASSUME pc' \in Active, numberAll' = 0
      PROVE  Planned' \union running' \union loading' = {} /\ ReadyTasks' = {}
  <2>1. CASE Select
    <3>1. PICK chosen \in SUBSET ReadyTasks :
            /\ Chosen(chosen) /\ tasks' = chosen
            /\ numberAll' = Cardinality(running) + Cardinality(chosen)
      BY <2>1, SelectChooses
    <3>2. chosen \in SUBSET Tasks /\ running \in SUBSET Tasks
      BY <1>t, ReadyAreIdle DEF ETypeOK
    <3>3. Cardinality(running) \in Nat /\ Cardinality(chosen) \in Nat
      BY <3>2, TaskSets
    <3>4. Cardinality(running) = 0 /\ Cardinality(chosen) = 0
      BY <3>1, <3>3, <1>2
    <3>5. running = {} /\ chosen = {}
      BY <3>2, <3>4, TaskSets, FS_EmptySet
    <3>6. HasWorker = {}
      BY <2>1 DEF Select, Kept, Turn, Phases
    <3>7. ReadyTasks = {}
      BY <3>1, <3>5, <3>6, NoneChosen
    <3>8. /\ UNCHANGED <<node, bloc, running, loading, todo>>
          /\ pc' = "check" /\ loading = {} /\ todo = {}
      BY <2>1, <1>t DEF Select, blocVars, eventVars, Shape, Steps, Phases
    <3> QED BY <3>1, <3>5, <3>7, <3>8 DEF Planned, ReadyTasks
  <2>2. CASE ~Select
    <3>1. SameTurn
      BY <1>2, <2>2, <1>t, TurnStep
    <3>2. Planned \union running \union loading = {} /\ ReadyTasks = {}
      BY <1>2, <3>1 DEF SameTurn, Idle
    <3> QED BY <3>1, <3>2 DEF SameTurn, ReadyTasks
  <2> QED BY <2>1, <2>2
<1>3. FinishedMeansOver'
  <2>1. CASE Reset \/ Stopping
    BY <2>1 DEF Reset, Stopping, FinishedMeansOver
  <2>2. CASE InitialiseFails
    <3>1. running' = {}
      BY <2>2, <1>t
         DEF InitialiseFails, Shape, BlocInit, IInv, RunningConsistent, eventVars
    <3>2. PICK bad \in Sources \intersect Invalid : \E us \in SUBSET (Sources \ {bad}) :
            node' = [ExUpdateState(node, us) EXCEPT ![bad] = "INTERNALERR"]
      BY <2>2 DEF InitialiseFails, ExStartFails
    <3>3. bad \in Tasks /\ node'[bad] = "INTERNALERR"
      BY <3>2 DEF ExUpdateState, Sources
    <3> QED BY <3>1, <3>3 DEF FinishedMeansOver, Refused
  <2>3. CASE LoopEnd
    <3>1. /\ pc = "loopEnd" /\ UNCHANGED <<node, bloc, running>>
          /\ toContinue' = FALSE \/ state' = state
      BY <2>3 DEF LoopEnd, blocVars, eventVars
    <3>2. toContinue /\ state # "FINISHED"
      BY <3>1, <1>t DEF Idle, Shape, Finals
    <3>3. CASE toContinue' = FALSE
      <4>1. ~More \/ numberAll = 0
        BY <2>3, <3>3 DEF LoopEnd
      <4>2. running = {} /\ (IsFinished \/ ReadyTasks = {})
        BY <4>1, <3>1, <3>2 DEF More, Idle, Active
      <4> QED BY <4>2, <3>1 DEF IsFinished, ReadyTasks, FinishedMeansOver
    <3> QED BY <3>1, <3>2, <3>3 DEF FinishedMeansOver
  <2>4. CASE ~(Reset \/ Stopping \/ InitialiseFails \/ LoopEnd) /\ state' = "FINISHED"
    <3>1. state = "FINISHED" /\ pc = "over"
      BY <2>4, <1>t, EndStep DEF Shape, Finals
    <3>2. UNCHANGED <<node, bloc, running>>
      BY <2>4, <3>1, <1>t, EndStep DEF Idle, FinishedMeansOver
    <3> QED BY <3>1, <3>2 DEF Idle, FinishedMeansOver, ReadyTasks, Refused
  <2> QED BY <2>1, <2>2, <2>3, <2>4 DEF FinishedMeansOver
<1> QED BY <1>1, <1>2, <1>3 DEF Idle

LEMMA LimitsInit == Init => Steps /\ Threads /\ Kept /\ Idle
<1> SUFFICES ASSUME Init PROVE Steps /\ Threads /\ Kept /\ Idle
  OBVIOUS
<1>1. Steps /\ Idle
  BY DEF Init, Steps, Phases, Active, Turn, Idle, FinishedMeansOver
<1>2. running = {} /\ held = {} /\ pc = "init" /\ occupied = [p \in Pools |-> 0]
  BY DEF Init
<1>3. \A p \in Pools \union {NoPool} : Cardinality(Pooled({}, p)) = 0
  BY FS_EmptySet DEF Pooled
<1>4. Threads
  BY <1>2, <1>3, ExecutorAssumption DEF Threads, ThreadBound, Active, Turn, Phases
<1>5. WorkersAccounted
  BY <1>2, <1>3, ExecutorAssumption DEF WorkersAccounted
<1>6. Kept
  BY <1>2, <1>5 DEF Kept, HasWorker, Turn, Phases
<1> QED BY <1>1, <1>4, <1>6

(* Outside of the pools no more tasks run than setMaxNbOfThreads allows,   *)
(* and the workers of each pool are held by tasks selected in this turn or *)
(* running, one each and no more than the pool has, whatever the graph,    *)
(* when its tasks that share a pool keep their workers.                    *)
THEOREM LimitsHold ==
  ASSUME Calm, PoolsKept
  PROVE  Spec => []LimitsRespected
<1>1. Init => Watch /\ Steps /\ Threads /\ Kept
  BY LimitsInit DEF Init, Watch
<1>2. /\ IInv /\ Watch /\ Steps /\ Threads /\ Kept
      /\ [Next]_vars
      => Steps' /\ Threads' /\ Kept'
  BY StepsStep, ThreadsStep, KeptStep DEF IInv
<1>3. Threads /\ Kept => LimitsRespected
  BY DEF Threads, Kept, LimitsRespected
<1> QED BY <1>1, <1>2, <1>3, InvCorrect, WatchCorrect, PTL DEF Spec

(* Under the same conditions, and with a thread and workers to run tasks,  *)
(* a run says FINISHED only when no task runs and none is ready, however   *)
(* its tasks fail, unless the graph was refused before it began.           *)
THEOREM FinishedIsOver ==
  ASSUME Calm, PoolsKept, MaxNbThreads > 0, \A p \in Pools : Workers[p] > 0
  PROVE  Spec => []FinishedMeansOver
<1>1. Init => Steps /\ Kept /\ Idle
  BY LimitsInit
<1>2. /\ IInv /\ Watch /\ Steps /\ Kept /\ Idle
      /\ [Next]_vars
      => Steps' /\ Kept' /\ Idle'
  BY StepsStep, KeptStep, IdleStep DEF IInv
<1>3. Idle => FinishedMeansOver
  BY DEF Idle
<1> QED BY <1>1, <1>2, <1>3, InvCorrect, WatchCorrect, PTL DEF Spec

-----------------------------------------------------------------------------
(* The executor implements Workflow: what its threads do to the graph is a *)
(* step of the abstract run, or none, whatever the pilot asks for.         *)

(* Every state of a node is seen as one outcome.                           *)
LEMMA Outcomes ==
  ASSUME BlocTypeOK, NEW t \in Tasks
  PROVE  /\ Seen(t) = "idle" <=> node[t] \in {"READY", "TOLOAD", "TOACTIVATE"}
         /\ Seen(t) = "running" <=> node[t] = "ACTIVATED"
         /\ Seen(t) = "done" <=> node[t] = "DONE"
         /\ Seen(t) = "failed" <=> node[t] \in {"ERROR", "FAILED", "INTERNALERR"}
BY DEF BlocTypeOK, NodeStates, Seen, Ended

(* An operation that does not change what is seen of t.                    *)
LEMMA SameOutcome ==
  ASSUME BlocTypeOK, BlocTypeOK', NEW t \in Tasks,
         \/ node'[t] = node[t]
         \/ {node[t], node'[t]} \subseteq {"READY", "TOLOAD", "TOACTIVATE"}
  PROVE  Seen(t)' = Seen(t)
BY DEF BlocTypeOK, NodeStates, Seen, Ended

(* A started node may begin or be given up: those before it are done.      *)
LEMMA StartedIsReady ==
  ASSUME IInv, NEW t \in Tasks, node[t] \in {"TOLOAD", "TOACTIVATE"}
  PROVE  Work!Ready(t)
<1>1. \A u \in Tasks : <<u, t>> \in Links => node[u] = "DONE"
  BY BlocAssumption DEF IInv, Ordered, Started, Successors
<1> QED BY <1>1, Outcomes DEF Work!Ready, IInv, ETypeOK

LEMMA WorkInit == Init => Work!Init
BY TypeInit, Outcomes DEF Init, BlocInit, Work!Init, ETypeOK

(* A failure of t is seen as t and the tasks behind it given up.           *)
LEMMA AbortGivesUp ==
  ASSUME BlocTypeOK, BlocTypeOK', NEW t \in Tasks, NotifyAbort(t)
  PROVE  [u \in Tasks |-> Seen(u)]' = Work!GivenUp({t} \union After[t])
<1>1. node' = [u \in Tasks |-> IF u \in After[t] THEN "FAILED"
                               ELSE IF u = t THEN "ERROR" ELSE node[u]]
  BY AbortNodes
<1>2. ASSUME NEW u \in Tasks
      PROVE  Seen(u)' = IF u \in {t} \union After[t] THEN "failed" ELSE Seen(u)
  <2>1. CASE u \in {t} \union After[t]
    <3>1. node'[u] \in {"ERROR", "FAILED"}
      BY <1>1, <2>1
    <3> QED BY <2>1, <3>1 DEF Seen, Ended
  <2>2. CASE u \notin {t} \union After[t]
    BY <1>1, <2>2, SameOutcome
  <2> QED BY <2>1, <2>2
<1> QED BY <1>2 DEF Work!GivenUp

(* A finished task is seen as such; those behind it stay or are given up.  *)
LEMMA FinishIsSeen ==
  ASSUME BlocTypeOK, BlocTypeOK', NEW t \in Tasks, node[t] = "ACTIVATED", NotifyFinish(t)
  PROVE  \E gone \in {{}, After[t]} :
           [u \in Tasks |-> Seen(u)]' = [Work!GivenUp(gone) EXCEPT ![t] = "done"]
<1>1. t \notin After[t] /\ After[t] \subseteq Tasks
  BY BlocAssumption
<1>2. CASE FinishLast(t) \/ FinishForward(t)
  <2>1. /\ node'[t] = "DONE"
        /\ \A u \in Tasks \ {t} : \/ node'[u] = node[u]
                                  \/ node[u] = "READY" /\ node'[u] = "TOLOAD"
    BY <1>2 DEF FinishLast, FinishForward, ExUpdateState, BlocTypeOK
  <2>2. ASSUME NEW u \in Tasks
        PROVE  Seen(u)' = IF u = t THEN "done" ELSE Seen(u)
    <3>1. CASE u = t
      BY <2>1, <3>1 DEF Seen, Ended
    <3>2. CASE u # t
      BY <2>1, <3>2, SameOutcome
    <3> QED BY <3>1, <3>2
  <2> QED BY <2>2 DEF Work!GivenUp
<1>3. CASE FinishThrows(t)
  <2>1. /\ node'[t] = "DONE"
        /\ \A u \in Tasks \ {t} : node'[u] = IF u \in After[t] THEN "FAILED" ELSE node[u]
    BY <1>1, <1>3 DEF FinishThrows, ExNotifyFailed, BlocTypeOK
  <2>2. ASSUME NEW u \in Tasks
        PROVE  Seen(u)' = IF u = t THEN "done"
                          ELSE IF u \in After[t] THEN "failed" ELSE Seen(u)
    <3>1. CASE u = t
      BY <2>1, <3>1 DEF Seen, Ended
    <3>2. CASE u # t /\ u \in After[t]
      BY <2>1, <3>2 DEF Seen, Ended
    <3>3. CASE u # t /\ u \notin After[t]
      BY <2>1, <3>3, SameOutcome
    <3> QED BY <3>1, <3>2, <3>3
  <2> QED BY <2>2 DEF Work!GivenUp
<1> QED BY <1>2, <1>3 DEF NotifyFinish

(* A step that leaves the nodes alone is no step of the abstract run, or   *)
(* ends it.                                                                *)
LEMMA QuietWork ==
  ASSUME node' = node, state \in Finals => state' \in Finals
  PROVE  [Work!Next]_(Work!workVars)
BY DEF Work!Next, Work!End, Work!workVars, Seen, Finals

(* So does one that makes loadable what was not.                           *)
LEMMA SameWork ==
  ASSUME BlocTypeOK, BlocTypeOK', state' \in Finals <=> state \in Finals,
         \A t \in Tasks : \/ node'[t] = node[t]
                          \/ {node[t], node'[t]} \subseteq {"READY", "TOLOAD", "TOACTIVATE"}
  PROVE  UNCHANGED Work!workVars
<1>1. \A t \in Tasks : Seen(t)' = Seen(t)
  BY SameOutcome
<1> QED BY <1>1 DEF Work!workVars, Finals

LEMMA WorkStep == IInv /\ [Next]_vars => [Work!Next]_(Work!workVars)
<1> SUFFICES ASSUME IInv, [Next]_vars PROVE [Work!Next]_(Work!workVars)
  OBVIOUS
<1> USE DEF vars, blocVars, loopVars, modeVars, eventVars, stepVars, poolVars, pilotVars
<1>t. BlocTypeOK /\ BlocTypeOK'
  BY InvStep DEF IInv, ETypeOK
<1>f. state \in Finals <=> state \in {"FINISHED", "STOPPED"}
  BY DEF Finals
<1>1. CASE Reset
  BY <1>1, QuietWork DEF Reset, IInv, Shape
<1>2. CASE Initialise
  <2>1. \A t \in Tasks : node[t] = "READY" /\ node'[t] \in {"READY", "TOLOAD"}
    BY <1>2, <1>t DEF Initialise, IInv, Shape, BlocInit, ExStart, ExUpdateState
  <2>2. state' \notin Finals /\ state \notin Finals
    BY <1>2 DEF Initialise, IInv, Shape, Finals
  <2> QED BY <2>1, <2>2, <1>t, SameWork
<1>3. CASE InitialiseFails
  <2>1. PICK bad \in Tasks : \A t \in Tasks :
          node[t] = "READY" /\ IF t = bad THEN node'[t] = "INTERNALERR"
                               ELSE node'[t] \in {"READY", "TOLOAD"}
    BY <1>3, <1>t
       DEF InitialiseFails, IInv, Shape, BlocInit, ExStartFails, ExUpdateState, Sources
  <2>2. \A t \in Tasks : Seen(t) = "idle" /\ Seen(t)' = IF t = bad THEN "failed" ELSE "idle"
    BY <2>1 DEF Seen, Ended
  <2>3. state \notin Finals /\ state' \in Finals
    BY <1>3 DEF InitialiseFails, IInv, Shape, Finals
  <2>4. Work!Reject(bad)
    BY <2>2, <2>3 DEF Work!Reject, Work!GivenUp, Finals
  <2> QED BY <2>4 DEF Work!Next
<1>4. CASE Sleep \/ Awake \/ Select \/ Check \/ Resumed \/ NextPhase
  BY <1>4, QuietWork DEF Sleep, Awake, Select, Check, Resumed, NextPhase
<1>5. CASE CheckStep \/ CheckBreakpoints
  BY <1>5, QuietWork DEF CheckStep, CheckBreakpoints, Pause, IInv, Shape
<1>6. ASSUME NEW t \in Tasks, BeginLoad(t)
      PROVE  [Work!Next]_(Work!workVars)
  BY <1>6, QuietWork DEF BeginLoad, NotifyStart
<1>7. ASSUME NEW t \in Tasks, EndLoad(t) \/ Connect(t)
      PROVE  [Work!Next]_(Work!workVars)
  <2>1. state' = state /\ state \notin Finals
    BY <1>7 DEF EndLoad, Connect, IInv, Shape
  <2>2. CASE UNCHANGED blocVars
    BY <2>1, <2>2, QuietWork
  <2>3. CASE node[t] = "TOLOAD" /\ SetState(t, "TOACTIVATE")
    BY <2>1, <2>3, <1>t, SameWork DEF SetState, BlocTypeOK
  <2>4. CASE node[t] = "TOLOAD" /\ NotifyAbort(t)
    <3>1. Work!GiveUp(t)
      BY <2>1, <2>4, <1>t, <1>f, AbortGivesUp, StartedIsReady DEF Work!GiveUp
    <3> QED BY <3>1 DEF Work!Next
  <2> QED BY <1>7, <2>2, <2>3, <2>4 DEF EndLoad, Connect, IInv, Shape
<1>8. ASSUME NEW t \in Tasks, Launch(t)
      PROVE  [Work!Next]_(Work!workVars)
  <2>1. state' = state /\ state \notin Finals
    BY <1>8 DEF Launch, IInv, Shape
  <2>2. CASE UNCHANGED blocVars
    BY <2>1, <2>2, QuietWork
  <2>3. CASE node[t] = "TOACTIVATE" /\ SetState(t, "ACTIVATED")
    <3>1. \A u \in Tasks : Seen(u)' = IF u = t THEN "running" ELSE Seen(u)
      <4>1. node' = [node EXCEPT ![t] = "ACTIVATED"]
        BY <2>3 DEF SetState
      <4>2. Seen(t)' = "running"
        BY <4>1, <1>t DEF BlocTypeOK, Seen, Ended
      <4>3. ASSUME NEW u \in Tasks, u # t PROVE Seen(u)' = Seen(u)
        BY <4>1, <4>3, <1>t, SameOutcome
      <4> QED BY <4>2, <4>3
    <3>2. Work!Begin(t)
      BY <2>1, <2>3, <3>1, <1>f, StartedIsReady DEF Work!Begin
    <3> QED BY <3>2 DEF Work!Next
  <2> QED BY <1>8, <2>2, <2>3 DEF Launch
<1>9. CASE LoopEnd \/ Stopping
  BY <1>9, QuietWork DEF LoopEnd, Stopping, Finals
<1>10. ASSUME NEW t \in Tasks, Release(t)
       PROVE  [Work!Next]_(Work!workVars)
  BY <1>10, QuietWork DEF Release
<1>11. ASSUME NEW t \in Tasks, NEW ok \in BOOLEAN, TaskEnd(t, ok)
       PROVE  [Work!Next]_(Work!workVars)
  <2>1. /\ node[t] = "ACTIVATED"
        /\ NotifyFinish(t) \/ NotifyAbort(t)
    BY <1>11 DEF TaskEnd, IInv, RunningConsistent
  <2>2. state' \in {"FINISHED", "STOPPED"} <=> state \in {"FINISHED", "STOPPED"}
    BY <1>11 DEF TaskEnd, LastOfPause, PauseReached
  <2>3. [u \in Tasks |-> Seen(u)][t] = "running"
    BY <2>1, <1>t, Outcomes
  <2>4. Work!Finish(t) \/ Work!Fail(t)
    BY <2>1, <2>2, <2>3, <1>t, FinishIsSeen, AbortGivesUp DEF Work!Finish, Work!Fail
  <2> QED BY <2>4 DEF Work!Next
<1>12. CASE SpuriousWakeup \/ UNCHANGED vars
  BY <1>12, QuietWork DEF SpuriousWakeup
<1>13. CASE Pilot
  <2> USE QuietWork
  <2>1. CASE ResumeCurrentBreakPoint \/ StopResume
    BY <2>1 DEF ResumeCurrentBreakPoint, StopResume, Resume, InPause, Finals
  <2>2. CASE SetExecMode \/ SetListOfBreakPoints \/ SetStopOnError
    BY <2>2 DEF SetExecMode, SetListOfBreakPoints, SetStopOnError
  <2>3. CASE SetStepsToExecute \/ StoreSteps
    BY <2>3 DEF SetStepsToExecute, StoreSteps
  <2>4. CASE WaitPause \/ StopExecution \/ AllowEnd
    BY <2>4 DEF WaitPause, StopExecution, AllowEnd
  <2>5. CASE SuspendASAP \/ ResumeSuspended
    BY <2>5 DEF SuspendASAP, ResumeSuspended
  <2> QED BY <1>13, <2>1, <2>2, <2>3, <2>4, <2>5 DEF Pilot, PilotInside
<1> QED
  BY <1>1, <1>2, <1>3, <1>4, <1>5, <1>6, <1>7, <1>8, <1>9, <1>10, <1>11, <1>12, <1>13
     DEF Next, RunThread, TaskThread, Loading, Launching, Over

(* The run of every graph, seen without threads, locks, pauses or pools,   *)
(* runs each task at most once, after the tasks it depends on, never       *)
(* behind a failure, and starts none once it is over: it is a Workflow.    *)
THEOREM ImplementsWorkflow == Spec => IsWorkflow
<1>1. Init => Work!Init
  BY WorkInit
<1>2. IInv /\ [Next]_vars => [Work!Next]_(Work!workVars)
  BY WorkStep
<1> QED BY <1>1, <1>2, InvCorrect, PTL DEF Spec, IsWorkflow, Work!Spec
=============================================================================
