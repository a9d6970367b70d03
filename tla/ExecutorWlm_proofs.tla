------------------------- MODULE ExecutorWlm_proofs --------------------------
(***************************************************************************)
(* What holds of every run with the workload manager, for every graph,     *)
(* catalogue of resources and assignment of failures: proofs about the     *)
(* specification of ExecutorWlm.                                           *)
(***************************************************************************)
EXTENDS ExecutorWlm, Bloc_proofs

-----------------------------------------------------------------------------
(* Types.                                                                  *)

LEMMA WlmTypeInit == Init => WlmTypeOK
<1> SUFFICES ASSUME Init PROVE WlmTypeOK
  OBVIOUS
<1>1. BlocTypeOK
  BY DEF Init, BlocInit, BlocTypeOK, NodeStates
<1> QED BY <1>1 DEF Init, WlmTypeOK, Manager!Init, Manager!Nothing

LEMMA WlmTypeStep == WlmTypeOK /\ [Next]_vars => WlmTypeOK'
<1> SUFFICES ASSUME WlmTypeOK, [Next]_vars PROVE WlmTypeOK'
  OBVIOUS
<1> USE WlmAssumption
    DEF WlmTypeOK, vars, blocVars, loopVars, errorVars, eventVars, wlmVars, Go
<1>b. UNCHANGED blocVars => BlocTypeOK'
  BY DEF BlocTypeOK
<1>1. CASE Initialise
  <2>1. BlocTypeOK'
    <3>1. CASE Tasks = {}
      BY <3>1, <1>1, BlocAssumption DEF Initialise, BlocTypeOK, ExStart, ExUpdateState
    <3>2. CASE Tasks # {}
      BY <3>2, <1>1, BlocOperationTypes DEF Initialise
    <3> QED BY <3>1, <3>2
  <2> QED BY <1>1, <2>1 DEF Initialise, Manager!Open
<1>2. CASE Sleep \/ Awake \/ SpuriousWakeup
  <2>1. ended' \in {ended, 0} /\ isWaiting' \in BOOLEAN
    BY <1>2 DEF Sleep, Awake, SpuriousWakeup
  <2>2. pc' \in {"asleep", "select", "woken"}
    BY <1>2 DEF Sleep, Awake, SpuriousWakeup
  <2> QED BY <1>2, <1>b, <2>1, <2>2 DEF Sleep, Awake, SpuriousWakeup
<1>3. CASE Select
  <2>1. PICK chosen \in SUBSET Candidates :
          tasks' = chosen /\ numberAll' = Cardinality(running) + Cardinality(chosen)
    BY <1>3 DEF Select
  <2>2. chosen \subseteq Tasks
    BY DEF Candidates, ReadyTasks
  <2>3. numberAll' \in Nat
    BY <2>1, <2>2, TaskSets
  <2> QED BY <1>3, <1>b, <2>1, <2>2, <2>3 DEF Select
<1>4. CASE Check
  <2>1. pc' \in {"loopEnd", "stopping", "launching"} /\ state' \in {state, "PAUSED"}
    BY <1>4 DEF Check
  <2> QED BY <1>4, <1>b, <2>1 DEF Check
<1>5. CASE LoopEnd
  <2>1. problemCount' \in Nat /\ toContinue' \in BOOLEAN
    BY <1>5 DEF LoopEnd
  <2>2. pc' \in {"sleep", "stopping"} /\ state' \in {state, "FINISHED"}
    BY <1>5 DEF LoopEnd
  <2> QED BY <1>5, <1>b, <2>1, <2>2 DEF LoopEnd
<1>6. CASE Stop
  <2>1. state' \in {state, "STOPPED"} /\ open' = FALSE /\ UNCHANGED <<stage, holds>>
    BY <1>6 DEF Stop, Manager!Close
  <2> QED BY <1>6, <1>b, <2>1 DEF Stop
<1>7. ASSUME NEW t \in Tasks, Launch(t)
      PROVE  WlmTypeOK'
  BY <1>7, <1>b DEF Launch
<1>8. ASSUME NEW t \in Tasks, Begin(t)
      PROVE  WlmTypeOK'
  <2>1. holds' \in [Tasks -> (Resources \X Nat) \union {<<NoResource, 0>>}]
    <3>1. CASE UNCHANGED holds
      BY <3>1
    <3>2. CASE Manager!Place(t)
      <4>1. PICK r \in Accepted[t] :
              \E i \in {0} \union {k + 1 : k \in Manager!InUse(r, TypeOf[t])} :
                 holds' = [holds EXCEPT ![t] = <<r, i>>]
        BY <3>2 DEF Manager!Place
      <4>2. Manager!InUse(r, TypeOf[t]) \subseteq Nat
        BY DEF Manager!InUse, Manager!Holders, Manager!Nothing, WlmTypeOK
      <4>3. PICK i \in {0} \union {k + 1 : k \in Manager!InUse(r, TypeOf[t])} :
              holds' = [holds EXCEPT ![t] = <<r, i>>]
        BY <4>1
      <4>4. i \in Nat
        BY <4>2
      <4>5. r \in Resources
        OBVIOUS
      <4> QED BY <4>3, <4>4, <4>5
    <3> QED BY <1>8, <3>1, <3>2 DEF Begin, Manager!RunUnplaced
  <2>2. stage' = [stage EXCEPT ![t] = "running"] /\ UNCHANGED open
    BY <1>8 DEF Begin, Manager!Place, Manager!RunUnplaced, Manager!Begin
  <2>3. \E where \in {"load", "refused"} : Go(t, where)
    BY <1>8 DEF Begin
  <2> QED BY <1>8, <1>b, <2>1, <2>2, <2>3 DEF Begin
<1>9. ASSUME NEW t \in Tasks,
             LoadStart(t) \/ LoadEnd(t) \/ Connect(t) \/ Run(t) \/ Refuse(t)
      PROVE  WlmTypeOK'
  <2>1. UNCHANGED blocVars \/ NotifyStart \/ NotifyAbort(t) \/ \E s \in NodeStates : SetState(t, s)
    BY <1>9 DEF LoadStart, LoadEnd, Connect, Run, Refuse, Early, NodeStates
  <2>2. BlocTypeOK'
    BY <2>1, <1>b, BlocOperationTypes
  <2>3. early' \in {early, early \union {t}}
    BY <1>9 DEF LoadStart, LoadEnd, Connect, Run, Refuse, Early
  <2>4. \E where \in {"loading", "connect", "run", "executing", "failed"} : Go(t, where)
    BY <1>9 DEF LoadStart, LoadEnd, Connect, Run, Refuse
  <2>5. UNCHANGED <<errorVars, eventVars, running, wlmVars>>
    BY <1>9 DEF LoadStart, LoadEnd, Connect, Run, Refuse
  <2> QED BY <2>2, <2>3, <2>4, <2>5
<1>10. ASSUME NEW t \in Tasks, NEW ok \in BOOLEAN, EndTask(t, ok)
       PROVE  WlmTypeOK'
  <2>1. BlocTypeOK'
    BY <1>10, BlocOperationTypes DEF EndTask
  <2>2. isWaiting' \in BOOLEAN /\ missed' \in BOOLEAN
    BY <1>10 DEF EndTask, WakeUp
  <2>4. ended' \in Nat /\ pc' \in {pc, "woken"}
    <3>1. CASE state = "PAUSED"
      BY <1>10, <3>1 DEF EndTask
    <3>2. CASE state # "PAUSED"
      <4>1. WakeUp
        BY <1>10, <3>2 DEF EndTask
      <4>2. ended' \in {ended, ended + 1}
        BY <4>1 DEF WakeUp
      <4>3. pc' \in {pc, "woken"}
        BY <4>1 DEF WakeUp
      <4> QED BY <4>2, <4>3
    <3> QED BY <3>1, <3>2
  <2>3. okToEnd' \in BOOLEAN /\ stopOnError' \in BOOLEAN
    BY <1>10 DEF EndTask
  <2> QED BY <1>10, <2>1, <2>2, <2>3, <2>4 DEF EndTask
<1>11. ASSUME NEW t \in Tasks, Return(t)
       PROVE  WlmTypeOK'
  BY <1>11, <1>b DEF Return, Manager!Finish, Manager!Release, Manager!Nothing
<1>12. CASE UNCHANGED vars
  BY <1>12, <1>b
<1> QED
  BY <1>1, <1>2, <1>3, <1>4, <1>5, <1>6, <1>7, <1>8, <1>9, <1>10, <1>11, <1>12
     DEF Next, RunThread, TaskThread, Over

(* Every variable of the run keeps its type.                               *)
THEOREM WlmTypeCorrect == Spec => []WlmTypeOK
<1>1. Init => WlmTypeOK
  BY WlmTypeInit
<1>2. WlmTypeOK /\ [Next]_vars => WlmTypeOK'
  BY WlmTypeStep
<1> QED BY <1>1, <1>2, PTL DEF Spec

-----------------------------------------------------------------------------
(* The inductive invariant.                                                *)

(* The tasks given to the manager so far.                                  *)
Managed == {t \in Tasks : stage[t] # "new"}

(* No task goes to the manager before those it depends on are done, and a  *)
(* task reported early has failed all those behind it, for good.           *)
Behind ==
  \A t \in Tasks : \A u \in After[t] :
    /\ u \in Managed => node[t] = "DONE"
    /\ t \in early => node[u] = "FAILED"

(* How far the thread of a task is tells the state of its node, unless the *)
(* task was reported early.                                                *)
PathOf(t) ==
  /\ stage[t] \in {"new", "waiting"} <=> at[t] = "none"
  /\ stage[t] \in {"done", "released"} => at[t] = "ended"
  /\ stage[t] = "new" => node[t] \in {"READY", "TOLOAD", "FAILED"}
  /\ stage[t] = "waiting" \/ at[t] \in {"load", "loading", "refused"} => node[t] = "TOLOAD"
  /\ at[t] = "connect" => node[t] = "TOLOAD" \/ t \in early
  /\ at[t] = "run" => node[t] = "TOACTIVATE" \/ t \in early
  /\ at[t] = "executing" => node[t] = "ACTIVATED"
  /\ at[t] = "failed" => node[t] = "ERROR"
  /\ at[t] = "ended" => node[t] \in {"DONE", "ERROR"}
  /\ t \in early => /\ at[t] \in {"connect", "run", "executing", "ended"}
                    /\ at[t] \in {"connect", "run"} => node[t] = "ERROR"

Path == \A t \in Tasks : PathOf(t)

(* The graph is as it was created until the run starts, a selected task is *)
(* still new, and a run that is announced as over has left its loop.       *)
Shape ==
  /\ pc = "start" => BlocInit /\ Managed = {}
  /\ \A t \in tasks : t \notin Managed /\ node[t] = "TOLOAD"
  /\ state = "FINISHED" => pc \in {"stopping", "over"}
  /\ state = "STOPPED" => pc = "over"
  /\ pc = "over" => \A t \in Tasks : stage[t] \in {"new", "released"}

IInv == WlmTypeOK /\ CountedWhileManaged /\ Ordered /\ Behind /\ Path /\ Shape

LEMMA InvInit == Init => IInv
<1> SUFFICES ASSUME Init PROVE IInv
  OBVIOUS
<1> USE DEF Init, BlocInit, Manager!Init
<1>1. CountedWhileManaged /\ Ordered /\ Behind
  BY BlocAssumption DEF CountedWhileManaged, Ordered, Behind, Managed, Started
<1>2. Path /\ Shape
  BY DEF Path, PathOf, Shape, Managed
<1> QED BY WlmTypeInit, <1>1, <1>2 DEF IInv

(* A ready task that does not run has not been given to the manager.       *)
LEMMA CandidatesAreNew ==
  ASSUME IInv, NEW t \in Candidates
  PROVE  t \in Tasks /\ stage[t] = "new" /\ node[t] = "TOLOAD"
<1>1. t \in Tasks /\ node[t] \in {"TOLOAD", "TOACTIVATE"} /\ t \notin running
  BY DEF Candidates, ReadyTasks
<1>2. stage[t] \in {"new", "waiting", "running", "done", "released"}
  BY <1>1 DEF IInv, WlmTypeOK
<1> QED BY <1>1, <1>2 DEF IInv, CountedWhileManaged, Path, PathOf

(* A step of one task that leaves another where it is, or makes a new one  *)
(* loadable or failed.                                                     *)
LEMMA OthersKeepPath ==
  ASSUME Path, NEW u \in Tasks,
         at'[u] = at[u], stage'[u] = stage[u], u \in early' <=> u \in early,
         \/ node'[u] = node[u]
         \/ stage[u] = "new" /\ node'[u] \in {"READY", "TOLOAD", "FAILED"}
  PROVE  PathOf(u)'
BY DEF Path, PathOf

(* A node that goes on keeps the order of the graph.                       *)
LEMMA MoveKeepsOrder ==
  ASSUME IInv, NEW t \in Managed, NEW s, SetState(t, s), node[t] # "DONE"
  PROVE  Ordered'
<1>1. /\ \A u \in Tasks \ {t} : node'[u] = node[u]
      /\ \A u \in Tasks : node[u] = "DONE" => node'[u] = "DONE"
      /\ arrived' = arrived
  BY DEF SetState, IInv, WlmTypeOK, BlocTypeOK, Managed
<1>2. \A v \in Tasks : t \in After[v] => node[v] = "DONE"
  BY DEF IInv, Behind
<1> QED BY <1>1, <1>2 DEF IInv, Ordered

(* A task whose thread is somewhere is with the manager.                   *)
LEMMA RunsInManager ==
  ASSUME IInv, NEW t \in Tasks, at[t] \notin {"none", "ended"}
  PROVE  stage[t] = "running" /\ t \in Managed /\ t \in running /\ pc \notin {"start", "over"}
<1>1. stage[t] = "running"
  BY DEF IInv, WlmTypeOK, Path, PathOf
<1> QED BY <1>1 DEF IInv, CountedWhileManaged, Managed, Shape

(* What a step of the thread of t changes besides the graph.               *)
OfThread(t) ==
  /\ \E where \in {"loading", "connect", "run", "executing", "failed", "ended"} :
       at' = [at EXCEPT ![t] = where]
  /\ early' \in {early, early \union {t}}
  /\ UNCHANGED <<tasks, state, stage>>
  /\ pc' = pc \/ (pc = "asleep" /\ pc' = "woken")
  /\ running' = running \ {u \in {t} : at'[u] = "ended"}

LEMMA ThreadKeeps ==
  ASSUME IInv, WlmTypeOK', NEW t \in Tasks, at[t] \notin {"none", "ended"}, OfThread(t),
         Ordered', PathOf(t)', t \in early' => \A u \in After[t] : node'[u] = "FAILED",
         \A u \in Tasks \ {t} :
           \/ node'[u] = node[u]
           \/ node[u] = "READY" /\ node'[u] = "TOLOAD"
           \/ u \in After[t] /\ node'[u] = "FAILED",
         \A u \in After[t] : node[t] = "DONE" \/ node[u] \notin Started
  PROVE  IInv'
<1> USE DEF IInv
<1>1. stage[t] = "running" /\ t \in Managed /\ t \in running /\ pc \notin {"start", "over"}
  BY RunsInManager
<1>2. /\ \A u \in Tasks \ {t} : at'[u] = at[u] /\ (u \in early' <=> u \in early)
      /\ at'[t] # "none" /\ Managed' = Managed
  BY DEF OfThread, WlmTypeOK, Managed
<1>3. node[t] \notin {"DONE", "FAILED"}
  BY DEF Path, PathOf, WlmTypeOK
<1>4. \A u \in After[t] : node[u] \notin Started /\ u \notin Managed
  BY <1>3, BlocAssumption DEF Behind
<1>5. \A u \in Managed \ {t} : node'[u] = node[u]
  <2>1. \A u \in Managed : node[u] # "READY"
    BY DEF Managed, Path, PathOf, WlmTypeOK, CountedWhileManaged
  <2> QED BY <2>1, <1>4 DEF Managed
<1>6. CountedWhileManaged'
  BY <1>1, <1>2 DEF OfThread, CountedWhileManaged
<1>7. Path'
  <2>1. ASSUME NEW u \in Tasks \ {t} PROVE PathOf(u)'
    <3>1. stage[u] = "new" \/ node'[u] = node[u]
      BY <1>5 DEF Managed
    <3>2. node'[u] = node[u] \/ node'[u] \in {"TOLOAD", "FAILED"}
      OBVIOUS
    <3> QED BY <3>1, <3>2, <1>2, OthersKeepPath DEF OfThread
  <2> QED BY <2>1 DEF Path
<1>8. Behind'
  <2>1. ASSUME NEW s \in Tasks, NEW u \in After[s], u \in Managed
        PROVE  node'[s] = "DONE"
    <3>1. node[s] = "DONE" /\ s # t
      BY <2>1, <1>3 DEF Behind
    <3> QED BY <3>1, <1>4 DEF Started
  <2>2. ASSUME NEW s \in early', NEW u \in After[s], s # t
        PROVE  node'[u] = "FAILED"
    <3>1. s \in early /\ s \in Tasks /\ u \in Tasks /\ node[u] = "FAILED"
      BY <2>2, <1>2, BlocAssumption DEF Behind, WlmTypeOK
    <3>2. u # t
      BY <3>1, <1>3
    <3> QED BY <3>1, <3>2
  <2> QED BY <2>1, <2>2, <1>2 DEF Behind
<1>9. Shape'
  <2>1. \A u \in tasks : u # t /\ node[u] = "TOLOAD" /\ u \in Tasks
    BY <1>1 DEF Shape, WlmTypeOK
  <2>2. \A u \in tasks : node'[u] = "TOLOAD"
    BY <2>1, <1>4 DEF Started
  <2> QED BY <1>1, <1>2, <2>2 DEF OfThread, Shape
<1> QED BY <1>6, <1>7, <1>8, <1>9

LEMMA InvStep == IInv /\ [Next]_vars => IInv'
<1> SUFFICES ASSUME IInv, [Next]_vars PROVE IInv'
  OBVIOUS
<1> USE DEF vars, blocVars, loopVars, errorVars, eventVars, wlmVars
<1>t. WlmTypeOK /\ WlmTypeOK' /\ BlocTypeOK /\ BlocTypeOK'
  BY WlmTypeStep DEF IInv, WlmTypeOK
<1>q. ASSUME UNCHANGED <<blocVars, running, at, early, stage>>, Shape'
      PROVE  IInv'
  BY <1>q, <1>t DEF IInv, CountedWhileManaged, Ordered, Behind, Managed, Path, PathOf
<1>n. ASSUME NEW t \in Tasks
      PROVE  \A u \in After[t] : node[t] = "DONE" \/ node[u] \notin Started
  BY BlocAssumption DEF IInv, Ordered
<1>1. CASE Initialise
  <2>1. Ordered'
    BY <1>1, <1>t, StartKeepsOrder DEF Initialise, IInv, Shape
  <2>2. /\ \A u \in Tasks : node'[u] \in {"READY", "TOLOAD"}
        /\ \A u \in Tasks : stage'[u] = "new" /\ stage[u] = "new"
        /\ UNCHANGED <<running, at, early, tasks>>
    BY <1>1 DEF Initialise, IInv, Shape, Managed, BlocInit, ExStart, ExUpdateState, Manager!Open
  <2>3. early = {} /\ tasks = {}
    <3>1. \A u \in early : u \in Tasks /\ FALSE
      BY <1>t, <2>2 DEF WlmTypeOK, IInv, Path, PathOf
    <3>2. \A u \in tasks : u \in Tasks /\ FALSE
      BY <1>1, <1>t DEF WlmTypeOK, IInv, Shape, BlocInit, Initialise
    <3> QED BY <3>1, <3>2
  <2>4. CountedWhileManaged' /\ Behind'
    BY <2>2, <2>3 DEF IInv, CountedWhileManaged, Behind, Managed
  <2>5. Path'
    BY <2>2, OthersKeepPath DEF IInv, Path
  <2>6. Shape'
    BY <1>1, <2>2, <2>3 DEF Shape, Initialise
  <2> QED BY <1>t, <2>1, <2>4, <2>5, <2>6 DEF IInv
<1>2. CASE Sleep \/ Awake \/ SpuriousWakeup \/ Check \/ LoopEnd
  <2>1. /\ UNCHANGED <<blocVars, running, at, early, stage, tasks>>
        /\ pc \notin {"start", "over", "stopping"}
    BY <1>2 DEF Sleep, Awake, SpuriousWakeup, Check, LoopEnd
  <2>2. /\ pc' \notin {"start", "over"}
        /\ state' = state \/ state' = "PAUSED" \/ (state' = "FINISHED" /\ pc' = "stopping")
    BY <1>2 DEF Sleep, Awake, SpuriousWakeup, Check, LoopEnd
  <2> QED BY <1>q, <2>1, <2>2 DEF IInv, Shape, Managed
<1>3. CASE Select
  <2>1. PICK chosen \in SUBSET Candidates : tasks' = chosen
    BY <1>3 DEF Select
  <2>2. \A t \in tasks' : t \in Tasks /\ stage[t] = "new" /\ node[t] = "TOLOAD"
    BY <2>1, CandidatesAreNew
  <2> QED BY <1>3, <1>q, <2>2 DEF IInv, Shape, Managed, Select
<1>4. CASE Stop
  BY <1>4, <1>q DEF IInv, Shape, Managed, Stop, Manager!Close
<1>5. ASSUME NEW t \in Tasks, Launch(t)
      PROVE  IInv'
  <2>1. node[t] = "TOLOAD" /\ stage[t] = "new" /\ t \in tasks /\ pc = "launching"
    BY <1>5 DEF Launch, IInv, Shape, Managed
  <2>2. /\ stage' = [u \in Tasks |-> IF u = t THEN "waiting" ELSE stage[u]]
        /\ UNCHANGED <<blocVars, at, early>>
        /\ tasks' = tasks \ {t} /\ running' = running \union {t}
        /\ UNCHANGED <<pc, state>>
    BY <1>5, <1>t DEF Launch, WlmTypeOK
  <2>3. CountedWhileManaged'
    BY <2>1, <2>2 DEF IInv, CountedWhileManaged, Path, PathOf
  <2>4. Ordered' /\ Behind'
    BY <2>1, <2>2, BlocAssumption DEF IInv, Ordered, Behind, Managed, Started
  <2>5. PathOf(t)'
    BY <2>1, <2>2 DEF IInv, Path, PathOf
  <2>6. Path'
    BY <2>2, <2>5, OthersKeepPath DEF IInv, Path
  <2>7. Shape'
    BY <2>1, <2>2 DEF IInv, Shape, Managed
  <2> QED BY <1>t, <2>3, <2>4, <2>6, <2>7 DEF IInv
<1>6. ASSUME NEW t \in Tasks, Begin(t)
      PROVE  IInv'
  <2>1. stage[t] = "waiting" /\ stage' = [stage EXCEPT ![t] = "running"]
    BY <1>6 DEF Begin, Manager!Place, Manager!RunUnplaced, Manager!Begin
  <2>2. PICK where \in {"load", "refused"} : Go(t, where)
    BY <1>6 DEF Begin
  <2>3. UNCHANGED <<blocVars, running, early, pc, state, tasks>>
    BY <1>6, <2>2 DEF Begin, Go
  <2>4. at[t] = "none" /\ node[t] = "TOLOAD" /\ t \notin early /\ pc \notin {"start", "over"}
    BY <2>1 DEF IInv, Path, PathOf, Shape, Managed
  <2>5. /\ stage'[t] = "running" /\ at'[t] = where
        /\ \A u \in Tasks \ {t} : at'[u] = at[u] /\ stage'[u] = stage[u]
    BY <2>1, <2>2, <1>t DEF WlmTypeOK, Go
  <2>6. Managed' = Managed
    BY <2>1, <2>5 DEF Managed
  <2>7. CountedWhileManaged' /\ Ordered' /\ Behind'
    BY <2>1, <2>3, <2>4, <2>5, <2>6 DEF IInv, CountedWhileManaged, Ordered, Behind
  <2>8. Path'
    <3>1. PathOf(t)'
      BY <2>3, <2>4, <2>5 DEF PathOf
    <3> QED BY <2>3, <2>5, <3>1, OthersKeepPath DEF IInv, Path
  <2>9. Shape'
    BY <2>3, <2>4, <2>6 DEF IInv, Shape
  <2> QED BY <1>t, <2>7, <2>8, <2>9 DEF IInv
<1>7. ASSUME NEW t \in Tasks, LoadStart(t)
      PROVE  IInv'
  <2>1. /\ at[t] = "load" /\ node' = node /\ arrived' = arrived /\ OfThread(t)
        /\ at'[t] = "loading" /\ early' = early
    BY <1>7, <1>t DEF LoadStart, NotifyStart, Go, OfThread, WlmTypeOK
  <2>2. PathOf(t)' /\ Ordered' /\ t \notin early
    BY <2>1 DEF IInv, Path, PathOf, Ordered, OfThread
  <2> QED BY <1>t, <1>n, <2>1, <2>2, ThreadKeeps
<1>8. ASSUME NEW t \in Tasks, NEW where \in {"connect", "run"},
             at[t] \in {"loading", "connect"}, node[t] = "TOLOAD", Early(t), Go(t, where),
             UNCHANGED <<errorVars, eventVars, running, wlmVars>>
      PROVE  IInv'
  <2>1. OfThread(t) /\ at'[t] = where
    BY <1>8, <1>t DEF Early, Go, OfThread, WlmTypeOK
  <2>2. /\ \A u \in After[t] : node'[u] = "FAILED"
        /\ \A u \in Tasks \ {t} : node'[u] = node[u] \/ (u \in After[t] /\ node'[u] = "FAILED")
        /\ node'[t] = "ERROR"
    BY <1>8, <1>t, AbortNodes, BlocAssumption DEF Early
  <2>3. Ordered'
    BY <1>8, <1>t, AbortKeepsOrder DEF Early, IInv
  <2>4. PathOf(t)'
    BY <1>8, <2>1, <2>2, RunsInManager DEF Early, PathOf
  <2> QED BY <1>8, <1>t, <1>n, <2>1, <2>2, <2>3, <2>4, ThreadKeeps
<1>9. ASSUME NEW t \in Tasks, NEW where \in {"connect", "run", "executing", "failed"},
             at[t] \notin {"none", "ended"},
             Go(t, where), PathOf(t)', UNCHANGED <<errorVars, eventVars, running, early, wlmVars>>,
             \/ UNCHANGED blocVars
             \/ \E s \in {"TOACTIVATE", "ACTIVATED", "ERROR"} : SetState(t, s)
      PROVE  IInv'
  <2>1. OfThread(t)
    BY <1>9, <1>t DEF Go, OfThread, WlmTypeOK
  <2>2. \A u \in Tasks \ {t} : node'[u] = node[u]
    BY <1>9, <1>t DEF SetState, BlocTypeOK
  <2>3. node[t] # "DONE" /\ t \in Managed
    BY <1>9, <1>t, RunsInManager DEF IInv, Path, PathOf, WlmTypeOK
  <2>4. Ordered'
    <3>1. CASE UNCHANGED blocVars
      BY <3>1 DEF IInv, Ordered
    <3>2. CASE \E s \in {"TOACTIVATE", "ACTIVATED", "ERROR"} : SetState(t, s)
      BY <3>2, <2>3, MoveKeepsOrder
    <3> QED BY <1>9, <3>1, <3>2
  <2>5. t \in early' => \A u \in After[t] : node'[u] = "FAILED"
    BY <1>9, <2>2, BlocAssumption DEF IInv, Behind
  <2> QED BY <1>9, <1>t, <1>n, <2>1, <2>2, <2>4, <2>5, ThreadKeeps
<1>10. ASSUME NEW t \in Tasks, LoadEnd(t)
       PROVE  IInv'
  <2>1. at[t] = "loading" /\ Go(t, "connect") /\ at'[t] = "connect" /\ node[t] = "TOLOAD"
    BY <1>10, <1>t DEF LoadEnd, Go, WlmTypeOK, IInv, Path, PathOf
  <2>2. CASE Early(t)
    BY <1>10, <2>1, <2>2, <1>8 DEF LoadEnd
  <2>3. CASE UNCHANGED <<blocVars, early>>
    <3>1. PathOf(t)'
      BY <1>10, <2>1, <2>3, RunsInManager DEF LoadEnd, IInv, Path, PathOf
    <3> QED BY <1>10, <2>1, <2>3, <3>1, <1>9 DEF LoadEnd
  <2> QED BY <1>10, <2>2, <2>3 DEF LoadEnd
<1>11. ASSUME NEW t \in Tasks, Connect(t)
       PROVE  IInv'
  <2>1. at[t] = "connect" /\ Go(t, "run") /\ at'[t] = "run"
    BY <1>11, <1>t DEF Connect, Go, WlmTypeOK
  <2>2. CASE node[t] = "TOLOAD" /\ Early(t)
    BY <1>11, <2>1, <2>2, <1>8 DEF Connect
  <2>3. CASE node[t] = "TOLOAD" /\ SetState(t, "TOACTIVATE") /\ UNCHANGED early
    <3>1. node'[t] = "TOACTIVATE"
      BY <2>3, <1>t DEF SetState, BlocTypeOK
    <3>2. PathOf(t)'
      BY <1>11, <2>1, <2>3, <3>1, RunsInManager DEF Connect, IInv, Path, PathOf
    <3> QED BY <1>11, <2>1, <2>3, <3>2, <1>9 DEF Connect
  <2>4. CASE node[t] # "TOLOAD" /\ UNCHANGED <<blocVars, early>>
    <3>1. PathOf(t)'
      BY <1>11, <2>1, <2>4, RunsInManager DEF Connect, IInv, Path, PathOf
    <3> QED BY <1>11, <2>1, <2>4, <3>1, <1>9 DEF Connect
  <2> QED BY <1>11, <2>2, <2>3, <2>4 DEF Connect
<1>12. ASSUME NEW t \in Tasks, Run(t) \/ Refuse(t)
       PROVE  IInv'
  <2>1. PICK where \in {"executing", "failed"} :
          /\ Go(t, where) /\ at[t] = IF where = "executing" THEN "run" ELSE "refused"
          /\ SetState(t, IF where = "executing" THEN "ACTIVATED" ELSE "ERROR")
          /\ UNCHANGED <<errorVars, eventVars, running, early, wlmVars>>
    BY <1>12 DEF Run, Refuse
  <2>2. at'[t] = where /\ node'[t] = IF where = "executing" THEN "ACTIVATED" ELSE "ERROR"
    BY <2>1, <1>t DEF Go, SetState, WlmTypeOK, BlocTypeOK
  <2>3. PathOf(t)'
    BY <2>1, <2>2, RunsInManager DEF IInv, Path, PathOf
  <2> QED BY <2>1, <2>3, <1>9
<1>13. ASSUME NEW t \in Tasks, NEW ok \in BOOLEAN, EndTask(t, ok)
       PROVE  IInv'
  <2>1. /\ at[t] \in {"executing", "failed"} /\ at' = [at EXCEPT ![t] = "ended"]
        /\ (at[t] = "executing" /\ NotifyFinish(t)) \/ NotifyAbort(t)
        /\ UNCHANGED <<tasks, state, early, stage>> /\ running' = running \ {t}
    BY <1>13 DEF EndTask
  <2>2. pc' = pc \/ (pc = "asleep" /\ pc' = "woken")
    BY <1>13 DEF EndTask, WakeUp
  <2>3. OfThread(t) /\ at'[t] = "ended"
    BY <2>1, <2>2, <1>t DEF OfThread, WlmTypeOK
  <2>4. node[t] \in {"ACTIVATED", "ERROR"} /\ (at[t] = "executing" => node[t] = "ACTIVATED")
    BY <2>1 DEF IInv, Path, PathOf
  <2>5. Ordered' /\ node'[t] \in {"DONE", "ERROR"}
    BY <2>1, <2>4, <1>t, AbortKeepsOrder, FinishKeepsOrder DEF IInv
  <2>6. \A u \in Tasks \ {t} :
           \/ node'[u] = node[u]
           \/ node[u] = "READY" /\ node'[u] = "TOLOAD"
           \/ u \in After[t] /\ node'[u] = "FAILED"
    BY <2>1, <1>t, AbortNodes, FinishNodes
  <2>7. t \in early' => \A u \in After[t] : node'[u] = "FAILED"
    BY <2>1, <2>6, BlocAssumption DEF IInv, Behind
  <2>8. PathOf(t)'
    BY <2>1, <2>3, <2>5, RunsInManager DEF PathOf
  <2> QED BY <1>t, <1>n, <2>1, <2>3, <2>5, <2>6, <2>7, <2>8, ThreadKeeps
<1>14. ASSUME NEW t \in Tasks, Return(t)
       PROVE  IInv'
  <2>1. /\ at[t] = "ended" /\ UNCHANGED <<blocVars, running, at, early, pc, state, tasks>>
        /\ stage[t] \in {"running", "done"}
        /\ stage' = [stage EXCEPT ![t] = IF stage[t] = "running" THEN "done" ELSE "released"]
    BY <1>14 DEF Return, Manager!Finish, Manager!Release
  <2>2. /\ stage'[t] \in {"done", "released"}
        /\ \A u \in Tasks \ {t} : stage'[u] = stage[u]
    BY <2>1, <1>t DEF WlmTypeOK
  <2>3. Managed' = Managed
    BY <2>1, <2>2 DEF Managed
  <2>4. CountedWhileManaged' /\ Ordered' /\ Behind'
    BY <2>1, <2>2, <2>3 DEF IInv, CountedWhileManaged, Ordered, Behind
  <2>5. PathOf(t)'
    BY <2>1, <2>2 DEF IInv, Path, PathOf
  <2>6. Path'
    BY <2>1, <2>2, <2>5, OthersKeepPath DEF IInv, Path
  <2>7. Shape'
    BY <2>1, <2>2, <2>3 DEF IInv, Shape, Managed
  <2> QED BY <1>t, <2>4, <2>6, <2>7 DEF IInv
<1>15. CASE UNCHANGED vars
  BY <1>15, <1>q DEF IInv, Shape, Managed, BlocInit
<1> QED
  BY <1>1, <1>2, <1>3, <1>4, <1>5, <1>6, <1>7, <1>10, <1>11, <1>12, <1>13, <1>14, <1>15
     DEF Next, RunThread, TaskThread, Over

LEMMA InvCorrect == Spec => []IInv
<1>1. IInv /\ [Next]_vars => IInv'
  BY InvStep
<1> QED BY <1>1, InvInit, PTL DEF Spec

(* The loop counts a task as running exactly while the manager has it and  *)
(* it has not reported its end.                                            *)
THEOREM CountsWhatIsManaged == Spec => []CountedWhileManaged
<1>1. IInv => CountedWhileManaged
  BY DEF IInv
<1> QED BY <1>1, InvCorrect, PTL

-----------------------------------------------------------------------------
(* The manager, as the loop uses it.                                       *)

LEMMA ManagerStep == IInv /\ [Next]_vars => [Manager!Next]_(Manager!poolVars)
<1> SUFFICES ASSUME IInv, [Next]_vars PROVE [Manager!Next]_(Manager!poolVars)
  OBVIOUS
<1> USE DEF vars, wlmVars, Manager!poolVars
<1>q. ASSUME UNCHANGED <<stage, holds, open>> PROVE UNCHANGED Manager!poolVars
  BY <1>q
<1>1. CASE Initialise \/ Stop
  BY <1>1 DEF Initialise, Stop, Manager!Next
<1>2. CASE Sleep \/ Awake \/ SpuriousWakeup \/ Select \/ Check \/ LoopEnd \/ UNCHANGED vars
  BY <1>2, <1>q DEF Sleep, Awake, SpuriousWakeup, Select, Check, LoopEnd
<1>3. ASSUME NEW t \in Tasks, Launch(t)
      PROVE  Manager!Next
  <2>1. stage[t] = "new"
    BY <1>3 DEF Launch, IInv, Shape, Managed
  <2>2. Manager!Submit(t)
    BY <1>3, <2>1 DEF Launch, Manager!Submit
  <2> QED BY <2>2 DEF Manager!Next
<1>4. ASSUME NEW t \in Tasks, Begin(t) \/ Return(t)
      PROVE  Manager!Next
  BY <1>4 DEF Begin, Return, Manager!Next
<1>5. ASSUME NEW t \in Tasks,
             \/ LoadStart(t) \/ LoadEnd(t) \/ Connect(t) \/ Run(t) \/ Refuse(t)
             \/ EndTask(t, TRUE) \/ EndTask(t, FALSE)
      PROVE  UNCHANGED Manager!poolVars
  BY <1>5, <1>q DEF LoadStart, LoadEnd, Connect, Run, Refuse, EndTask
<1> QED BY <1>1, <1>2, <1>3, <1>4, <1>5 DEF Next, RunThread, TaskThread, Over

(* Whatever the graph and its failures, the loop uses the manager as       *)
(* TaskPool allows: each task is given once, before the pool is closed,    *)
(* and the pool is closed once, after the last task is released.           *)
THEOREM UsesManager == Spec => ClientOfManager
<1>1. Init => Manager!Init
  BY DEF Init
<1>2. IInv /\ [Next]_vars => [Manager!Next]_(Manager!poolVars)
  BY ManagerStep
<1> QED BY <1>1, <1>2, InvCorrect, PTL DEF Spec, ClientOfManager, Manager!Spec

-----------------------------------------------------------------------------
(* The end of the graph, when every input port is set.                     *)

(* A graph that is finished has no node left but those of tasks reported   *)
(* early, which their threads run all the same; a loop that counts nothing *)
(* runs nothing and has nothing left to run; and only then may the loop    *)
(* announce the end.                                                       *)
Drained ==
  /\ IsFinished => \A t \in Tasks : node[t] \in Ended \/ t \in early
  /\ pc # "start" => bloc # "READY"
  /\ pc \in {"check", "launching", "loopEnd"} /\ numberAll = 0 =>
       running = {} /\ tasks = {} /\ (MaxNbThreads > 0 => NothingReady)
  /\ state = "FINISHED" => IsFinished \/ running = {}
  /\ FinishedButEarly

(* In a graph that is finished no task waits to be loaded or run.          *)
LEMMA FinishedIsIdle ==
  ASSUME IInv, IsFinished, \A t \in Tasks : node[t] \in Ended \/ t \in early
  PROVE  NothingReady
BY DEF NothingReady, Ended, IInv, Path, PathOf

(* A step of the thread of a task.                                         *)
LEMMA DrainedThread ==
  ASSUME IInv, IInv', Drained, NEW t \in running,
         state' = state, UNCHANGED <<tasks, numberAll>>, early \subseteq early',
         IsFinished' => \A u \in Tasks : node'[u] \in Ended \/ u \in early',
         IsFinished => IsFinished', bloc' = bloc \/ bloc' # "READY",
         pc' = pc \/ pc' \notin {"start", "check", "launching", "loopEnd"},
         running' \subseteq running,
         \A u \in Tasks : u \in running' /\ at[u] = "failed" => at'[u] = "failed"
  PROVE  Drained'
<1>1. pc # "start" /\ running # {}
  BY DEF IInv, CountedWhileManaged, Shape, Managed
<1>2. pc' \in {"check", "launching", "loopEnd"} => numberAll' # 0
  BY <1>1 DEF Drained
<1>3. state' = "FINISHED" => IsFinished'
  BY <1>1 DEF Drained
<1>4. IsFinished' => NothingReady'
  BY DEF NothingReady, Ended, IInv, Path, PathOf
<1>5. FinishedButEarly'
  BY <1>3, <1>4 DEF Drained, FinishedButEarly, IInv, WlmTypeOK
<1> QED BY <1>1, <1>2, <1>3, <1>5 DEF Drained

LEMMA DrainedStep ==
  ASSUME Invalid = {}, IInv, Drained, [Next]_vars
  PROVE  Drained'
<1> USE DEF vars, blocVars, loopVars, errorVars, eventVars, wlmVars
<1>t. WlmTypeOK /\ WlmTypeOK' /\ BlocTypeOK /\ BlocTypeOK' /\ IInv'
  BY InvStep DEF IInv, WlmTypeOK
<1>q. ASSUME UNCHANGED <<blocVars, early>>
      PROVE  /\ IsFinished' => \A u \in Tasks : node'[u] \in Ended \/ u \in early'
             /\ IsFinished' <=> IsFinished
             /\ NothingReady' <=> NothingReady
  BY <1>q DEF Drained, IsFinished, NothingReady
<1>1. CASE Initialise
  BY <1>1 DEF Initialise, ExStart, IsFinished, Drained, FinishedButEarly
<1>2. CASE Sleep \/ Awake \/ SpuriousWakeup \/ Check \/ Stop
  <2>1. (state' = "FINISHED" => state = "FINISHED") /\ pc # "start"
    BY <1>2 DEF Sleep, Awake, SpuriousWakeup, Check, Stop
  <2>2. UNCHANGED <<blocVars, early, running, at, tasks, numberAll>>
    BY <1>2 DEF Sleep, Awake, SpuriousWakeup, Check, Stop
  <2>3. pc' \in {"check", "launching", "loopEnd"} => pc = "check"
    BY <1>2 DEF Sleep, Awake, SpuriousWakeup, Check, Stop
  <2> QED BY <1>q, <2>1, <2>2, <2>3 DEF Drained, FinishedButEarly
<1>3. CASE Select
  <2>1. PICK chosen \in SUBSET Candidates :
          /\ Cardinality(chosen) = IF Cardinality(Candidates) < FreeThreads
                                     THEN Cardinality(Candidates) ELSE FreeThreads
          /\ tasks' = chosen /\ numberAll' = Cardinality(running) + Cardinality(chosen)
    BY <1>3 DEF Select
  <2>2. chosen \subseteq Tasks /\ running \subseteq Tasks /\ Candidates \subseteq Tasks
    BY <1>t DEF Candidates, ReadyTasks, WlmTypeOK
  <2>3. numberAll' = 0 => running = {} /\ chosen = {} /\ Cardinality(chosen) = 0
    BY <2>1, <2>2, TaskSets, FS_EmptySet
  <2>4. ASSUME running = {}, chosen = {}, Cardinality(chosen) = 0, MaxNbThreads > 0
        PROVE  NothingReady
    <3>1. FreeThreads # 0
      BY <2>4, FS_EmptySet, WlmAssumption DEF FreeThreads
    <3>2. Candidates = {}
      BY <2>1, <2>2, <2>4, <3>1, TaskSets, FS_EmptySet
    <3>3. CASE IsFinished
      BY <3>3, FinishedIsIdle DEF Drained
    <3>4. CASE bloc = "ACTIVATED"
      BY <2>4, <3>2, <3>4 DEF Candidates, ReadyTasks, NothingReady
    <3>5. bloc # "READY"
      BY <1>3 DEF Select, Drained
    <3> QED BY <1>t, <3>3, <3>4, <3>5 DEF BlocTypeOK, IsFinished
  <2>5. state' = state /\ UNCHANGED <<blocVars, early, running, at>> /\ pc # "start"
    BY <1>3 DEF Select
  <2> QED BY <1>q, <2>1, <2>3, <2>4, <2>5 DEF Drained, FinishedButEarly
<1>4. ASSUME NEW t \in Tasks, Launch(t)
      PROVE  Drained'
  <2>1. state # "FINISHED" /\ state' = state
    BY <1>4 DEF Launch, IInv, Shape
  <2>2. numberAll # 0 /\ numberAll' = numberAll
    BY <1>4 DEF Launch, Drained
  <2> QED BY <1>4, <1>q, <2>1, <2>2 DEF Launch, Drained, FinishedButEarly
<1>5. CASE LoopEnd
  <2>1. /\ UNCHANGED <<blocVars, running, at, early, tasks, numberAll>>
        /\ pc \in {"launching", "loopEnd"} /\ pc' \in {"sleep", "stopping"}
    BY <1>5 DEF LoopEnd
  <2>2. CASE state' = "FINISHED"
    <3>1. IsFinished \/ numberAll = 0
      BY <1>5, <2>2 DEF LoopEnd, More, IInv, Shape
    <3>2. CASE IsFinished
      <4>1. ASSUME NEW t \in running, t \notin early
            PROVE  at[t] = "failed"
        <5>1. /\ t \in Tasks /\ node[t] \in Ended
              /\ stage[t] \in {"waiting", "running"} /\ at[t] # "ended"
          BY <3>2, <4>1, <1>t DEF Drained, IInv, CountedWhileManaged
        <5> QED BY <5>1, <4>1, <1>t DEF IInv, Path, PathOf, WlmTypeOK, Ended
      <4>2. NothingReady
        BY <3>2, FinishedIsIdle DEF Drained
      <4>3. FinishedButEarly'
        BY <4>1, <4>2, <2>1, <1>q, <1>t DEF FinishedButEarly, WlmTypeOK
      <4> QED BY <3>2, <4>3, <2>1, <1>q DEF Drained
    <3>3. CASE numberAll = 0
      <4>1. running = {} /\ (MaxNbThreads > 0 => NothingReady)
        BY <2>1, <3>3 DEF Drained
      <4>2. FinishedButEarly'
        BY <4>1, <2>1, <1>q DEF FinishedButEarly
      <4> QED BY <4>1, <4>2, <2>1, <1>q DEF Drained
    <3> QED BY <3>1, <3>2, <3>3
  <2>3. CASE state' # "FINISHED"
    BY <2>3, <2>1, <1>q DEF Drained, FinishedButEarly
  <2> QED BY <2>2, <2>3
<1>6. ASSUME NEW t \in Tasks, Begin(t) \/ Return(t)
      PROVE  Drained'
  <2>1. /\ UNCHANGED <<blocVars, early, running, loopVars, state>>
        /\ \A u \in Tasks : at[u] = "failed" => at'[u] = "failed"
    <3>1. CASE Begin(t)
      <4>1. at[t] = "none" /\ \E where \in {"load", "refused"} : at' = [at EXCEPT ![t] = where]
        BY <3>1 DEF Begin, Go, Manager!Place, Manager!RunUnplaced, Manager!Begin, IInv, Path,
                    PathOf
      <4> QED BY <3>1, <4>1, <1>t DEF Begin, Go, WlmTypeOK
    <3>2. CASE Return(t)
      BY <3>2 DEF Return
    <3> QED BY <1>6, <3>1, <3>2
  <2>2. FinishedButEarly'
    BY <2>1, <1>q DEF Drained, FinishedButEarly
  <2> QED BY <2>1, <2>2, <1>q DEF Drained
<1>7. ASSUME NEW t \in Tasks,
             LoadStart(t) \/ LoadEnd(t) \/ Connect(t) \/ Run(t) \/ Refuse(t)
      PROVE  Drained'
  <2>1. /\ UNCHANGED <<running, loopVars, state>> /\ early \subseteq early'
        /\ at[t] \notin {"none", "ended", "failed"}
        /\ \E where \in {"loading", "connect", "run", "executing", "failed"} :
             at' = [at EXCEPT ![t] = where]
    BY <1>7 DEF LoadStart, LoadEnd, Connect, Run, Refuse, Go, Early
  <2>2. \A u \in Tasks : at[u] = "failed" => at'[u] = "failed"
    BY <2>1, <1>t DEF WlmTypeOK
  <2>3. IsFinished' => \A u \in Tasks : node'[u] \in Ended \/ u \in early'
    <3>1. CASE UNCHANGED <<blocVars, early>> \/ LoadStart(t)
      BY <3>1, <1>q DEF LoadStart, NotifyStart, IsFinished
    <3>2. CASE Early(t) /\ at[t] \in {"loading", "connect"} /\ node[t] = "TOLOAD"
      <4>1. t \notin early
        BY <3>2 DEF IInv, Path, PathOf
      <4>2. ~IsFinished
        BY <3>2, <4>1 DEF Drained, Ended
      <4>3. IsFinished' => AllEnded(node')
        BY <3>2, <4>2 DEF Early, NotifyAbort, IsFinished
      <4> QED BY <4>3 DEF AllEnded
    <3>3. CASE early' = early /\ bloc' = bloc /\ \E s \in NodeStates : node' = [node EXCEPT ![t] = s]
      <4>1. node[t] \notin Ended \/ t \in early
        BY <1>7, <1>t DEF LoadStart, LoadEnd, Connect, Run, Refuse, IInv, Path, PathOf, Ended
      <4> QED BY <3>3, <4>1, <1>t DEF Drained, IsFinished, BlocTypeOK
    <3>4. at[t] = "loading" => node[t] = "TOLOAD"
      BY DEF IInv, Path, PathOf
    <3> QED BY <1>7, <3>1, <3>2, <3>3, <3>4
            DEF LoadStart, LoadEnd, Connect, Run, Refuse, SetState, NodeStates
  <2>4. IsFinished => IsFinished'
    <3>1. CASE LoadStart(t)
      <4>1. node[t] = "TOLOAD" /\ t \notin early
        BY <3>1 DEF LoadStart, IInv, Path, PathOf
      <4> QED BY <4>1 DEF Drained, Ended
    <3>2. CASE bloc' = bloc \/ NotifyAbort(t)
      BY <3>2 DEF NotifyAbort, Outcome, IsFinished
    <3> QED BY <1>7, <3>1, <3>2 DEF LoadEnd, Connect, Run, Refuse, Early, SetState
  <2>5. bloc' = bloc \/ bloc' # "READY"
    BY <1>7 DEF LoadStart, LoadEnd, Connect, Run, Refuse, Early, SetState, NotifyAbort, Outcome,
                NotifyStart
  <2>6. t \in running
    BY <2>1, RunsInManager
  <2> QED BY <2>1, <2>2, <2>3, <2>4, <2>5, <2>6, <1>t, DrainedThread
<1>8. ASSUME NEW t \in Tasks, NEW ok \in BOOLEAN, EndTask(t, ok)
      PROVE  Drained'
  <2>1. /\ UNCHANGED <<tasks, numberAll, state, early>> /\ running' = running \ {t}
        /\ at' = [at EXCEPT ![t] = "ended"] /\ at[t] \notin {"none", "ended"}
        /\ NotifyFinish(t) \/ NotifyAbort(t)
    BY <1>8 DEF EndTask
  <2>2. pc' = pc \/ pc' = "woken"
    BY <1>8 DEF EndTask, WakeUp
  <2>3. \A u \in Tasks : u \in running' /\ at[u] = "failed" => at'[u] = "failed"
    BY <2>1, <1>t DEF WlmTypeOK
  <2>4. bloc' = bloc \/ (AllEnded(node') /\ bloc' \in {"DONE", "FAILED"})
    BY <2>1 DEF NotifyFinish, FinishLast, FinishForward, FinishThrows, NotifyAbort, Outcome
  <2>5. IsFinished' => \A u \in Tasks : node'[u] \in Ended \/ u \in early'
    <3>1. CASE AllEnded(node')
      BY <3>1 DEF AllEnded
    <3>2. CASE bloc' = bloc
      <4>1. node'[t] \in Ended /\ \A u \in Tasks \ {t} :
               \/ node'[u] = node[u]
               \/ node[u] = "READY" /\ node'[u] = "TOLOAD"
               \/ u \in After[t] /\ node'[u] = "FAILED"
        BY <2>1, <1>t, AbortNodes, FinishNodes DEF Ended
      <4>2. \A u \in Tasks : node[u] = "READY" => u \notin early
        BY <1>t DEF IInv, Path, PathOf, WlmTypeOK
      <4> QED BY <2>1, <3>2, <4>1, <4>2 DEF Drained, IsFinished, Ended
    <3> QED BY <2>4, <3>1, <3>2
  <2>6. (IsFinished => IsFinished') /\ (bloc' = bloc \/ bloc' # "READY")
    BY <2>4 DEF IsFinished
  <2>7. t \in running
    BY <2>1, RunsInManager
  <2> QED BY <2>1, <2>2, <2>3, <2>5, <2>6, <2>7, <1>t, DrainedThread
<1>9. CASE UNCHANGED vars
  BY <1>9, <1>q DEF Drained, FinishedButEarly
<1> QED
  BY <1>1, <1>2, <1>3, <1>4, <1>5, <1>6, <1>7, <1>8, <1>9
     DEF Next, RunThread, TaskThread, Over

LEMMA DrainedCorrect ==
  ASSUME Invalid = {}
  PROVE  Spec => []Drained
<1>1. Init => Drained
  BY DEF Init, BlocInit, Drained, IsFinished, FinishedButEarly
<1>2. IInv /\ Drained /\ [Next]_vars => Drained'
  BY DrainedStep
<1> QED BY <1>1, <1>2, InvCorrect, PTL DEF Spec

(* For every graph whose input ports are all set: when the run is          *)
(* announced as finished, a task still in the hands of the manager is one  *)
(* whose failure in load or connection was reported, or that failTask has  *)
(* set in error; and unless no thread is allowed, no node is loadable or   *)
(* waits to be run, nor becomes so later.                                  *)
THEOREM FinishedIsEarly ==
  ASSUME Invalid = {}
  PROVE  Spec => []FinishedButEarly
<1>1. Drained => FinishedButEarly
  BY DEF Drained
<1> QED BY <1>1, DrainedCorrect, PTL

-----------------------------------------------------------------------------
(* The sleep of the loop, when every input port is set.                    *)

Loop == {"sleep", "asleep", "woken", "select", "check", "launching"}

(* Every ready task is about to be given to the manager, or the threads    *)
(* are all promised.                                                       *)
Offered == Candidates \subseteq tasks \/ Cardinality(running \union tasks) >= MaxNbThreads

(* Unless a task has ended since it was last looked at, the graph holds no *)
(* task that the loop has left aside; the end of a task wakes it up, or is *)
(* counted, or is missed because a wait had returned for no reason.        *)
Watch ==
  /\ pc \in Loop \union {"start", "stopping", "over"}
  /\ pc \in Loop => state = "RUNNING"
  /\ pc = "asleep" => isWaiting /\ running # {} /\ ended = 0
  /\ ~Spurious => ~missed /\ (isWaiting => pc = "asleep")
  /\ pc \in {"sleep", "asleep"} => tasks = {}
  /\ ended = 0 /\ ~missed /\ pc \in {"check", "launching", "asleep", "sleep"} =>
       Offered \/ (pc = "sleep" /\ running = {})

(* The threads that are free are all used, or no candidate is left.        *)
LEMMA SelectOffers ==
  ASSUME IInv, Select
  PROVE  Offered'
<1>1. PICK chosen \in SUBSET Candidates :
        /\ Cardinality(chosen) = IF Cardinality(Candidates) < FreeThreads
                                   THEN Cardinality(Candidates) ELSE FreeThreads
        /\ tasks' = chosen
  BY DEF Select
<1>2. /\ running \subseteq Tasks /\ Candidates \subseteq Tasks /\ chosen \subseteq Tasks
      /\ chosen \intersect running = {}
  BY DEF Candidates, ReadyTasks, IInv, WlmTypeOK
<1>3. /\ IsFiniteSet(running) /\ IsFiniteSet(chosen) /\ IsFiniteSet(Candidates)
      /\ Cardinality(running) \in Nat /\ Cardinality(chosen) \in Nat
      /\ Cardinality(Candidates) \in Nat
  BY <1>2, TaskSets
<1>4. Candidates' = Candidates /\ running' = running
  BY DEF Select, blocVars, Candidates, ReadyTasks
<1>5. CASE Cardinality(Candidates) < FreeThreads
  <2>1. chosen = Candidates
    BY <1>1, <1>3, <1>5, FS_Subset
  <2> QED BY <1>1, <1>4, <2>1 DEF Offered
<1>6. CASE ~(Cardinality(Candidates) < FreeThreads)
  <2>1. Cardinality(chosen) = FreeThreads
    BY <1>1, <1>6
  <2>2. Cardinality(running) + Cardinality(chosen) >= MaxNbThreads
    BY <1>3, <2>1, WlmAssumption DEF FreeThreads
  <2>3. Cardinality(running \union chosen)
          = Cardinality(running) + Cardinality(chosen) - Cardinality(running \intersect chosen)
    BY <1>3, FS_Union
  <2>4. running \intersect chosen = {} /\ Cardinality(running \intersect chosen) = 0
    BY <1>2, FS_EmptySet
  <2> QED BY <1>1, <1>3, <1>4, <2>2, <2>3, <2>4 DEF Offered
<1> QED BY <1>5, <1>6

LEMMA WatchStep ==
  ASSUME Invalid = {}, IInv, Drained, Watch, [Next]_vars
  PROVE  Watch'
<1> USE DEF vars, blocVars, loopVars, errorVars, eventVars, wlmVars
<1>t. WlmTypeOK /\ WlmTypeOK' /\ BlocTypeOK /\ BlocTypeOK' /\ IInv'
  BY InvStep DEF IInv, WlmTypeOK
<1>o. ASSUME UNCHANGED <<blocVars, tasks, running>> PROVE Offered' <=> Offered
  BY <1>o DEF Offered, Candidates, ReadyTasks
<1>1. CASE Initialise
  <2>1. running = {} /\ tasks = {}
    BY <1>1, <1>t
       DEF Initialise, IInv, Shape, Managed, CountedWhileManaged, BlocInit, WlmTypeOK
  <2>2. pc' = "sleep" /\ state' = "RUNNING"
    BY <1>1 DEF Initialise
  <2>3. UNCHANGED eventVars /\ pc = "start" /\ running' = {} /\ tasks' = {}
    BY <1>1, <2>1 DEF Initialise
  <2> QED BY <2>2, <2>3 DEF Watch, Loop
<1>2. CASE Sleep
  <2>1. CASE running # {} /\ ended = 0
    BY <1>2, <2>1, <1>o DEF Sleep, Watch, Loop
  <2>2. CASE ~(running # {} /\ ended = 0)
    BY <1>2, <2>2 DEF Sleep, Watch, Loop
  <2> QED BY <2>1, <2>2
<1>3. CASE Awake \/ SpuriousWakeup \/ Stop
  BY <1>3 DEF Awake, SpuriousWakeup, Stop, Watch, Loop
<1>4. CASE Select
  BY <1>4, SelectOffers DEF Select, Watch, Loop
<1>5. CASE Check
  <2>1. pc' \in {"launching", "stopping"} /\ (pc' = "launching" => state' = state)
    BY <1>5 DEF Check, Watch, Loop
  <2> QED BY <1>5, <2>1, <1>o DEF Check, Watch, Loop
<1>6. CASE LoopEnd
  <2>1. pc = "launching" /\ tasks = {}
    BY <1>6 DEF LoopEnd, Watch, Loop
  <2>2. pc' = "stopping" \/ (pc' = "sleep" /\ state' = state)
    BY <1>6 DEF LoopEnd
  <2> QED BY <1>6, <2>1, <2>2, <1>o DEF LoopEnd, Watch, Loop
<1>7. ASSUME NEW t \in Tasks, Launch(t)
      PROVE  Watch'
  <2>1. Candidates' = Candidates \ {t} /\ tasks' = tasks \ {t}
        /\ running' \union tasks' = running \union tasks
    BY <1>7 DEF Launch, Candidates, ReadyTasks
  <2>2. Offered => Offered'
    BY <2>1 DEF Offered
  <2> QED BY <1>7, <2>2 DEF Launch, Watch, Loop
<1>8. ASSUME UNCHANGED <<loopVars, state, eventVars, running, tasks>>,
             Candidates' \subseteq Candidates
      PROVE  Watch'
  <2>1. Offered => Offered'
    BY <1>8 DEF Offered
  <2> QED BY <1>8, <2>1 DEF Watch, Loop
<1>9. ASSUME NEW t \in Tasks, Begin(t) \/ Return(t)
      PROVE  Watch'
  <2>1. UNCHANGED <<blocVars, loopVars, state, eventVars, running, tasks>>
    BY <1>9 DEF Begin, Return, Go
  <2>2. Candidates' = Candidates
    BY <2>1 DEF Candidates, ReadyTasks
  <2> QED BY <2>1, <2>2, <1>8
<1>10. ASSUME NEW t \in Tasks,
              LoadStart(t) \/ LoadEnd(t) \/ Connect(t) \/ Run(t) \/ Refuse(t)
       PROVE  Watch'
  <2>1. /\ UNCHANGED <<loopVars, state, eventVars, running, tasks>>
        /\ at[t] \notin {"none", "ended"}
    BY <1>10 DEF LoadStart, LoadEnd, Connect, Run, Refuse, Go
  <2>2. t \in running
    BY <2>1, RunsInManager
  <2>3. \A u \in Tasks \ {t} : node'[u] \in {node[u], "FAILED"}
    <3>1. CASE NotifyAbort(t)
      BY <3>1, <1>t, AbortNodes
    <3>2. CASE node' = node \/ \E s \in NodeStates : SetState(t, s)
      BY <3>2, <1>t DEF SetState, BlocTypeOK
    <3> QED BY <1>10, <3>1, <3>2
            DEF LoadStart, LoadEnd, Connect, Run, Refuse, Early, NotifyStart, NodeStates
  <2>4. bloc' = "ACTIVATED" => bloc = "ACTIVATED"
    <3>1. CASE LoadStart(t)
      <4>1. node[t] = "TOLOAD" /\ t \notin early /\ pc # "start"
        BY <3>1, <2>1, RunsInManager DEF LoadStart, IInv, Path, PathOf
      <4> QED BY <4>1, <1>t DEF Drained, IsFinished, Ended, BlocTypeOK
    <3>2. CASE bloc' = bloc \/ NotifyAbort(t)
      BY <3>2 DEF NotifyAbort, Outcome
    <3> QED BY <1>10, <3>1, <3>2 DEF LoadEnd, Connect, Run, Refuse, Early, SetState
  <2>5. Candidates' \subseteq Candidates
    BY <2>1, <2>2, <2>3, <2>4 DEF Candidates, ReadyTasks
  <2> QED BY <2>1, <2>5, <1>8
<1>11. ASSUME NEW t \in Tasks, NEW ok \in BOOLEAN, EndTask(t, ok)
       PROVE  Watch'
  <2>1. UNCHANGED <<tasks, state>>
    BY <1>11 DEF EndTask
  <2>2. CASE state = "PAUSED"
    BY <1>11, <2>1, <2>2 DEF EndTask, Watch, Loop
  <2>3. CASE state # "PAUSED"
    <3>1. WakeUp
      BY <1>11, <2>3 DEF EndTask
    <3>2. ~isWaiting' /\ pc' # "asleep"
      BY <3>1 DEF WakeUp, Watch
    <3>3. pc' = pc \/ (pc' = "woken" /\ pc = "asleep")
      BY <3>1 DEF WakeUp
    <3>4. pc' = "woken" \/ missed' \/ ended' # 0
      BY <3>1, <1>t DEF WakeUp, WlmTypeOK
    <3>5. ~Spurious => ~missed'
      BY <3>1 DEF WakeUp, Watch
    <3> QED BY <2>1, <3>2, <3>3, <3>4, <3>5 DEF Watch, Loop
  <2> QED BY <2>2, <2>3
<1>12. CASE UNCHANGED vars
  BY <1>12, <1>o DEF Watch, Loop
<1> QED
  BY <1>1, <1>2, <1>3, <1>4, <1>5, <1>6, <1>7, <1>9, <1>10, <1>11, <1>12
     DEF Next, RunThread, TaskThread, Over

LEMMA WatchCorrect ==
  ASSUME Invalid = {}
  PROVE  Spec => [](IInv /\ Watch)
<1>1. Init => Watch
  BY DEF Init, Watch, Loop
<1>2. IInv /\ Drained /\ Watch /\ [Next]_vars => Watch'
  BY WatchStep
<1> QED BY <1>1, <1>2, InvCorrect, DrainedCorrect, PTL DEF Spec

(* For every graph whose input ports are all set, the loop sleeps only     *)
(* while a task runs, and a ready task that it sleeps over, with a thread  *)
(* left for it, is one whose event came after a wait had returned for no   *)
(* reason.                                                                 *)
THEOREM SleepsOverMissed ==
  ASSUME Invalid = {}
  PROVE  Spec => []AsleepOverMissed
<1>1. IInv /\ Watch => AsleepOverMissed
  <2> SUFFICES ASSUME IInv, Watch, pc = "asleep", ~missed
               PROVE  running # {} /\ (Candidates = {} \/ FreeThreads = 0)
    BY DEF AsleepOverMissed, Watch
  <2>1. running # {} /\ tasks = {} /\ Offered
    BY DEF Watch
  <2>2. running \union tasks = running /\ Cardinality(running) \in Nat
    BY <2>1, TaskSets DEF IInv, WlmTypeOK
  <2> QED BY <2>1, <2>2, WlmAssumption DEF Offered, FreeThreads
<1> QED BY <1>1, WatchCorrect, PTL

(* With waits that return for events only, the loop leaves no ready task   *)
(* aside that a thread is left for.                                        *)
THEOREM SleepsOverNothing ==
  ASSUME Invalid = {}, ~Spurious
  PROVE  Spec => []AsleepOverNothing
<1>1. Watch /\ AsleepOverMissed => AsleepOverNothing
  BY DEF AsleepOverMissed, AsleepOverNothing, Watch
<1> QED BY <1>1, WatchCorrect, SleepsOverMissed, PTL

-----------------------------------------------------------------------------
(* The run is a Workflow, when every input port is set.                    *)

(* A task that fails is told to those behind it only by endTask.           *)
BehindFailed(t) == \E s \in Tasks : at[s] = "failed" /\ t \in After[s]

LEMMA Outcomes ==
  ASSUME BlocTypeOK, NEW t \in Tasks
  PROVE  /\ Gone(t) => Seen(t) = "failed"
         /\ ~Gone(t) /\ node[t] \in {"READY", "TOLOAD", "TOACTIVATE"} => Seen(t) = "idle"
         /\ ~Gone(t) /\ node[t] = "ACTIVATED" => Seen(t) = "running"
         /\ ~Gone(t) /\ node[t] = "DONE" => Seen(t) = "done"
BY DEF BlocTypeOK, NodeStates, Seen, Gone, BehindFailed

(* An operation that does not change what is seen of t.                    *)
LEMMA SameOutcome ==
  ASSUME BlocTypeOK, BlocTypeOK', NEW t \in Tasks, Gone(t)' <=> Gone(t),
         \/ Gone(t)
         \/ node'[t] = node[t]
         \/ {node[t], node'[t]} \subseteq {"READY", "TOLOAD", "TOACTIVATE"}
  PROVE  Seen(t)' = Seen(t)
BY DEF BlocTypeOK, NodeStates, Seen, Gone, BehindFailed

(* A task with the manager, or that has started, is behind no failure.     *)
LEMMA NotBehind ==
  ASSUME IInv, NEW t \in Tasks, t \in Managed \/ node[t] \in Started
  PROVE  ~BehindFailed(t)
BY DEF IInv, Behind, Ordered, Path, PathOf, BehindFailed

(* A task of the manager may begin or be given up: those before it are     *)
(* done.                                                                   *)
LEMMA ManagedIsReady ==
  ASSUME IInv, NEW t \in Managed, t \notin early, node[t] \in {"TOLOAD", "TOACTIVATE"}
  PROVE  Work!Ready(t)
<1>1. t \in Tasks /\ Seen(t) = "idle"
  BY NotBehind, Outcomes DEF Managed, Gone, BehindFailed, IInv, WlmTypeOK
<1>2. ASSUME NEW u \in Tasks, <<u, t>> \in Links
      PROVE  Seen(u) = "done"
  <2>1. t \in After[u]
    BY <1>1, <1>2, BlocAssumption DEF Successors
  <2>2. node[u] = "DONE" /\ u \notin early
    BY <2>1 DEF IInv, Behind
  <2>3. ~BehindFailed(u)
    BY <2>2, NotBehind DEF Started
  <2> QED BY <2>2, <2>3, Outcomes DEF Gone, BehindFailed, IInv, WlmTypeOK
<1> QED BY <1>1, <1>2 DEF Work!Ready

(* Before a task runs, or fails to be loaded, the run is not over.         *)
LEMMA NotOver ==
  ASSUME IInv, Drained, NEW t \in Tasks, at[t] \notin {"none", "ended", "failed"},
         t \notin early
  PROVE  state \notin {"FINISHED", "STOPPED"}
<1>1. t \in running /\ pc # "over"
  BY RunsInManager
<1> QED BY <1>1 DEF Drained, FinishedButEarly, IInv, Shape

LEMMA QuietWork ==
  ASSUME \A t \in Tasks : Seen(t)' = Seen(t),
         state \in {"FINISHED", "STOPPED"} => state' \in {"FINISHED", "STOPPED"}
  PROVE  [Work!Next]_(Work!workVars)
BY DEF Work!Next, Work!End, Work!workVars

(* A step that fails t, and those behind it, for whoever looks.            *)
LEMMA FailsBehind ==
  ASSUME BlocTypeOK, BlocTypeOK', NEW t \in Tasks,
         \A u \in {t} \union After[t] : Gone(u)',
         \A u \in Tasks \ ({t} \union After[t]) :
           node'[u] = node[u] /\ (Gone(u)' <=> Gone(u))
  PROVE  [u \in Tasks |-> Seen(u)]' = Work!GivenUp({t} \union After[t])
<1>1. ASSUME NEW u \in Tasks
      PROVE  Seen(u)' = IF u \in {t} \union After[t] THEN "failed" ELSE Seen(u)
  <2>1. CASE u \in {t} \union After[t]
    BY <2>1 DEF Seen, Gone, BehindFailed
  <2>2. CASE u \notin {t} \union After[t]
    BY <2>2, SameOutcome
  <2> QED BY <2>1, <2>2
<1> QED BY <1>1 DEF Work!GivenUp

LEMMA WorkStep ==
  ASSUME Invalid = {}, IInv, Drained, [Next]_vars
  PROVE  [Work!Next]_(Work!workVars)
<1> USE DEF vars, blocVars, loopVars, errorVars, eventVars, wlmVars
<1>t. WlmTypeOK /\ WlmTypeOK' /\ BlocTypeOK /\ BlocTypeOK' /\ IInv'
  BY InvStep DEF IInv, WlmTypeOK
<1>q. ASSUME node' = node, early' = early,
             \A s \in Tasks : at'[s] = "failed" <=> at[s] = "failed",
             state \in {"FINISHED", "STOPPED"} => state' \in {"FINISHED", "STOPPED"}
      PROVE  [Work!Next]_(Work!workVars)
  <2>1. \A u \in Tasks : Gone(u)' <=> Gone(u)
    BY <1>q DEF Gone, BehindFailed
  <2> QED BY <1>q, <1>t, <2>1, SameOutcome, QuietWork
<1>f. state \in {"FINISHED", "STOPPED"} => pc \notin {"check", "launching", "loopEnd"}
  BY DEF IInv, Shape
<1>1. CASE Initialise
  <2>1. /\ \A u \in Tasks : node[u] = "READY" /\ node'[u] \in {"READY", "TOLOAD"}
        /\ UNCHANGED <<at, early>> /\ state \notin {"FINISHED", "STOPPED"}
    BY <1>1 DEF Initialise, IInv, Shape, BlocInit, ExStart, ExUpdateState
  <2>2. \A u \in Tasks : Gone(u)' <=> Gone(u)
    BY <2>1 DEF Gone, BehindFailed
  <2> QED BY <2>1, <2>2, <1>t, SameOutcome, QuietWork
<1>2. CASE Sleep \/ Awake \/ SpuriousWakeup \/ Select \/ Check \/ LoopEnd \/ Stop
  BY <1>2, <1>q, <1>f DEF Sleep, Awake, SpuriousWakeup, Select, Check, LoopEnd, Stop
<1>3. ASSUME NEW t \in Tasks, Launch(t) \/ Return(t)
      PROVE  [Work!Next]_(Work!workVars)
  BY <1>3, <1>q DEF Launch, Return
<1>4. ASSUME NEW t \in Tasks, Begin(t)
      PROVE  [Work!Next]_(Work!workVars)
  <2>1. at[t] = "none" /\ \E where \in {"load", "refused"} : at' = [at EXCEPT ![t] = where]
    BY <1>4 DEF Begin, Go, Manager!Place, Manager!RunUnplaced, Manager!Begin, IInv, Path, PathOf
  <2>2. \A s \in Tasks : at'[s] = "failed" <=> at[s] = "failed"
    BY <2>1, <1>t DEF WlmTypeOK
  <2> QED BY <1>4, <2>2, <1>q DEF Begin, Go
<1>s. ASSUME NEW t \in Tasks, at[t] # "failed", state' = state,
             \E where \in {"loading", "connect", "run", "executing", "ended"} :
               at' = [at EXCEPT ![t] = where]
      PROVE  /\ \A s \in Tasks : at'[s] = "failed" <=> at[s] = "failed"
             /\ \A u \in Tasks : BehindFailed(u)' <=> BehindFailed(u)
  <2>1. \A s \in Tasks : at'[s] = "failed" <=> at[s] = "failed"
    BY <1>s, <1>t DEF WlmTypeOK
  <2> QED BY <2>1 DEF BehindFailed
<1>5. ASSUME NEW t \in Tasks, NEW where \in {"connect", "run"}, Early(t), Go(t, where),
             node[t] = "TOLOAD", at[t] \in {"loading", "connect"}
      PROVE  [Work!Next]_(Work!workVars)
  <2>1. t \notin early /\ t \in Managed
    BY <1>5, RunsInManager DEF IInv, Path, PathOf
  <2>2. \A u \in Tasks : BehindFailed(u)' <=> BehindFailed(u)
    BY <1>5, <1>s DEF Go
  <2>3. [u \in Tasks |-> Seen(u)]' = Work!GivenUp({t} \union After[t])
    BY <1>5, <1>t, <2>2, AbortNodes, FailsBehind, BlocAssumption DEF Early, Gone, BehindFailed
  <2>4. state' = state /\ state \notin {"FINISHED", "STOPPED"}
    BY <1>5, <2>1, NotOver DEF Go
  <2>5. Work!GiveUp(t)
    BY <1>5, <2>1, <2>3, <2>4, ManagedIsReady DEF Work!GiveUp
  <2> QED BY <2>5 DEF Work!Next
<1>6. ASSUME NEW t \in Tasks, LoadStart(t) \/ LoadEnd(t)
      PROVE  [Work!Next]_(Work!workVars)
  <2>1. /\ at[t] \in {"load", "loading"} /\ node[t] = "TOLOAD"
        /\ \E where \in {"loading", "connect"} : Go(t, where)
    BY <1>6 DEF LoadStart, LoadEnd, IInv, Path, PathOf
  <2>2. CASE LoadEnd(t) /\ Early(t)
    BY <2>1, <2>2, <1>5 DEF LoadEnd
  <2>3. CASE node' = node /\ early' = early
    BY <2>1, <2>3, <1>s, <1>q DEF Go
  <2> QED BY <1>6, <2>2, <2>3 DEF LoadStart, LoadEnd, NotifyStart
<1>7. ASSUME NEW t \in Tasks, Connect(t)
      PROVE  [Work!Next]_(Work!workVars)
  <2>1. at[t] = "connect" /\ Go(t, "run")
    BY <1>7 DEF Connect
  <2>2. CASE node[t] = "TOLOAD" /\ Early(t)
    BY <2>1, <2>2, <1>5
  <2>3. CASE UNCHANGED <<blocVars, early>>
    BY <2>1, <2>3, <1>s, <1>q DEF Go
  <2>4. CASE node[t] = "TOLOAD" /\ SetState(t, "TOACTIVATE") /\ UNCHANGED early
    <3>1. \A u \in Tasks : BehindFailed(u)' <=> BehindFailed(u)
      BY <2>1, <1>s DEF Go
    <3>2. /\ node'[t] = "TOACTIVATE"
          /\ \A u \in Tasks \ {t} : node'[u] = node[u]
      BY <2>4, <1>t DEF SetState, BlocTypeOK
    <3>3. \A u \in Tasks : Gone(u)' <=> Gone(u)
      BY <2>4, <3>1, <3>2 DEF Gone, BehindFailed
    <3> QED BY <2>1, <2>4, <3>2, <3>3, <1>t, SameOutcome, QuietWork DEF Go
  <2> QED BY <1>7, <2>2, <2>3, <2>4 DEF Connect
<1>8. ASSUME NEW t \in Tasks, Run(t)
      PROVE  [Work!Next]_(Work!workVars)
  <2>1. at[t] = "run" /\ Go(t, "executing") /\ early' = early /\ t \in Managed
    BY <1>8, RunsInManager DEF Run
  <2>2. node'[t] = "ACTIVATED" /\ \A u \in Tasks \ {t} : node'[u] = node[u]
    BY <1>8, <1>t DEF Run, SetState, BlocTypeOK
  <2>3. \A u \in Tasks : BehindFailed(u)' <=> BehindFailed(u)
    BY <2>1, <1>s DEF Go
  <2>4. \A u \in Tasks \ {t} : Seen(u)' = Seen(u)
    BY <2>1, <2>2, <2>3, <1>t, SameOutcome DEF Gone, BehindFailed
  <2>5. CASE t \in early
    <3>1. Seen(t)' = Seen(t)
      BY <2>1, <2>5, <1>t, SameOutcome DEF Gone, BehindFailed
    <3> QED BY <2>1, <2>4, <3>1, QuietWork DEF Go
  <2>6. CASE t \notin early
    <3>1. node[t] = "TOACTIVATE"
      BY <2>1, <2>6 DEF IInv, Path, PathOf
    <3>2. Seen(t)' = "running"
      BY <2>1, <2>2, <2>3, <2>6, <1>t, NotBehind DEF Gone, BehindFailed, Seen
    <3>3. state' = state /\ state \notin {"FINISHED", "STOPPED"}
      BY <2>1, <2>6, NotOver DEF Go
    <3>4. Work!Begin(t)
      BY <2>1, <2>4, <2>6, <3>1, <3>2, <3>3, ManagedIsReady DEF Work!Begin
    <3> QED BY <3>4 DEF Work!Next
  <2> QED BY <2>5, <2>6
<1>9. ASSUME NEW t \in Tasks, Refuse(t)
      PROVE  [Work!Next]_(Work!workVars)
  <2>1. /\ at[t] = "refused" /\ Go(t, "failed") /\ early' = early /\ t \in Managed
        /\ node[t] = "TOLOAD" /\ t \notin early
    BY <1>9, RunsInManager DEF Refuse, IInv, Path, PathOf
  <2>2. node'[t] = "ERROR" /\ \A u \in Tasks \ {t} : node'[u] = node[u]
    BY <1>9, <1>t DEF Refuse, SetState, BlocTypeOK
  <2>3. \A s \in Tasks : at'[s] = "failed" <=> s = t \/ at[s] = "failed"
    BY <2>1, <1>t DEF Go, WlmTypeOK
  <2>4. \A u \in Tasks : BehindFailed(u)' <=> BehindFailed(u) \/ u \in After[t]
    BY <2>3 DEF BehindFailed
  <2>5. [u \in Tasks |-> Seen(u)]' = Work!GivenUp({t} \union After[t])
    BY <2>1, <2>2, <2>4, <1>t, FailsBehind, BlocAssumption DEF Gone, BehindFailed
  <2>6. state' = state /\ state \notin {"FINISHED", "STOPPED"}
    BY <2>1, NotOver DEF Go
  <2>7. Work!GiveUp(t)
    BY <2>1, <2>5, <2>6, ManagedIsReady DEF Work!GiveUp
  <2> QED BY <2>7 DEF Work!Next
<1>10. ASSUME NEW t \in Tasks, NEW ok \in BOOLEAN, EndTask(t, ok)
       PROVE  [Work!Next]_(Work!workVars)
  <2>1. /\ at[t] \in {"executing", "failed"} /\ at' = [at EXCEPT ![t] = "ended"]
        /\ (at[t] = "executing" /\ NotifyFinish(t)) \/ NotifyAbort(t)
        /\ UNCHANGED <<state, early>>
    BY <1>10 DEF EndTask
  <2>2. t \in Managed /\ ~BehindFailed(t) /\ t \notin After[t]
    BY <2>1, RunsInManager, NotBehind, BlocAssumption
  <2>3. CASE at[t] = "failed"
    <3>1. \A s \in Tasks : at'[s] = "failed" <=> at[s] = "failed" /\ s # t
      BY <2>1, <1>t DEF WlmTypeOK
    <3>2. node[t] = "ERROR" /\ node' = [u \in Tasks |-> IF u \in After[t] THEN "FAILED"
                                                        ELSE IF u = t THEN "ERROR" ELSE node[u]]
      BY <2>1, <2>3, <1>t, AbortNodes DEF IInv, Path, PathOf
    <3>3. \A u \in After[t] : Gone(u) /\ Gone(u)'
      BY <2>3, <3>2, BlocAssumption DEF Gone, BehindFailed
    <3>4. \A u \in Tasks \ After[t] : node'[u] = node[u] /\ (Gone(u)' <=> Gone(u))
      BY <2>1, <3>1, <3>2 DEF Gone, BehindFailed
    <3>5. \A u \in Tasks : Seen(u)' = Seen(u)
      BY <3>3, <3>4, <1>t, SameOutcome
    <3> QED BY <2>1, <3>5, QuietWork
  <2>4. CASE at[t] = "executing"
    <3>1. \A u \in Tasks : BehindFailed(u)' <=> BehindFailed(u)
      BY <2>1, <2>4, <1>s
    <3>2. node[t] = "ACTIVATED"
      BY <2>4 DEF IInv, Path, PathOf
    <3>3. CASE t \in early
      <4>1. \A u \in After[t] : node[u] = "FAILED" /\ node'[u] = "FAILED"
        BY <2>1, <2>2, <3>3, <1>t, AbortNodes, FinishNodes, BlocAssumption DEF IInv, Behind
      <4>2. \A u \in Tasks : Seen(u)' = Seen(u)
        <5>1. \A u \in After[t] \union {t} : Gone(u) /\ Gone(u)'
          BY <2>1, <3>3, <4>1 DEF Gone, BehindFailed
        <5>2. \A u \in Tasks \ (After[t] \union {t}) :
                 node'[u] = node[u] \/ (node[u] = "READY" /\ node'[u] = "TOLOAD")
          BY <2>1, <1>t, AbortNodes, FinishNodes
        <5>3. \A u \in Tasks \ (After[t] \union {t}) : Gone(u)' <=> Gone(u)
          BY <2>1, <3>1, <5>2 DEF Gone, BehindFailed
        <5> QED BY <5>1, <5>2, <5>3, <1>t, SameOutcome
      <4> QED BY <2>1, <4>2, QuietWork
    <3>4. CASE t \notin early
      <4>1. [u \in Tasks |-> Seen(u)][t] = "running"
        BY <2>2, <3>2, <3>4, <1>t, Outcomes DEF Gone, BehindFailed
      <4>2. CASE NotifyAbort(t)
        <5>1. [u \in Tasks |-> Seen(u)]' = Work!GivenUp({t} \union After[t])
          BY <4>2, <2>1, <3>1, <1>t, AbortNodes, FailsBehind, BlocAssumption DEF Gone, BehindFailed
        <5>2. Work!Fail(t)
          BY <4>1, <5>1, <2>1 DEF Work!Fail
        <5> QED BY <5>2 DEF Work!Next
      <4>3. CASE NotifyFinish(t)
        <5>1. /\ node'[t] = "DONE"
              /\ \A u \in Tasks \ {t} :
                   node'[u] = node[u] \/ (node[u] = "READY" /\ node'[u] = "TOLOAD")
          BY <4>3, <1>t, FinishNodes
        <5>2. \A u \in Tasks \ {t} : Gone(u)' <=> Gone(u)
          BY <2>1, <3>1, <5>1 DEF Gone, BehindFailed
        <5>3. \A u \in Tasks \ {t} : Seen(u)' = Seen(u)
          BY <5>1, <5>2, <1>t, SameOutcome
        <5>4. Seen(t)' = "done"
          BY <2>1, <2>2, <3>1, <3>4, <5>1, <1>t DEF Gone, BehindFailed, Seen
        <5>5. [u \in Tasks |-> Seen(u)]' = [Work!GivenUp({}) EXCEPT ![t] = "done"]
          BY <5>3, <5>4 DEF Work!GivenUp
        <5>6. Work!Finish(t)
          BY <4>1, <5>5, <2>1 DEF Work!Finish
        <5> QED BY <5>6 DEF Work!Next
      <4> QED BY <2>1, <4>2, <4>3
    <3> QED BY <3>3, <3>4
  <2> QED BY <2>1, <2>3, <2>4
<1>11. CASE UNCHANGED vars
  BY <1>11, <1>q
<1> QED
  BY <1>1, <1>2, <1>3, <1>4, <1>6, <1>7, <1>8, <1>9, <1>10, <1>11
     DEF Next, RunThread, TaskThread, Over

(* For every graph whose input ports are all set, the run through the      *)
(* manager, seen without its threads and its tasks that fail twice, is a   *)
(* Workflow: a task runs at most once, after those it depends on, never    *)
(* behind a failure, and none starts once the run is over.                 *)
THEOREM WlmImplementsWorkflow ==
  ASSUME Invalid = {}
  PROVE  Spec => IsWorkflow
<1>1. Init => Work!Init
  <2> SUFFICES ASSUME Init PROVE Work!Init
    OBVIOUS
  <2>1. \A u \in Tasks : Seen(u) = "idle"
    BY DEF Init, BlocInit, Seen, Gone
  <2> QED BY <2>1 DEF Init, Work!Init
<1>2. IInv /\ Drained /\ [Next]_vars => [Work!Next]_(Work!workVars)
  BY WorkStep
<1> QED BY <1>1, <1>2, InvCorrect, DrainedCorrect, PTL DEF Spec, IsWorkflow, Work!Spec
=============================================================================
