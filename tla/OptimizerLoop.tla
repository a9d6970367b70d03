--------------------------- MODULE OptimizerLoop ----------------------------
(***************************************************************************)
(* src/src/engine/OptimizerLoop.cxx, Pool.cxx, OptimizerAlg.cxx: a loop    *)
(* that evaluates in parallel branches the samples an algorithm puts in a  *)
(* pool.  The algorithm is asked for a decision after each result: it      *)
(* pushes samples, or it has converged and empties the pool, or it fails.  *)
(* What it answers is left open; it numbers its samples as it pushes them. *)
(*                                                                         *)
(* A call of an asynchronous algorithm (OptimizerAlgASync) blocks the      *)
(* thread that calls until the slave thread hands the control back (module *)
(* AlternateThread), with the mutex of the executor held: it is one step   *)
(* here.                                                                   *)
(***************************************************************************)
EXTENDS Integers, FiniteSets

CONSTANTS
  BranchCounts, \* the values the port nbBranches may have
  MaxSamples,   \* bound: how many samples the algorithm pushes in a run
  MaxPush,      \* bound: how many it pushes at a time
  Priority(_),  \* the priority of a sample
  HasInit,      \* an init node is set
  HasFinalize,  \* a finalize node is set
  NodesFail,    \* the nodes of the branches may fail
  AlgFails,     \* the algorithm may report an error
  MaxRuns       \* bound: how many times an enclosing loop runs this one

ASSUME OptimizerAssumption ==
  /\ BranchCounts \subseteq Nat
  /\ MaxSamples \in Nat /\ MaxPush \in Nat /\ MaxRuns \in Nat
  /\ \A s \in 1..MaxSamples : Priority(s) \in 0..255
  /\ {HasInit, HasFinalize, NodesFail, AlgFails} \subseteq BOOLEAN

NotRunning == -1     \* NOT_RUNNING_BRANCH_ID
NotInitialized == 0  \* NOT_INITIALIZED_BRANCH_ID

VARIABLES
  runs,       \* the number of runs begun
  async,      \* the algorithm is an OptimizerAlgASync
  loop,       \* _state
  branches,   \* the number of _execNodes
  special,    \* _nodeForSpecialCases: "none", "normal" or "error"
  pool,       \* _myPool: what becomes of each sample that is in it
  pushed,     \* the number of samples pushed in this run
  alg,        \* the algorithm: "over", "started" or "returned"
  ids,        \* _execIds
  initUpdated,\* _initNodeUpdated
  converged,  \* _convergenceReachedWithOtherCalc
  initializing, \* _initializingCounter
  unfinished, \* _unfinishedCounter
  stage,      \* of a branch: the node it is at
  node,       \* the state of that node
  broken      \* a node or the algorithm has failed in this run (history)

poolVars == <<pool, pushed, alg>>
branchVars == <<ids, initUpdated, initializing, unfinished, stage, node>>
vars == <<runs, async, loop, branches, special, converged, broken, poolVars, branchVars>>

-----------------------------------------------------------------------------
(* Pool                                                                    *)

Samples == DOMAIN pool
EmptyPool == [s \in {} |-> "launchable"]

(* isLaunchable.                                                           *)
LaunchableOf(p) == {s \in DOMAIN p : p[s] = "launchable"}

(* getNextSampleWithHighestPriority takes s before t.                      *)
Before(s, t) ==
  \/ Priority(s) > Priority(t)
  \/ Priority(s) = Priority(t) /\ s < t

(* What the algorithm may have done with the pool p when it hands the      *)
(* control back: pushInSample or destroyAll.                               *)
Pushed(p, k) ==
  [s \in DOMAIN p \union (pushed + 1 .. pushed + k) |->
     IF s \in DOMAIN p THEN p[s] ELSE "launchable"]

(* destroyCurrentCase.                                                     *)
Without(p, s) == [t \in DOMAIN p \ {s} |-> p[t]]

-----------------------------------------------------------------------------
(* launchMaxOfSamples: the branches that are idle, from the first, take    *)
(* the samples that are launchable, from the one with highest priority.    *)

Idle(b, is) == is[b] \in {NotRunning, NotInitialized}

RankOfBranch(b, is) == Cardinality({c \in 1..(b - 1) : Idle(c, is)})
RankOfSample(s, p) == Cardinality({t \in LaunchableOf(p) : Before(t, s)})

(* Mutant: a result makes room for one sample only.                        *)
TakesOne(b, is, p) ==
  {s \in LaunchableOf(p) : Idle(b, is) /\ RankOfSample(s, p) = 0 /\ RankOfBranch(b, is) = 0}

(* The sample the branch takes, as a set.                                  *)
Takes(b, is, p) ==
  {s \in LaunchableOf(p) : Idle(b, is) /\ RankOfSample(s, p) = RankOfBranch(b, is)}

(* markIdAsInUse; mutant: the sample stays launchable.                     *)
MarkedNot(p, taken) == p

Marked(p, taken) == [s \in DOMAIN p |-> IF s \in taken THEN "inuse" ELSE p[s]]

LaunchMaxOfSamples(n, is, p, upd, stages, nodes) ==
  LET Taker == {b \in 1..n : Takes(b, is, p) # {}}
      Sample(b) == CHOOSE s \in Takes(b, is, p) : TRUE
      First == {b \in Taker : HasInit /\ ~upd[b]}
  IN  /\ ids' = [b \in 1..n |-> IF b \in Taker THEN Sample(b) ELSE is[b]]
      /\ pool' = Marked(p, {Sample(b) : b \in Taker})
      /\ initUpdated' = [b \in 1..n |-> upd[b] \/ b \in First]
      /\ initializing' = initializing + Cardinality(First)
      /\ stage' = [b \in 1..n |-> IF b \in First THEN "init"
                                  ELSE IF b \in Taker THEN "work" ELSE stages[b]]
      /\ node' = [b \in 1..n |-> IF b \in Taker THEN "TOLOAD" ELSE nodes[b]]

-----------------------------------------------------------------------------
(* init                                                                    *)

NoBranch == [b \in 1..0 |-> NotInitialized]

Init ==
  /\ runs = 1 /\ async \in BOOLEAN
  /\ loop = "READY" /\ branches = 0 /\ special = "none"
  /\ pool = EmptyPool /\ pushed = 0 /\ alg = "over"
  /\ ids = NoBranch /\ initUpdated = NoBranch /\ initializing = 0 /\ unfinished = 0
  /\ stage = NoBranch /\ node = NoBranch
  /\ converged = FALSE /\ broken = FALSE

Ended == {"DONE", "FAILED", "ERROR"}

InitConverged == FALSE

(* An enclosing loop initialises this one for another turn: the pool, the  *)
(* algorithm and the fake node are left as they are.                       *)
Again ==
  /\ loop = "DONE" /\ runs < MaxRuns
  /\ runs' = runs + 1
  /\ loop' = "READY" /\ branches' = 0
  /\ converged' = InitConverged /\ broken' = FALSE
  /\ ids' = NoBranch /\ initUpdated' = NoBranch /\ stage' = NoBranch /\ node' = NoBranch
  /\ UNCHANGED <<async, special, poolVars, initializing, unfinished>>

-----------------------------------------------------------------------------
(* exUpdateState: what is left of the previous algorithm is finished, then *)
(* the algorithm is initialised and started.                               *)

BeginSpecial(kind, algNow, poolNow, pushedNow) ==
  /\ special' = kind
  /\ alg' = algNow /\ pool' = poolNow /\ pushed' = pushedNow
  /\ UNCHANGED <<branches, branchVars>>

(* _initializingCounter is zero here: every init node of a previous run    *)
(* that is DONE has ended.                                                 *)
BeginBranches(n, p) ==
  /\ special' = "none" /\ branches' = n
  /\ LaunchMaxOfSamples(n, [b \in 1..n |-> NotInitialized], p, [b \in 1..n |-> FALSE],
                        [b \in 1..n |-> "work"], [b \in 1..n |-> "READY"])
  /\ UNCHANGED unfinished

(* The algorithm runs until it has pushed its first samples; a slave       *)
(* thread that returns destroys the pool.                                  *)
BeginStarted(k, returns) ==
  LET first == IF returns THEN EmptyPool ELSE [s \in 1..k |-> "launchable"]
      started == IF returns THEN "returned" ELSE "started"
  IN  \E n \in BranchCounts :
        \/ n = 0 /\ \E kind \in {"normal", "error"} : BeginSpecial(kind, started, first, k)
        \/ /\ n > 0 /\ first = EmptyPool
           /\ \E kind \in {"normal", "error"} : BeginSpecial(kind, "over", EmptyPool, k)
        \/ /\ n > 0 /\ first # EmptyPool
           /\ BeginBranches(n, first)
           /\ pushed' = k /\ alg' = started

Begin ==
  /\ loop = "READY"
  /\ loop' = "TOACTIVATE"
  /\ \/ AlgFails /\ BeginSpecial("error", "over", EmptyPool, 0)
     \/ \E k \in 0..MaxPush : \E returns \in {FALSE, async} :
          k <= MaxSamples /\ BeginStarted(k, returns)
  /\ UNCHANGED <<runs, async, converged, broken>>

RunSpecial ==
  /\ loop = "TOACTIVATE" /\ special # "none"
  /\ loop' = IF special = "normal" THEN "DONE" ELSE "ERROR"
  /\ broken' = (special = "error")
  /\ UNCHANGED <<runs, async, branches, special, converged, poolVars, branchVars>>

-----------------------------------------------------------------------------
(* The executor                                                            *)

(* getReadyTasks.                                                          *)
Select(b) ==
  /\ loop \in {"TOACTIVATE", "ACTIVATED"} /\ special = "none"
  /\ node[b] = "TOLOAD"
  /\ node' = [node EXCEPT ![b] = "SELECTED"]
  /\ UNCHANGED <<runs, async, loop, branches, special, converged, broken, poolVars,
                 ids, initUpdated, initializing, unfinished, stage>>

(* The START of the node activates the loop, whatever its state.           *)
Start(b) ==
  /\ node[b] = "SELECTED"
  /\ node' = [node EXCEPT ![b] = "ACTIVATED"]
  /\ loop' = "ACTIVATED"
  /\ UNCHANGED <<runs, async, branches, special, converged, broken, poolVars,
                 ids, initUpdated, initializing, unfinished, stage>>

-----------------------------------------------------------------------------
(* updateStateOnFinishedEventFrom                                          *)

(* The result of a branch is ignored after an error.                       *)
Ignored(b) ==
  /\ loop = "FAILED"
  /\ node' = [node EXCEPT ![b] = "DONE"]
  /\ UNCHANGED <<loop, converged, broken, poolVars, ids, initUpdated, initializing,
                 unfinished, stage>>

(* An exception: ComposedNode::updateStateFrom sets the loop in error.     *)
InternalError(b, poolNow) ==
  /\ node' = [node EXCEPT ![b] = "DONE"]
  /\ loop' = "ERROR" /\ pool' = poolNow
  /\ UNCHANGED <<converged, broken, pushed, alg, ids, initUpdated, initializing,
                 unfinished, stage>>

InitFinished(b) ==
  /\ node[b] = "ACTIVATED" /\ stage[b] = "init"
  /\ \/ Ignored(b)
     \/ /\ loop # "FAILED"
        /\ stage' = [stage EXCEPT ![b] = "work"]
        /\ node' = [node EXCEPT ![b] = "TOLOAD"]
        /\ initializing' = initializing - 1
        /\ UNCHANGED <<loop, converged, broken, poolVars, ids, initUpdated, unfinished>>
  /\ UNCHANGED <<runs, async, branches, special>>

(* Mutant: a branch that never had a sample is waited for.                 *)
IsFullyLazyBegun(is) == \A b \in 1..branches : is[b] = NotRunning

IsFullyLazy(is) == \A b \in 1..branches : Idle(b, is)

(* Mutant: the algorithm is not finished.                                  *)
FinishedNot(algNow) == algNow

(* The state of the algorithm after finalize has called finishProxy.       *)
Finished(algNow) == "over"

(* finalize: the branches that have run have their finalize nodes run.     *)
Finalize(is, nodes, algNow) ==
  LET begun == {b \in 1..branches : is[b] = NotRunning}
  IN  /\ alg' = Finished(algNow)
      /\ \/ /\ ~HasFinalize
            /\ loop' = "DONE" /\ node' = nodes
            /\ UNCHANGED <<stage, unfinished>>
         \/ /\ HasFinalize
            /\ stage' = [b \in 1..branches |-> IF b \in begun THEN "finalize" ELSE stage[b]]
            /\ node' = [b \in 1..branches |-> IF b \in begun THEN "TOLOAD" ELSE nodes[b]]
            /\ unfinished' = Cardinality(begun)
            /\ UNCHANGED loop

(* The branch b has ended and the pool is empty: the algorithm has         *)
(* converged, and the loop ends with the last branch that runs.            *)
Converge(b, algNow) ==
  LET is == [ids EXCEPT ![b] = NotRunning]
      nodes == [node EXCEPT ![b] = "DONE"]
  IN  /\ ids' = is /\ pool' = EmptyPool
      /\ \/ IsFullyLazy(is) /\ Finalize(is, nodes, algNow) /\ UNCHANGED converged
         \/ /\ ~IsFullyLazy(is)
            /\ converged' = TRUE /\ node' = nodes /\ alg' = algNow
            /\ UNCHANGED <<loop, stage, unfinished>>
      /\ UNCHANGED <<broken, initUpdated, initializing>>

(* The pool p is not empty: the branches that are idle take its samples;   *)
(* it is an error if every branch is idle and no sample launchable.        *)
Continue(b, p) ==
  LET is == [ids EXCEPT ![b] = NotRunning]
      stuck == LaunchableOf(p) = {} /\ IsFullyLazy(is)
  IN  /\ LaunchMaxOfSamples(branches, is, p, initUpdated, stage, [node EXCEPT ![b] = "DONE"])
      /\ loop' = IF stuck THEN "ERROR" ELSE loop
      /\ alg' = IF stuck THEN "over" ELSE alg
      /\ UNCHANGED <<converged, broken, unfinished>>

(* takeDecision, for the pool p where the sample s of the branch has its   *)
(* result, then what the loop does with the answer.  With an error the     *)
(* pool may be destroyed, by the algorithm (destroyAll) or by its slave    *)
(* thread that returns (run); else it keeps the samples just pushed.       *)
Decide(b, s, p) ==
  \/ \E k \in 0..MaxPush :
       /\ pushed + k <= MaxSamples
       /\ pushed' = pushed + k
       /\ LET after == Without(Pushed(p, k), s)
          IN  \/ after = EmptyPool /\ Converge(b, alg)
              \/ after # EmptyPool /\ Continue(b, after)
  \/ /\ UNCHANGED pushed
     /\ \E returns \in {FALSE, async} : Converge(b, IF returns THEN "returned" ELSE alg)
  \/ /\ AlgFails
     /\ \E k \in 0..MaxPush :
          /\ pushed + k <= MaxSamples
          /\ pushed' = pushed + k /\ pool' \in {EmptyPool, Pushed(p, k)}
     /\ node' = [node EXCEPT ![b] = "DONE"]
     /\ loop' = "FAILED" /\ broken' = TRUE /\ alg' = "over"
     /\ UNCHANGED <<converged, ids, initUpdated, initializing, unfinished, stage>>

(* putOutSampleAt throws when the sample is not in the pool; the slave     *)
(* thread of an algorithm that is over is not there to be asked.           *)
WorkFinished(b) ==
  /\ node[b] = "ACTIVATED" /\ stage[b] = "work"
  /\ \/ Ignored(b)
     \/ /\ loop # "FAILED" /\ converged
        /\ UNCHANGED pushed
        /\ Converge(b, alg)
     \/ /\ loop # "FAILED" /\ ~converged
        /\ LET s == ids[b]
               p == [pool EXCEPT ![s] = "computed"]
           IN  \/ s \notin Samples /\ InternalError(b, pool)
               \/ s \in Samples /\ async /\ alg # "started" /\ InternalError(b, p)
               \/ s \in Samples /\ (async => alg = "started") /\ Decide(b, s, p)
  /\ UNCHANGED <<runs, async, branches, special>>

FinalizeFinished(b) ==
  /\ node[b] = "ACTIVATED" /\ stage[b] = "finalize"
  /\ \/ Ignored(b)
     \/ /\ loop # "FAILED"
        /\ node' = [node EXCEPT ![b] = "DONE"]
        /\ unfinished' = unfinished - 1
        /\ loop' = IF unfinished' = 0 THEN "DONE" ELSE loop
        /\ UNCHANGED <<converged, broken, poolVars, ids, initUpdated, initializing, stage>>
  /\ UNCHANGED <<runs, async, branches, special>>

(* updateStateOnFailedEventFrom, for any node of a branch.                 *)
NodeFailed(b) ==
  /\ NodesFail /\ node[b] = "ACTIVATED"
  /\ node' = [node EXCEPT ![b] = "ERROR"]
  /\ loop' = "FAILED" /\ broken' = TRUE
  /\ alg' = "over" /\ pool' = EmptyPool
  /\ UNCHANGED <<runs, async, branches, special, converged, pushed, ids, initUpdated,
                 initializing, unfinished, stage>>

-----------------------------------------------------------------------------

Advance ==
  \/ Begin
  \/ RunSpecial
  \/ \E b \in 1..branches :
       \/ Select(b)
       \/ Start(b)
       \/ InitFinished(b)
       \/ WorkFinished(b)
       \/ FinalizeFinished(b)
       \/ NodeFailed(b)

Next == Advance \/ Again

Spec == Init /\ [][Next]_vars

(* The executor starts what is ready and a node that runs ends; the        *)
(* algorithm returns from each call.                                       *)
FairSpec == Spec /\ WF_vars(Advance)

-----------------------------------------------------------------------------
(* Properties                                                              *)

(* A sample that is in use in the pool is that of exactly one branch, and  *)
(* a branch that evaluates a sample finds it in the pool when it ends,     *)
(* unless the algorithm has converged or something has failed: the result  *)
(* of a branch goes to its sample (Pool.cxx:150, OptimizerLoop.cxx:349).   *)
(* The flag "convergence reached while others compute" is only up with an  *)
(* empty pool, in every turn of an enclosing loop; else results would be   *)
(* dropped without a word (OptimizerLoop.cxx:340).                         *)
InUseIsRunning ==
  /\ \A s \in Samples : pool[s] = "inuse" =>
       Cardinality({b \in 1..branches : ids[b] = s}) = 1
  /\ ~converged /\ ~broken =>
       \A b \in 1..branches : ids[b] > 0 => ids[b] \in Samples /\ pool[ids[b]] = "inuse"
  /\ converged => pool = EmptyPool

(* No branch is idle while a sample waits to be evaluated, however many    *)
(* samples the algorithm pushed at once, and whichever branch ended        *)
(* (launchMaxOfSamples, OptimizerLoop.cxx:561), unless something has       *)
(* failed: the samples pushed with an error stay in the pool, and a START  *)
(* may activate the loop again (IgnoredAfterError).                        *)
NoSampleWaits ==
  loop \in {"TOACTIVATE", "ACTIVATED"} /\ special = "none" /\ ~broken =>
    LaunchableOf(pool) = {} \/ \A b \in 1..branches : ~Idle(b, ids)

(* When the loop has ended, its algorithm has been finished and its slave  *)
(* thread joined, on every path, if there is a branch (with none, only the *)
(* next turn or the destructor does it).                                   *)
AlgorithmReleased ==
  loop \in Ended /\ branches > 0 => alg = "over"

(* The loop ends, for an algorithm that pushes a finite number of samples, *)
(* unless something has failed.                                            *)
LoopEnds == []<>(loop \in Ended \/ broken)

(* "This happens when a valid computation on a branch finishes after an    *)
(* error on another branch. In this case we just ignore the new result     *)
(* because the algorithm has already been terminated"                      *)
(* (OptimizerLoop.cxx:322).                                                *)
IgnoredAfterError ==
  [][\A b \in 1..branches :
       (broken /\ stage[b] = "work" /\ node[b] = "ACTIVATED" /\ node'[b] = "DONE")
         => loop' = loop /\ pool' = pool]_vars

=============================================================================
