---------------------------- MODULE ForEachLoop -----------------------------
(***************************************************************************)
(* src/src/engine/ForEachLoop.cxx, DynParaLoop.cxx: a loop that evaluates  *)
(* the samples of a collection in parallel branches, each with an init     *)
(* node, a work node and a finalize node, and that is run again after an   *)
(* interruption with the results of the previous run (assignPassedResults).*)
(*                                                                         *)
(* An event of a node of a branch is an action of the loop; the executor   *)
(* is reduced to selecting, starting and ending the nodes that are ready   *)
(* (modules Executor and Composed).  The result of the sample of rank r is *)
(* r itself, so that a result out of its place is seen.                    *)
(***************************************************************************)
EXTENDS Integers, FiniteSets

CONSTANTS
  Size,         \* getNumberOfElements: the samples have ranks 0..Size-1
  BranchCounts, \* the values the port nbBranches may have
  HasInit,      \* an init node is set
  HasFinalize,  \* a finalize node is set
  Failures,     \* the stages that may fail, in {"init", "work", "finalize"}
  Patient,      \* results are only asked for once the loop has begun
  MaxRuns       \* bound: how many runs

ASSUME ForEachAssumption ==
  /\ Size \in Nat
  /\ BranchCounts \subseteq Int
  /\ HasInit \in BOOLEAN /\ HasFinalize \in BOOLEAN
  /\ Failures \subseteq {"init", "work", "finalize"}
  /\ Patient \in BOOLEAN /\ MaxRuns \in Nat

Ranks == 0 .. Size - 1
NoValue == -1
NotRunning == -1      \* NOT_RUNNING_BRANCH_ID

VARIABLES
  runs,       \* the number of runs begun
  keepGoing,  \* _keepGoingOnFail
  passed,     \* _passedData: the ids, and their outputs in the same order
  loop,       \* _state
  branches,   \* the number of _execNodes (and of the vectors beside them)
  special,    \* _nodeForSpecialCases: "none", "null", "broken", or "spent" once run
  stage,      \* of a branch: the node it is at
  node,       \* the state of that node
  ids,        \* _execIds
  given,      \* the rank of the sample on the input ports of the branch
  current,    \* _execCurrentId
  initializing, \* _initializingCounter
  unfinished, \* _unfinishedCounter
  errors,     \* _failedCounter
  progress,   \* _currentIndex
  vals,       \* _execVals, NoValue for an element that is not set
  output,     \* the sequence on the output port, outside the loop
  broken      \* a failure that is not a sample in keep-going mode (history)

runVars == <<loop, branches, special, stage, node, ids, given, current,
             initializing, unfinished, errors, progress, vals, output, broken>>
vars == <<runs, keepGoing, passed, runVars>>

-----------------------------------------------------------------------------
(* Data                                                                    *)

(* The element of S that has l elements of S before it.                    *)
At(S, l) == CHOOSE r \in S : Cardinality({q \in S : q < r}) = l

(* toAbsId and toAbsIdNot count the flags that are not set, and those that *)
(* are.                                                                    *)
ToDo == Ranks \ passed.ids

(* Mutant: the ranks in the whole collection are used.                     *)
ToAbsIdWhole(l) == l

ToAbsId(l) == At(ToDo, l)

(* The sample put on the ports of a branch for the id l; mutant: that of   *)
(* this rank in the whole collection.                                      *)
Given(l) == ToAbsId(l)

ToAbsIdNot(l) == At(passed.ids, l)

NumberToDo == Size - Cardinality(passed.ids)

NoResults == [r \in Ranks |-> NoValue]
NoPassed == [ids |-> {}, outputs |-> [j \in {} |-> NoValue]]

(* assignAlreadyDone, on a sequence of unset elements.                     *)
AssignAlreadyDone ==
  [r \in Ranks |->
     IF r \in passed.ids
       THEN passed.outputs[CHOOSE j \in DOMAIN passed.outputs : ToAbsIdNot(j) = r]
       ELSE NoValue]

(* getPassedResults: getSetItems and removeUnsetItemsFromThis.             *)
SetItems == {r \in Ranks : vals[r] # NoValue}

PassedResults ==
  [ids |-> SetItems,
   outputs |-> [j \in 0 .. Cardinality(SetItems) - 1 |-> vals[At(SetItems, j)]]]

Smaller(m, n) == IF m < n THEN m ELSE n

-----------------------------------------------------------------------------
(* init                                                                    *)

NoBranch == [b \in 1..0 |-> NotRunning]

(* In the same process the loop is the same object, and nothing takes the  *)
(* fake node of an earlier run away; in another process the loop is new.   *)
Fresh ==
  /\ loop' = "READY" /\ branches' = 0 /\ special' \in {special, "none"}
  /\ stage' = NoBranch /\ node' = NoBranch /\ ids' = NoBranch /\ given' = NoBranch
  /\ current' = 0 /\ initializing' = 0 /\ unfinished' = 0 /\ errors' = 0 /\ progress' = 0
  /\ vals' = NoResults /\ output' = NoResults /\ broken' = FALSE

Init ==
  /\ runs = 1 /\ keepGoing \in BOOLEAN /\ passed = NoPassed
  /\ loop = "READY" /\ branches = 0 /\ special = "none"
  /\ stage = NoBranch /\ node = NoBranch /\ ids = NoBranch /\ given = NoBranch
  /\ current = 0 /\ initializing = 0 /\ unfinished = 0 /\ errors = 0 /\ progress = 0
  /\ vals = NoResults /\ output = NoResults /\ broken = FALSE

-----------------------------------------------------------------------------
(* exUpdateState                                                           *)

FirstStage == IF HasInit THEN "init" ELSE "work"

(* The branches are cloned and take the first samples.  A fake node of an  *)
(* earlier run stays.                                                      *)
BeginBranches(n) ==
  /\ loop' = "ACTIVATED"
  /\ branches' = n
  /\ stage' = [b \in 1..n |-> FirstStage] /\ node' = [b \in 1..n |-> "TOLOAD"]
  /\ ids' = [b \in 1..n |-> b - 1] /\ given' = [b \in 1..n |-> Given(b - 1)]
  /\ current' = n /\ initializing' = (IF HasInit THEN n ELSE 0)
  /\ vals' = AssignAlreadyDone
  /\ UNCHANGED <<runs, keepGoing, passed, special, unfinished, errors, progress, output,
                 broken>>

(* No sample is left to do, or no branch to do it: a fake node runs.       *)
BeginSpecial(kind) ==
  /\ loop' = "ACTIVATED" /\ special' = kind
  /\ UNCHANGED <<runs, keepGoing, passed, branches, stage, node, ids, given, current,
                 initializing, unfinished, errors, progress, vals, output, broken>>

Begin ==
  /\ loop = "READY"
  /\ \/ NumberToDo = 0 /\ BeginSpecial("null")
     \/ /\ NumberToDo # 0
        /\ \E n \in BranchCounts :
             \/ n <= 0 /\ BeginSpecial("broken")
             \/ n > 0 /\ BeginBranches(Smaller(n, NumberToDo))

(* The fake node pushes the values as they are (prepared for no sample,    *)
(* unless it is one of an earlier run), or fails.  Its state is ACTIVATED  *)
(* from then on: it is never listed again.                                 *)
RunSpecial ==
  /\ loop = "ACTIVATED" /\ special \in {"null", "broken"}
  /\ special' = "spent"
  /\ \/ special = "null" /\ loop' = "DONE" /\ output' = vals /\ UNCHANGED broken
     \/ special = "broken" /\ loop' = "ERROR" /\ broken' = TRUE /\ UNCHANGED output
  /\ UNCHANGED <<runs, keepGoing, passed, branches, stage, node, ids, given, current,
                 initializing, unfinished, errors, progress, vals>>

-----------------------------------------------------------------------------
(* The executor                                                            *)

(* getReadyTasks: the nodes of a loop that is activated, but for the fake  *)
(* node alone as soon as there is one.                                     *)
Select(b) ==
  /\ loop = "ACTIVATED" /\ special = "none"
  /\ node[b] = "TOLOAD"
  /\ node' = [node EXCEPT ![b] = "SELECTED"]
  /\ UNCHANGED <<runs, keepGoing, passed, loop, branches, special, stage, ids, given, current,
                 initializing, unfinished, errors, progress, vals, output, broken>>

(* The START of the node activates the loop, whatever its state.           *)
Start(b) ==
  /\ node[b] = "SELECTED"
  /\ node' = [node EXCEPT ![b] = "ACTIVATED"]
  /\ loop' = "ACTIVATED"
  /\ UNCHANGED <<runs, keepGoing, passed, branches, special, stage, ids, given, current,
                 initializing, unfinished, errors, progress, vals, output, broken>>

-----------------------------------------------------------------------------
(* updateStateOnFinishedEventFrom and updateStateOnFailedEventFrom         *)

InitFinished(b) ==
  /\ node[b] = "ACTIVATED" /\ stage[b] = "init"
  /\ stage' = [stage EXCEPT ![b] = "work"]
  /\ node' = [node EXCEPT ![b] = "TOLOAD"]
  /\ initializing' = initializing - 1 /\ progress' = progress + 1
  /\ UNCHANGED <<runs, keepGoing, passed, loop, branches, special, ids, given, current,
                 unfinished, errors, vals, output, broken>>

(* Mutant: the result goes to the rank the sample has in this run.         *)
StoredLocally(b) == [vals EXCEPT ![ids[b]] = given[b]]

Stored(b) == [vals EXCEPT ![ToAbsId(ids[b])] = given[b]]

IsFinished(others) == \A b \in 1..branches : others[b] = NotRunning

(* Mutant: the finalize nodes are not counted.                             *)
EndSamplesUncounted(nodes, failedNow, valsNow) ==
  /\ failedNow = 0
  /\ stage' = [b \in 1..branches |-> "finalize"]
  /\ node' = [b \in 1..branches |-> "TOLOAD"]
  /\ output' = valsNow
  /\ UNCHANGED <<loop, unfinished>>

(* Every branch has ended: the loop ends, or the finalize nodes start.     *)
EndSamples(nodes, failedNow, valsNow) ==
  \/ /\ failedNow # 0
     /\ loop' = "FAILED" /\ node' = nodes
     /\ UNCHANGED <<stage, unfinished, output>>
  \/ /\ failedNow = 0 /\ ~HasFinalize
     /\ loop' = "DONE" /\ node' = nodes
     /\ output' = valsNow
     /\ UNCHANGED <<stage, unfinished>>
  \/ /\ failedNow = 0 /\ HasFinalize
     /\ stage' = [b \in 1..branches |-> "finalize"]
     /\ node' = [b \in 1..branches |-> "TOLOAD"]
     /\ unfinished' = branches
     /\ output' = valsNow
     /\ UNCHANGED loop

(* getFinishedId: the samples of this run have all been given.             *)
NoMore == current = NumberToDo

(* updateStateForWorkNodeOnFinishedEventFrom, for a node that ends in the  *)
(* state given.                                                            *)
WorkOver(b, state, failedNow, valsNow) ==
  LET nodes == [node EXCEPT ![b] = state]
  IN  /\ progress' = progress + 1 /\ errors' = failedNow /\ vals' = valsNow
      /\ \/ /\ NoMore
            /\ ids' = [ids EXCEPT ![b] = NotRunning]
            /\ \/ IsFinished(ids') /\ EndSamples(nodes, failedNow, valsNow)
               \/ /\ ~IsFinished(ids')
                  /\ node' = nodes
                  /\ UNCHANGED <<loop, stage, unfinished, output>>
            /\ UNCHANGED <<given, current>>
         \/ /\ ~NoMore /\ loop = "ACTIVATED"
            /\ ids' = [ids EXCEPT ![b] = current]
            /\ given' = [given EXCEPT ![b] = Given(current)]
            /\ node' = [node EXCEPT ![b] = "TOLOAD"]
            /\ current' = current + 1
            /\ UNCHANGED <<loop, stage, unfinished, output>>
         \/ /\ ~NoMore /\ loop # "ACTIVATED"
            /\ node' = nodes
            /\ UNCHANGED <<loop, stage, ids, given, current, unfinished, output>>
      /\ UNCHANGED <<runs, keepGoing, passed, branches, special, initializing, broken>>

WorkFinished(b) ==
  /\ node[b] = "ACTIVATED" /\ stage[b] = "work"
  /\ WorkOver(b, "DONE", errors, Stored(b))

WorkFailed(b) ==
  /\ node[b] = "ACTIVATED" /\ stage[b] = "work" /\ "work" \in Failures
  /\ keepGoing
  /\ WorkOver(b, "ERROR", errors + 1, vals)

FinalizeFinished(b) ==
  /\ node[b] = "ACTIVATED" /\ stage[b] = "finalize"
  /\ node' = [node EXCEPT ![b] = "DONE"]
  /\ unfinished' = unfinished - 1 /\ progress' = progress + 1
  /\ loop' = IF unfinished' = 0 THEN "DONE" ELSE loop
  /\ UNCHANGED <<runs, keepGoing, passed, branches, special, stage, ids, given, current,
                 initializing, errors, vals, output, broken>>

(* A failure the loop does not go on after.                                *)
Failed(b) ==
  /\ node[b] = "ACTIVATED" /\ stage[b] \in Failures
  /\ stage[b] = "work" => ~keepGoing
  /\ node' = [node EXCEPT ![b] = "ERROR"]
  /\ loop' = "FAILED" /\ broken' = TRUE
  /\ UNCHANGED <<runs, keepGoing, passed, branches, special, stage, ids, given, current,
                 initializing, unfinished, errors, progress, vals, output>>

-----------------------------------------------------------------------------
(* getPassedResults, at any time, then a new run with what it returned     *)
(* (assignPassedResults).                                                  *)

(* _execVals and _execOutGoingPorts are empty before the branches exist,   *)
(* and what was passed to this run is not looked at.                       *)
HasBranches == branches > 0

Relaunch ==
  /\ runs < MaxRuns
  /\ Patient => HasBranches \/ passed.ids = {}
  /\ runs' = runs + 1
  /\ passed' = IF HasBranches THEN PassedResults ELSE NoPassed
  /\ keepGoing' \in BOOLEAN
  /\ Fresh

-----------------------------------------------------------------------------

Advance ==
  \/ Begin
  \/ RunSpecial
  \/ \E b \in 1..branches :
       \/ Select(b)
       \/ Start(b)
       \/ InitFinished(b)
       \/ WorkFinished(b)
       \/ WorkFailed(b)
       \/ FinalizeFinished(b)
       \/ Failed(b)

Next == Advance \/ Relaunch

Spec == Init /\ [][Next]_vars

(* The executor starts what is ready, and a node that runs ends.           *)
FairSpec == Spec /\ WF_vars(Advance)

-----------------------------------------------------------------------------
(* Properties                                                              *)

Ended == {"DONE", "FAILED", "ERROR"}
Stages == {"init", "work", "finalize"}
NodeStates == {"TOLOAD", "SELECTED", "ACTIVATED", "DONE", "ERROR"}

(* The counters and vectors of the loop keep their types and bounds.       *)
TypeOK ==
  /\ runs \in Nat /\ keepGoing \in BOOLEAN
  /\ passed.ids \subseteq Ranks
  /\ loop \in Ended \union {"READY", "ACTIVATED"}
  /\ special \in {"none", "null", "broken", "spent"}
  /\ branches \in 0..Size
  /\ stage \in [1..branches -> Stages] /\ node \in [1..branches -> NodeStates]
  /\ ids \in [1..branches -> Ranks \union {NotRunning}] /\ given \in [1..branches -> Ranks]
  /\ current \in 0..Size
  /\ initializing \in 0..branches /\ unfinished \in 0..branches
  /\ vals \in [Ranks -> Ranks \union {NoValue}] /\ output \in [Ranks -> Ranks \union {NoValue}]
  /\ broken \in BOOLEAN

(* A branch computes the sample it stores the result of: the ids of this   *)
(* run and the ranks in the whole collection are never mixed up, in any    *)
(* run (ForEachLoop.cxx:404, 424, 785, 842).                               *)
BranchKnowsItsSample ==
  \A b \in 1..branches : ids[b] # NotRunning => given[b] = ToAbsId(ids[b])

(* Two branches never have the same sample, and none has a sample that is  *)
(* done.                                                                   *)
SamplesApart ==
  \A b, c \in 1..branches :
    ids[b] # NotRunning =>
      /\ b # c => ids[b] # ids[c]
      /\ node[b] # "DONE" => vals[ToAbsId(ids[b])] = NoValue

(* Every result is at the rank of its sample, also when it comes from an   *)
(* earlier run (storeOutValsInSeqForOutOfScopeUse, assignAlreadyDone).     *)
ResultAtItsRank == \A r \in Ranks : vals[r] \in {r, NoValue}

(* The sequence that leaves a loop that is DONE has the result of every    *)
(* sample, the ones of the earlier runs included, when this run has a      *)
(* sample to do and no fake node is left by an earlier one.                *)
OutputComplete ==
  loop = "DONE" /\ special = "none" => \A r \in Ranks : output[r] = r

(* What the branches hold and what is stored, over all the runs.           *)
SamplesKept ==
  BranchKnowsItsSample /\ SamplesApart /\ ResultAtItsRank /\ OutputComplete

(* "The loop automatically constructs the data collection"                 *)
(* (doc/principes.rst:511): the same, without condition.                   *)
CollectionConstructed ==
  loop = "DONE" => \A r \in Ranks : output[r] = r

(* The fake node of an earlier run hides the branches: nothing is listed.  *)
Hidden == loop = "ACTIVATED" /\ HasBranches /\ special = "spent"

(* A run ends, unless a failure that is not one of a sample in keep-going  *)
(* mode, or a relaunch, came first.  A relaunch of the same object after a *)
(* run without a branch is left out: it never ends (ForEachLoop.cxx:657).  *)
LoopEnds == []<>(loop \in Ended \/ broken \/ Hidden)

(* The same without exception.                                             *)
EveryRunEnds == []<>(loop \in Ended \/ broken)

(* What a reader of the loop relies on, over its runs: module Samples.     *)
Evaluating ==
  {ToAbsId(ids[b]) : b \in {c \in 1..branches : ids[c] # NotRunning}} \ SetItems

ResultIds == IF HasBranches THEN SetItems ELSE passed.ids

Promised == INSTANCE Samples WITH done <- ResultIds, evaluating <- Evaluating

IsSamples == Promised!Spec

=============================================================================
