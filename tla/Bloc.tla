-------------------------------- MODULE Bloc --------------------------------
(***************************************************************************)
(* src/src/engine/Bloc.cxx, InGate.cxx, OutGate.cxx, ElementaryNode.cxx: a *)
(* bloc of elementary nodes joined by control links, the graph the         *)
(* Executor runs.  Each operator below is one call of the Scheduler        *)
(* interface; all are called with the executor's mutex held, except init.  *)
(*                                                                         *)
(* There is one level of nodes, without datastream links and without       *)
(* disabled branches: the states TORECONNECT and DISABLED do not occur.    *)
(***************************************************************************)
EXTENDS Naturals, FiniteSets

CONSTANTS
  Tasks,      \* the elementary nodes of the bloc
  Links,      \* the control links: <<t, u>> from OutGate t to InGate u
  After,      \* the nodes a failure of t is propagated to
  Invalid     \* the nodes an input port of which may not be set when they run

Successors(t) == {u \in Tasks : <<t, u>> \in Links}
Predecessors(u) == {t \in Tasks : <<t, u>> \in Links}

(* After is what the recursion of exNotifyFailed reaches: it goes down the *)
(* links, and ends because edAddCFLink refuses cycles                      *)
(* (Bloc::checkNoCyclePassingThrough).                                     *)
ASSUME BlocAssumption ==
  /\ IsFiniteSet(Tasks)
  /\ Links \subseteq Tasks \X Tasks
  /\ After \in [Tasks -> SUBSET Tasks]
  /\ \A t \in Tasks :
       /\ Successors(t) \subseteq After[t]
       /\ t \notin After[t]
       /\ \A u \in After[t] :
            /\ Successors(u) \subseteq After[t]
            /\ \E v \in After[t] \union {t} : u \in Successors(v)
  /\ Invalid \subseteq Tasks

VARIABLES
  node,       \* _state of each node
  bloc,       \* _state of the bloc
  arrived     \* the links whose InGate flag is set (_backLinks)

blocVars == <<node, bloc, arrived>>

NodeStates == {"READY", "TOLOAD", "TOACTIVATE", "ACTIVATED", "DONE",
               "ERROR", "FAILED", "INTERNALERR"}

Ended == {"DONE", "FAILED", "ERROR", "INTERNALERR"}

(* The constructor and Bloc::init leave every node READY, its flags unset. *)
BlocInit ==
  /\ node = [t \in Tasks |-> "READY"]
  /\ bloc = "READY"
  /\ arrived = {}

(* InGate::exIsReady: every precursor has notified.                        *)
ExIsReady(u, flags) == \A t \in Predecessors(u) : <<t, u>> \in flags

(* ElementaryNode::exUpdateState on the nodes of us (none is LOADED).      *)
ExUpdateState(states, us) ==
  [u \in Tasks |-> IF u \in us /\ states[u] = "READY" THEN "TOLOAD" ELSE states[u]]

(* OutGate::exNotifyFailed and Node::exFailedState, down the links.        *)
ExNotifyFailed(states, t) ==
  [u \in Tasks |-> IF u \in After[t] THEN "FAILED" ELSE states[u]]

(* Mutant: a node that runs is taken for ended.                            *)
AllEndedActivated(states) == \A t \in Tasks : states[t] \in Ended \union {"ACTIVATED"}

AllEnded(states) == \A t \in Tasks : states[t] \in Ended
AllDone(states) == \A t \in Tasks : states[t] = "DONE"

Outcome(states) == IF AllDone(states) THEN "DONE" ELSE "FAILED"

-----------------------------------------------------------------------------

(* Mutant: every node is taken for a source.                               *)
SourcesAll == Tasks

Sources == {t \in Tasks : Predecessors(t) = {}}

(* Bloc::exUpdateState after init.                                         *)
ExStart ==
  /\ node' = ExUpdateState(node, Sources)
  /\ bloc' = "ACTIVATED"
  /\ UNCHANGED arrived

(* The same when a source has an input port that is not set: the exception *)
(* leaves the loop, the nodes met before (us) are loadable.                *)
ExStartFails ==
  \E bad \in Sources \intersect Invalid : \E us \in SUBSET (Sources \ {bad}) :
    /\ node' = [ExUpdateState(node, us) EXCEPT ![bad] = "INTERNALERR"]
    /\ bloc' = "ACTIVATED"
    /\ UNCHANGED arrived

(* getNextTasks: the tasks of a bloc that is not activated are not looked  *)
(* at.                                                                     *)
ReadyTasks ==
  IF bloc = "ACTIVATED"
    THEN {t \in Tasks : node[t] \in {"TOLOAD", "TOACTIVATE"}}
    ELSE {}

(* notifyFrom(START): whatever the state of the bloc was.                  *)
NotifyStart ==
  /\ bloc' = "ACTIVATED"
  /\ UNCHANGED <<node, arrived>>

(* Task::connected and Task::begin.                                        *)
SetState(t, s) ==
  /\ node' = [node EXCEPT ![t] = s]
  /\ UNCHANGED <<bloc, arrived>>

Flags(t, us) == arrived \union {<<t, u>> : u \in us}

(* Task::finished and notifyFrom(FINISH), when it is the last node.        *)
FinishLast(t) ==
  LET after == [node EXCEPT ![t] = "DONE"]
  IN  /\ AllEnded(after)
      /\ node' = after
      /\ bloc' = Outcome(after)
      /\ UNCHANGED arrived

(* Mutant: the nodes after t are made loadable without looking at gates.   *)
FinishForwardAll(t) ==
  LET after == [node EXCEPT ![t] = "DONE"]
  IN  /\ ~AllEnded(after)
      /\ arrived' = Flags(t, Successors(t))
      /\ node' = ExUpdateState(after, Successors(t))
      /\ UNCHANGED bloc

(* The same with nodes left: exForwardFinished.                            *)
FinishForward(t) ==
  LET after == [node EXCEPT ![t] = "DONE"]
  IN  /\ ~AllEnded(after)
      /\ arrived' = Flags(t, Successors(t))
      /\ node' = ExUpdateState(after, {u \in Successors(t) : ExIsReady(u, arrived')})
      /\ UNCHANGED bloc

(* The same when a successor that becomes ready has an input port that is  *)
(* not set: it throws, and those after it are not notified.                *)
FinishThrows(t) ==
  LET after == [node EXCEPT ![t] = "DONE"]
  IN  /\ ~AllEnded(after)
      /\ \E us \in SUBSET Successors(t) :
           /\ \E bad \in us \intersect Invalid : ExIsReady(bad, Flags(t, us))
           /\ arrived' = Flags(t, us)
      /\ node' = ExNotifyFailed(after, t)
      /\ bloc' = "FAILED"

NotifyFinish(t) == FinishLast(t) \/ FinishForward(t) \/ FinishThrows(t)

(* Mutant: the end of the bloc is not looked at.                           *)
NotifyAbortNoEnd(t) ==
  /\ node' = ExNotifyFailed([node EXCEPT ![t] = "ERROR"], t)
  /\ UNCHANGED <<bloc, arrived>>

(* Task::aborted and notifyFrom(ABORT).                                    *)
NotifyAbort(t) ==
  LET after == ExNotifyFailed([node EXCEPT ![t] = "ERROR"], t)
  IN  /\ node' = after
      /\ bloc' = IF AllEnded(after) THEN Outcome(after) ELSE bloc
      /\ UNCHANGED arrived

IsFinished == bloc \in {"DONE", "FAILED"}

-----------------------------------------------------------------------------

BlocTypeOK ==
  /\ node \in [Tasks -> NodeStates]
  /\ bloc \in {"READY", "ACTIVATED", "DONE", "FAILED"}
  /\ arrived \subseteq Links

(* A node is loaded and run only once every node it has a control link     *)
(* from has finished, whatever failed or finished elsewhere meanwhile.     *)
DependenciesRespected ==
  \A t, u \in Tasks :
    <<t, u>> \in Links /\ node[u] \in {"TOLOAD", "TOACTIVATE", "ACTIVATED", "DONE"}
      => node[t] = "DONE"

(* The bloc is over exactly with its nodes: a failed branch neither ends   *)
(* the bloc under the nodes still to run nor keeps it open (when no input  *)
(* port is left unset: that fails the bloc at once).                       *)
OverWithItsNodes ==
  (Invalid = {} /\ bloc # "READY") => (IsFinished <=> AllEnded(node))

(* A failure reaches every node behind it, and nothing else: a node is     *)
(* FAILED only behind a node in error.                                     *)
FailureReachesAfter ==
  Invalid = {} =>
    \A u \in Tasks :
      node[u] = "FAILED" <=> \E t \in Tasks : node[t] = "ERROR" /\ u \in After[t]

(* What becomes of a bloc whose nodes fail at any moment.                  *)
BlocOutcome == OverWithItsNodes /\ FailureReachesAfter
=============================================================================
