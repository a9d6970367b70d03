----------------------------- MODULE Bloc_proofs -----------------------------
(***************************************************************************)
(* What the operations of a bloc keep, whoever calls them: the lemmas that *)
(* the proofs about the two loops of the executor share.                   *)
(***************************************************************************)
EXTENDS Bloc, FiniteSetTheorems, TLAPS

(* The number of tasks in a set is a number: a graph is finite.            *)
LEMMA TaskSets ==
  ASSUME NEW S \in SUBSET Tasks
  PROVE  IsFiniteSet(S) /\ Cardinality(S) \in Nat
BY BlocAssumption, FS_Subset, FS_CardinalityType

-----------------------------------------------------------------------------
(* Types.                                                                  *)

(* What a notification makes of the nodes are states of nodes.             *)
LEMMA BlocOperationTypes ==
  ASSUME BlocTypeOK, NEW t \in Tasks,
         NotifyFinish(t) \/ NotifyAbort(t) \/ NotifyStart \/ ExStart \/ ExStartFails
           \/ \E s \in NodeStates : SetState(t, s)
  PROVE  BlocTypeOK'
<1> USE BlocAssumption DEF BlocTypeOK, NodeStates, Outcome, ExUpdateState, ExNotifyFailed,
                           Flags, Successors
<1>1. CASE FinishLast(t)
  BY <1>1 DEF FinishLast
<1>2. CASE FinishForward(t)
  <2>1. Flags(t, Successors(t)) \subseteq Links
    <3> SUFFICES ASSUME NEW l \in {<<t, u>> : u \in Successors(t)} PROVE l \in Links
      OBVIOUS
    <3>1. PICK u \in Successors(t) : l = <<t, u>>
      OBVIOUS
    <3> QED BY <3>1
  <2> QED BY <1>2, <2>1 DEF FinishForward
<1>3. CASE FinishThrows(t)
  BY <1>3 DEF FinishThrows
<1>4. CASE NotifyAbort(t)
  BY <1>4 DEF NotifyAbort
<1>5. CASE NotifyStart
  BY <1>5 DEF NotifyStart
<1>6. CASE ExStart
  BY <1>6 DEF ExStart
<1>7. CASE ExStartFails
  BY <1>7 DEF ExStartFails, Sources
<1>8. CASE \E s \in NodeStates : SetState(t, s)
  BY <1>8 DEF SetState
<1> QED BY <1>1, <1>2, <1>3, <1>4, <1>5, <1>6, <1>7, <1>8 DEF NotifyFinish

-----------------------------------------------------------------------------
(* The order of the graph.                                                 *)

(* A node may have run, or be about to.                                    *)
Started == {"TOLOAD", "TOACTIVATE", "ACTIVATED", "DONE"}

(* The strengthening of DependenciesRespected: along the links, and for    *)
(* the flags of the gates, so that a failure cannot meet a started node.   *)
Ordered ==
  /\ \A t, u \in Tasks : <<t, u>> \in arrived => node[t] = "DONE"
  /\ \A t, u \in Tasks : u \in After[t] /\ node[u] \in Started => node[t] = "DONE"

(* An operation on t leaves the other nodes that have started alone, and   *)
(* starts to run no other.                                                 *)
OthersStay(t) ==
  \A u \in Tasks \ {t} :
    IF node[u] \in Started THEN node'[u] = node[u] ELSE node'[u] # "ACTIVATED"

LEMMA StartKeepsOrder ==
  ASSUME BlocTypeOK, BlocInit, ExStart \/ ExStartFails
  PROVE  Ordered' /\ \A u \in Tasks : node'[u] # "ACTIVATED"
<1>1. \A u \in Tasks : node'[u] \in Started => node'[u] = "TOLOAD" /\ u \in Sources
  BY DEF BlocInit, ExStart, ExStartFails, ExUpdateState, Started, Sources
<1>2. \A t \in Tasks : After[t] \intersect Sources = {}
  BY BlocAssumption DEF Sources, Predecessors, Successors
<1>3. arrived' = {}
  BY DEF BlocInit, ExStart, ExStartFails
<1> QED BY <1>1, <1>2, <1>3 DEF Ordered, Started

(* What a notification does to the nodes, one by one.                      *)
LEMMA AbortNodes ==
  ASSUME BlocTypeOK, NEW t \in Tasks, NotifyAbort(t)
  PROVE  /\ node' = [u \in Tasks |-> IF u \in After[t] THEN "FAILED"
                                     ELSE IF u = t THEN "ERROR" ELSE node[u]]
         /\ arrived' = arrived /\ t \notin After[t]
BY BlocAssumption DEF NotifyAbort, ExNotifyFailed, BlocTypeOK

LEMMA FinishNodes ==
  ASSUME BlocTypeOK, NEW t \in Tasks, NotifyFinish(t)
  PROVE  /\ node'[t] = "DONE"
         /\ \A u \in Tasks \ {t} : \/ node'[u] = node[u]
                                   \/ node[u] = "READY" /\ node'[u] = "TOLOAD"
                                   \/ /\ u \in After[t] /\ node'[u] = "FAILED"
                                      /\ Invalid # {}
<1> USE BlocAssumption DEF BlocTypeOK
<1>1. CASE FinishLast(t)
  BY <1>1 DEF FinishLast
<1>2. CASE FinishForward(t)
  BY <1>2 DEF FinishForward, ExUpdateState
<1>3. CASE FinishThrows(t)
  BY <1>3 DEF FinishThrows, ExNotifyFailed
<1> QED BY <1>1, <1>2, <1>3 DEF NotifyFinish

LEMMA AbortKeepsOrder ==
  ASSUME BlocTypeOK, Ordered, NEW t \in Tasks, node[t] # "DONE", NotifyAbort(t)
  PROVE  Ordered' /\ OthersStay(t) /\ node'[t] = "ERROR"
<1>1. node' = [u \in Tasks |-> IF u \in After[t] THEN "FAILED"
                               ELSE IF u = t THEN "ERROR" ELSE node[u]]
  BY AbortNodes
<1>2. \A u \in After[t] : node[u] \notin Started
  BY BlocAssumption DEF Ordered
<1>3. arrived' = arrived /\ t \notin After[t]
  BY AbortNodes
<1>4. \A u \in Tasks : node[u] = "DONE" => node'[u] = "DONE"
  BY <1>1, <1>2 DEF Started
<1>5. \A u \in Tasks : node'[u] \in Started => node'[u] = node[u]
  BY <1>1 DEF Started
<1> QED BY <1>1, <1>2, <1>3, <1>4, <1>5 DEF Ordered, OthersStay, Started

LEMMA FinishKeepsOrder ==
  ASSUME BlocTypeOK, Ordered, NEW t \in Tasks, node[t] = "ACTIVATED", NotifyFinish(t)
  PROVE  Ordered' /\ OthersStay(t) /\ node'[t] = "DONE"
<1>1. t \notin After[t] /\ \A u \in After[t] : node[u] \notin Started
  BY BlocAssumption DEF Ordered, Started
<1>2. \A v, u \in Tasks : <<v, u>> \in arrived' => <<v, u>> \in arrived \/ v = t
  BY DEF NotifyFinish, FinishLast, FinishForward, FinishThrows, Flags
<1>3. CASE FinishLast(t) \/ FinishThrows(t)
  <2>1. /\ node'[t] = "DONE"
        /\ \A u \in Tasks \ {t} : node'[u] \in {node[u], "FAILED"}
        /\ \A u \in Tasks \ {t} : node[u] \in Started => node'[u] = node[u]
    BY <1>3, <1>1 DEF FinishLast, FinishThrows, ExNotifyFailed, BlocTypeOK
  <2> QED BY <2>1, <1>2 DEF Ordered, OthersStay, Started
<1>4. CASE FinishForward(t)
  <2>1. /\ node'[t] = "DONE"
        /\ \A u \in Tasks \ {t} : \/ node'[u] = node[u]
                                  \/ /\ node[u] = "READY" /\ node'[u] = "TOLOAD"
                                     /\ ExIsReady(u, arrived')
    BY <1>4 DEF FinishForward, ExUpdateState, BlocTypeOK
  <2>2. \A u \in Tasks : node[u] = "DONE" => node'[u] = "DONE"
    BY <2>1
  <2>3. OthersStay(t)
    BY <2>1 DEF OthersStay, Started
  <2>4. \A v, u \in Tasks : <<v, u>> \in arrived' => node'[v] = "DONE"
    BY <2>1, <2>2, <1>2 DEF Ordered
  <2>5. ASSUME NEW s \in Tasks, NEW u \in After[s], node'[u] \in Started
        PROVE  node'[s] = "DONE"
    <3>1. u \in Tasks
      BY BlocAssumption
    <3>2. CASE node[u] \in Started
      BY <3>1, <3>2, <2>2 DEF Ordered
    <3>3. CASE node[u] \notin Started
      <4>1. ExIsReady(u, arrived')
        BY <3>1, <3>3, <2>1, <2>5, <1>1 DEF Started
      <4>2. \A v \in Predecessors(u) : v \in Tasks /\ node'[v] = "DONE"
        BY <3>1, <4>1, <2>4 DEF ExIsReady, Predecessors
      <4>3. PICK v \in After[s] \union {s} : v \in Predecessors(u)
        BY <3>1, BlocAssumption DEF Predecessors, Successors
      <4>4. CASE v = s
        BY <4>2, <4>3, <4>4
      <4>5. CASE v = t /\ v \in After[s]
        BY <4>5, <2>2 DEF Ordered, Started
      <4>6. CASE v # t /\ v \in After[s]
        BY <4>2, <4>3, <4>6, <2>1, <2>2 DEF Ordered, Started
      <4> QED BY <4>3, <4>4, <4>5, <4>6
    <3> QED BY <3>2, <3>3
  <2> QED BY <2>1, <2>3, <2>4, <2>5 DEF Ordered
<1> QED BY <1>3, <1>4 DEF NotifyFinish

-----------------------------------------------------------------------------
(* What becomes of a bloc whose nodes fail.                                *)

(* The strengthening of BlocOutcome: a node in error has met no other      *)
(* error before it, which would have made it FAILED.                       *)
Reached ==
  Invalid = {} =>
    /\ IsFinished <=> AllEnded(node)
    /\ FailureReachesAfter
    /\ \A t, u \in Tasks : u \in After[t] /\ node[u] = "ERROR" => node[t] = "DONE"

LEMMA AbortKeepsReached ==
  ASSUME BlocTypeOK, Ordered, Reached,
         NEW t \in Tasks, node[t] \in Started \ {"DONE"}, NotifyAbort(t)
  PROVE  Reached'
<1> SUFFICES ASSUME Invalid = {} PROVE Reached'
  BY DEF Reached
<1>1. node' = [u \in Tasks |-> IF u \in After[t] THEN "FAILED"
                               ELSE IF u = t THEN "ERROR" ELSE node[u]]
  BY AbortNodes
<1>2. t \notin After[t] /\ node'[t] = "ERROR"
  BY <1>1, BlocAssumption
<1>3. IsFinished' <=> AllEnded(node')
  <2>1. ~AllEnded(node)
    BY DEF AllEnded, Ended, Started
  <2>2. bloc' = IF AllEnded(node') THEN Outcome(node') ELSE bloc
    BY DEF NotifyAbort
  <2> QED BY <2>1, <2>2 DEF Reached, IsFinished, Outcome
<1>4. ASSUME NEW s \in Tasks
      PROVE  node'[s] = "ERROR" <=> s = t \/ node[s] = "ERROR"
  BY <1>1, <1>2 DEF Reached, Started
<1>5. ASSUME NEW u \in Tasks
      PROVE  node'[u] = "FAILED" <=> \E s \in Tasks : node'[s] = "ERROR" /\ u \in After[s]
  <2>1. CASE u \in After[t]
    BY <1>1, <1>2, <2>1
  <2>2. CASE u = t
    <3>1. \A s \in Tasks : node[s] = "ERROR" => u \notin After[s]
      BY <2>2 DEF Ordered, Started
    <3> QED BY <1>2, <1>4, <2>2, <3>1
  <2>3. CASE u \notin After[t] /\ u # t
    <3>1. node'[u] = node[u]
      BY <1>1, <2>3
    <3> QED BY <1>4, <2>3, <3>1 DEF Reached, FailureReachesAfter
  <2> QED BY <2>1, <2>2, <2>3
<1>6. ASSUME NEW s \in Tasks, NEW u \in Tasks, u \in After[s], node'[u] = "ERROR"
      PROVE  node'[s] = "DONE"
  <2>1. node[s] = "DONE"
    BY <1>4, <1>6 DEF Reached, Ordered
  <2> QED BY <1>1, <2>1 DEF Ordered, Started
<1> QED BY <1>3, <1>5, <1>6 DEF Reached, FailureReachesAfter

LEMMA FinishKeepsReached ==
  ASSUME BlocTypeOK, Reached, NEW t \in Tasks, node[t] = "ACTIVATED", NotifyFinish(t)
  PROVE  Reached'
<1> SUFFICES ASSUME Invalid = {} PROVE Reached'
  BY DEF Reached
<1>1. FinishLast(t) \/ FinishForward(t)
  BY DEF NotifyFinish, FinishThrows
<1>2. /\ node'[t] = "DONE"
      /\ \A u \in Tasks \ {t} : \/ node'[u] = node[u]
                                \/ node[u] = "READY" /\ node'[u] = "TOLOAD"
  BY <1>1 DEF FinishLast, FinishForward, ExUpdateState, BlocTypeOK
<1>3. IsFinished' <=> AllEnded(node')
  <2>1. CASE FinishLast(t)
    BY <2>1 DEF FinishLast, IsFinished, Outcome
  <2>2. CASE FinishForward(t)
    <3>1. ~IsFinished /\ bloc' = bloc
      BY <2>2 DEF FinishForward, Reached, AllEnded, Ended
    <3>2. PICK u \in Tasks : [node EXCEPT ![t] = "DONE"][u] \notin Ended
      BY <2>2 DEF FinishForward, AllEnded
    <3>3. u # t /\ node'[u] \notin Ended
      BY <1>2, <3>2 DEF BlocTypeOK, Ended
    <3> QED BY <3>1, <3>3 DEF AllEnded, IsFinished
  <2> QED BY <1>1, <2>1, <2>2
<1>4. \A u \in Tasks : /\ node'[u] = "ERROR" <=> node[u] = "ERROR"
                       /\ node'[u] = "FAILED" <=> node[u] = "FAILED"
                       /\ node[u] = "DONE" => node'[u] = "DONE"
  BY <1>2
<1> QED BY <1>3, <1>4 DEF Reached, FailureReachesAfter

(* A step of a node that goes on and of a bloc that runs.                  *)
LEMMA MoveKeepsReached ==
  ASSUME BlocTypeOK, Reached, NEW t \in Tasks, node[t] \notin Ended,
         node' = [node EXCEPT ![t] = node'[t]], node'[t] \in NodeStates \ Ended,
         bloc' = bloc \/ bloc' = "ACTIVATED"
  PROVE  Reached'
<1>1. \A u \in Tasks : node'[u] = node[u] \/ (node[u] \notin Ended /\ node'[u] \notin Ended)
  BY DEF BlocTypeOK
<1>2. ~AllEnded(node) /\ ~AllEnded(node')
  BY DEF AllEnded
<1> QED BY <1>1, <1>2 DEF Reached, FailureReachesAfter, IsFinished, Ended
=============================================================================
