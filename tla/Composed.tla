------------------------------ MODULE Composed ------------------------------
(***************************************************************************)
(* src/src/engine/ComposedNode.cxx, Bloc.cxx, Loop.cxx, ForLoop.cxx,       *)
(* WhileLoop.cxx, Switch.cxx, ForEachLoop.cxx: nodes made of nodes, run by *)
(* the loop of RunB.  An event of a task climbs from father to father; a   *)
(* control structure answers by ending, or by starting nodes below it.  A  *)
(* run that has failed, or that was saved and killed, may be restarted     *)
(* (resetState, VisitorSaveState.cxx, yacsloader/LoadState.cxx).           *)
(*                                                                         *)
(* graph is the state of the whole hierarchy; the operators that take it   *)
(* as their argument g are the calls made in one critical section.  d has  *)
(* the values of the decision ports (number of turns, condition, case,     *)
(* number of samples) found by the structures met in that section.         *)
(*                                                                         *)
(* The branches of a ForEachLoop are nodes of their own from the start;    *)
(* its init and finalize nodes, its results and its restart are in module  *)
(* ForEachLoop.  Every decision port has a value, no node is disabled.     *)
(***************************************************************************)
EXTENDS Integers, Sequences, FiniteSets

CONSTANTS
  Nodes,      \* the nodes of every schema
  Schemas,    \* the roots, one of which is run
  NoNode,
  Father,     \* _father
  Kind,       \* "task", "bloc", "for", "while", "switch" or "foreach"
  Links,      \* the control links between the nodes of a bloc
  FakeOf,     \* the fake node of a structure, that stands for a run of nothing
  Branches,   \* of a ForEachLoop: its branches; of a Switch: its cases 1, 2...
  Options,    \* the values the decision port of a structure may have (a
              \* condition: 0 or 1)
  Leaving,    \* the structures with an output port linked to the outside
  MayFail,    \* the tasks that may fail
  Unloadable, \* those of them that may fail to load
  KeepGoings, \* the values of _keepGoingOnFail a schema is run with
  MaxTurns,   \* bound: how many turns of a while loop
  MaxRestarts \* bound: how many times the schema is restarted

Controls == DOMAIN FakeOf
Fakes == {FakeOf[c] : c \in Controls}
Tasks == {n \in Nodes : Kind[n] = "task"}

ASSUME ComposedAssumption ==
  /\ NoNode \notin Nodes /\ Schemas \subseteq Nodes
  /\ Father \in [Nodes -> Nodes \union {NoNode}]
  /\ \A s \in Schemas : Father[s] = NoNode
  /\ \A s \in Schemas : Kind[s] = "bloc"
  /\ Controls = {n \in Nodes : Kind[n] \in {"for", "while", "switch", "foreach"}}
  /\ Fakes \intersect Nodes = {}
  /\ \A l \in Links : Father[l[1]] = Father[l[2]] /\ Kind[Father[l[1]]] = "bloc"

Ancestors[n \in Nodes] ==
  IF Father[n] = NoNode THEN {} ELSE {Father[n]} \union Ancestors[Father[n]]

Below == [n \in Nodes \union Fakes |-> {m \in Nodes : n \in Ancestors[m]}]
Children == [n \in Nodes |-> {m \in Nodes : Father[m] = n}]
Body(c) == CHOOSE n \in Nodes : Father[n] = c

Successors == [n \in Nodes |-> {m \in Nodes : <<n, m>> \in Links}]
Predecessors == [n \in Nodes |-> {m \in Nodes : <<m, n>> \in Links}]
Behind[n \in Nodes] == Successors[n] \union UNION {Behind[m] : m \in Successors[n]}

(* The nodes form a forest, with structures and blocs as fathers; links    *)
(* form no cycle (checkNoCyclePassingThrough); a loop has one body; a fake *)
(* node is that of one structure.                                          *)
ASSUME HierarchyAssumption ==
  /\ IsFiniteSet(Nodes)
  /\ Kind \in [Nodes -> {"task", "bloc", "for", "while", "switch", "foreach"}]
  /\ \A n \in Nodes : n \notin Ancestors[n] /\ n \notin Behind[n]
  /\ \A n \in Nodes : Father[n] # NoNode => Kind[Father[n]] # "task"
  /\ Links \subseteq Nodes \X Nodes /\ \A l \in Links : Father[l[1]] # NoNode
  /\ \A c \in Controls :
       /\ Kind[c] \in {"for", "while"} => \E n \in Nodes : Children[c] = {n}
       /\ Kind[c] \in {"switch", "foreach"} => Branches[c] \in Seq(Children[c])
       /\ Options[c] \subseteq Int
  /\ \A c, k \in Controls : FakeOf[c] = FakeOf[k] => c = k
  /\ Nodes \intersect {"nothing", "body", "null", "broken"} = {}
  /\ KeepGoings \in [Schemas -> SUBSET BOOLEAN]
  /\ Unloadable \subseteq MayFail /\ MayFail \subseteq Tasks

(* A fake node has the father of its structure, and forwards to the        *)
(* successors of its structure.                                            *)
Owner(t) == IF t \in Fakes THEN CHOOSE c \in Controls : FakeOf[c] = t ELSE t

Depth == CHOOSE k \in 0..Cardinality(Nodes) :
           /\ \E n \in Nodes : Cardinality(Ancestors[n]) = k
           /\ \A n \in Nodes : Cardinality(Ancestors[n]) <= k

VARIABLES
  root,       \* the schema that is run
  keepGoing,  \* _keepGoingOnFail
  graph,      \* the states of the nodes and of the loops, see InitialGraph
  phase,      \* of RunB: "select", "load", "launch" or "over"
  picked,     \* _tasks
  pending,    \* the tasks of picked its current loop has not met yet
  loading,    \* the tasks being loaded
  running,    \* _runningTasks
  failed,     \* a task has failed since the last start (history)
  restarts,   \* number of restarts so far
  spoiled     \* a restart has changed what was done (history), see Spoils

runVars == <<root, keepGoing, restarts, spoiled>>
vars == <<runVars, graph, phase, picked, pending, loading, running, failed>>

Ended == {"DONE", "FAILED", "ERROR"}
NodeStates == Ended \union {"READY", "TOLOAD", "TOACTIVATE", "ACTIVATED"}
NotRunning == -1
NoValue == -2

InitialGraph ==
  [node    |-> [n \in Nodes \union Fakes |-> "READY"],
   arrived |-> {},                                    \* the flags of the in gates
   runs    |-> [c \in Controls |-> "nothing"],        \* "body", a case, or a fake
   turns   |-> [c \in Controls |-> 0],                \* _nbOfTurns
   count   |-> [c \in Controls |-> NoValue],          \* the value of the decision port
   current |-> [c \in Controls |-> 0],                \* _execCurrentId
   ids     |-> [n \in Nodes |-> NotRunning],          \* _execIds
   errors  |-> [c \in Controls |-> 0]]                \* _failedCounter

-----------------------------------------------------------------------------
(* exUpdateState: a node is started, and with it the nodes below it that   *)
(* wait for nothing.                                                       *)

(* The structure has nothing to run and creates its fake node.             *)
MakesFake(c, value) ==
  CASE Kind[c] = "switch"  -> value \notin DOMAIN Branches[c]
    [] Kind[c] = "for"     -> value <= 0
    [] Kind[c] = "while"   -> value = 0
    [] Kind[c] = "foreach" -> value = 0 \/ Branches[c] = <<>>

(* The fake node fails when nodes outside wait for the results of a run,   *)
(* and for a negative number of turns.                                     *)
FakeFails(c, value) ==
  CASE Kind[c] = "for"     -> value < 0 \/ c \in Leaving
    [] Kind[c] = "foreach" -> value # 0 /\ c \in Leaving
    [] OTHER               -> c \in Leaving

FakeRuns == {"null", "broken"}

(* Unlike a Loop, a ForEachLoop never resets _nodeForSpecialCases: once it *)
(* had no sample, it goes on looking at its fake node.                     *)
RunOf(g, c, value) ==
  IF MakesFake(c, value) THEN IF FakeFails(c, value) THEN "broken" ELSE "null"
  ELSE IF Kind[c] = "switch" THEN Branches[c][value]
  ELSE IF Kind[c] = "foreach" /\ g.runs[c] \in FakeRuns THEN g.runs[c]
  ELSE "body"

Smaller(x, y) == IF x < y THEN x ELSE y
FirstBranches(c, size) == {Branches[c][i] : i \in 1..Smaller(size, Len(Branches[c]))}
Rank(c, n) == CHOOSE i \in 1..Len(Branches[c]) : Branches[c][i] = n

(* A bloc and a ForEachLoop that are done stay so; a Loop and a Switch do  *)
(* not look.                                                               *)
StaysDone(g, n) == g.node[n] = "DONE" /\ Kind[n] \in {"bloc", "foreach"}

(* n is started with its father.                                           *)
Entered(g, n, d) ==
  LET f == Father[n]
  IN  /\ ~StaysDone(g, n)
      /\ CASE Kind[f] = "bloc"              -> \A p \in Predecessors[n] : <<p, n>> \in g.arrived
           [] Kind[f] \in {"for", "while"}  -> TRUE
           [] Kind[f] = "switch"            -> d[f] \in DOMAIN Branches[f] /\ Branches[f][d[f]] = n
           [] Kind[f] = "foreach"           -> n \in FirstBranches(f, d[f])

Reached(g, ns, d) ==
  LET starts == {n \in ns : ~StaysDone(g, n)}
  IN  starts \union {m \in Nodes : \E n \in starts :
        /\ m \in Below[n]
        /\ \A k \in ({m} \union Ancestors[m]) \intersect Below[n] : Entered(g, k, d)}

ExUpdateState(g, ns, d) ==
  LET reached == Reached(g, ns, d)
      fakes == {FakeOf[c] : c \in {k \in reached \intersect Controls : MakesFake(k, d[k])}}
      forEachs == {c \in reached \intersect Controls : Kind[c] = "foreach"}
  IN  [g EXCEPT
        !.node = [n \in Nodes \union Fakes |->
                    IF n \in fakes THEN "TOACTIVATE"
                    ELSE IF n \notin reached THEN @[n]
                    ELSE IF n \notin Tasks \union Fakes THEN "ACTIVATED"
                    ELSE IF @[n] = "READY" THEN "TOLOAD" ELSE @[n]],
        !.runs = [c \in Controls |-> IF c \in reached THEN RunOf(g, c, d[c]) ELSE @[c]],
        !.count = [c \in Controls |-> IF c \in reached THEN d[c] ELSE @[c]],
        !.current = [c \in Controls |->
                       IF c \in forEachs THEN Cardinality(FirstBranches(c, d[c])) ELSE @[c]],
        !.ids = [n \in Nodes |->
                   IF Father[n] \notin forEachs THEN @[n]
                   ELSE IF n \in reached THEN Rank(Father[n], n) - 1 ELSE NotRunning]]

(* Mutant: the gates are not reset.                                        *)
InitKeepsGates(g, n) ==
  LET inside == {n} \union Below[n]
  IN  [g EXCEPT
        !.node = [m \in Nodes \union Fakes |-> IF m \in inside THEN "READY" ELSE @[m]],
        !.runs = [c \in Controls |->
                    IF c \in inside /\ Kind[c] \in {"for", "while"} THEN "nothing" ELSE @[c]],
        !.turns = [c \in Controls |-> IF c \in inside THEN 0 ELSE @[c]],
        !.count = [c \in Controls |-> IF c \in inside THEN NoValue ELSE @[c]],
        !.errors = [c \in Controls |-> IF c \in inside THEN 0 ELSE @[c]]]

(* init(false), before a node is run once more.                            *)
InitNode(g, n) ==
  LET inside == {n} \union Below[n]
  IN  [g EXCEPT
        !.node = [m \in Nodes \union Fakes |-> IF m \in inside THEN "READY" ELSE @[m]],
        !.arrived = {l \in @ : l[2] \notin inside},
        !.runs = [c \in Controls |->
                    IF c \in inside /\ Kind[c] \in {"for", "while"} THEN "nothing" ELSE @[c]],
        !.turns = [c \in Controls |-> IF c \in inside THEN 0 ELSE @[c]],
        !.count = [c \in Controls |-> IF c \in inside THEN NoValue ELSE @[c]],
        !.errors = [c \in Controls |-> IF c \in inside THEN 0 ELSE @[c]]]

RunAgain(g, n, d) == ExUpdateState(InitNode(g, n), {n}, d)

-----------------------------------------------------------------------------
(* updateStateFrom: what a father makes of the event of one of its nodes.  *)

SetState(g, n, s) == [g EXCEPT !.node[n] = s]

(* The father f, once it has answered, sends event to its own father.      *)
Answer(g, f, event) == [graph |-> g, node |-> f, event |-> event]

AllEnded(g, ns) == \A n \in ns : g.node[n] \in Ended
AllDone(g, ns) == \A n \in ns : g.node[n] = "DONE"

ExForwardFinished(g, n, d) ==
  LET flags == g.arrived \union {<<n, m>> : m \in Successors[n]}
      ready == {m \in Successors[n] : \A p \in Predecessors[m] : <<p, m>> \in flags}
  IN  ExUpdateState([g EXCEPT !.arrived = flags], ready, d)

ExForwardFailed(g, n) ==
  [g EXCEPT !.node = [m \in Nodes \union Fakes |->
                        IF m \in Behind[n] THEN "FAILED" ELSE @[m]]]

BlocEnds(g, f) ==
  IF AllDone(g, Children[f]) THEN Answer(SetState(g, f, "DONE"), f, "FINISH")
                             ELSE Answer(SetState(g, f, "FAILED"), f, "ABORT")

BlocFinished(g, f, n, d) ==
  IF AllEnded(g, Children[f]) THEN BlocEnds(g, f)
  ELSE Answer(ExForwardFinished(g, Owner(n), d.start), f, "NOEVENT")

BlocFailed(g, f, n) ==
  LET after == ExForwardFailed(g, Owner(n))
  IN  IF AllEnded(after, Children[f]) THEN BlocEnds(after, f)
                                      ELSE Answer(after, f, "NOEVENT")

(* Mutant: the turns are not counted.                                      *)
ForFinishedUncounted(g, f, d) ==
  IF g.turns[f] >= g.count[f]
    THEN Answer(SetState(g, f, "DONE"), f, "FINISH")
    ELSE Answer(RunAgain(SetState(g, f, "ACTIVATED"), Body(f), d.start), f, "NOEVENT")

ForFinished(g, f, d) ==
  LET counted == [g EXCEPT !.turns[f] = @ + 1]
  IN  IF counted.turns[f] >= g.count[f]
        THEN Answer(SetState(counted, f, "DONE"), f, "FINISH")
        ELSE Answer(RunAgain(SetState(counted, f, "ACTIVATED"), Body(f), d.start), f, "NOEVENT")

(* What is run again is the node that has finished: the body, or the fake  *)
(* node of the body.                                                       *)
WhileFinished(g, f, n, d) ==
  LET counted == [g EXCEPT !.turns[f] = @ + 1]
  IN  IF f \notin d.again
        THEN Answer(SetState(counted, f, "DONE"), f, "FINISH")
        ELSE Answer(RunAgain(counted, n, d.start), f, "NOEVENT")

(* Mutant: a branch that ends is enough.                                   *)
NoBranchRunningAny(g, f) == TRUE

NoBranchRunning(g, f) == \A n \in Children[f] : g.ids[n] = NotRunning

(* A branch has finished its sample, or failed it and the loop keeps going.*)
WorkNodeOver(g, f, n, d) ==
  IF g.current[f] = g.count[f]
    THEN LET after == [g EXCEPT !.ids[n] = NotRunning]
         IN  IF ~NoBranchRunning(after, f) THEN Answer(after, f, "NOEVENT")
             ELSE IF after.errors[f] # 0 THEN Answer(SetState(after, f, "FAILED"), f, "ABORT")
             ELSE Answer(SetState(after, f, "DONE"), f, "FINISH")
  ELSE IF g.node[f] = "ACTIVATED"
    THEN LET next == [g EXCEPT !.ids[n] = g.current[f], !.current[f] = @ + 1]
         IN  Answer(RunAgain(next, n, d.start), f, "NOEVENT")
  ELSE Answer(g, f, "NOEVENT")

(* getIdentityOfNotifyerNode does not know the fake node of a branch: it   *)
(* throws, and updateStateFrom puts the loop in error.                     *)
Unrecognized(g, f) == Answer(ExForwardFailed(SetState(g, f, "ERROR"), f), f, "ABORT")

OnFinished(g, f, n, d) ==
  CASE Kind[f] = "bloc"    -> BlocFinished(g, f, n, d)
    [] Kind[f] = "for"     -> ForFinished(g, f, d)
    [] Kind[f] = "while"   -> WhileFinished(g, f, n, d)
    [] Kind[f] = "switch"  -> Answer(SetState(g, f, "DONE"), f, "FINISH")
    [] Kind[f] = "foreach" -> IF n \in Fakes THEN Unrecognized(g, f)
                                             ELSE WorkNodeOver(g, f, n, d)

(* Mutant: a failed sample is not counted.                                 *)
OnFailedUncounted(g, f, n, d) ==
  CASE Kind[f] = "bloc" -> BlocFailed(g, f, n)
    [] Kind[f] = "foreach" /\ n \in Fakes -> Unrecognized(g, f)
    [] Kind[f] = "foreach" /\ n \notin Fakes /\ keepGoing -> WorkNodeOver(g, f, n, d)
    [] OTHER -> Answer(SetState(g, f, "FAILED"), f, "ABORT")

OnFailed(g, f, n, d) ==
  CASE Kind[f] = "bloc" -> BlocFailed(g, f, n)
    [] Kind[f] = "foreach" /\ n \in Fakes -> Unrecognized(g, f)
    [] Kind[f] = "foreach" /\ n \notin Fakes /\ keepGoing ->
         WorkNodeOver([g EXCEPT !.errors[f] = @ + 1], f, n, d)
    [] OTHER -> Answer(SetState(g, f, "FAILED"), f, "ABORT")

(* Whatever the state of the father was, it is activated by a start.       *)
UpdateStateFrom(l, f, d) ==
  CASE l.event = "START"  -> Answer(SetState(l.graph, f, "ACTIVATED"), f, "START")
    [] l.event = "FINISH" -> OnFinished(l.graph, f, l.node, d)
    [] l.event = "ABORT"  -> OnFailed(l.graph, f, l.node, d)

Values(controls) ==
  {f \in [controls -> UNION {Options[c] : c \in controls}] :
     \A c \in controls : f[c] \in Options[c]}

(* The values the decision ports may take in one critical section.         *)
Decisions ==
  LET controls == Controls \intersect Below[root]
      whiles == {c \in controls : Kind[c] = "while" /\ graph.turns[c] + 1 < MaxTurns}
  IN  [start : Values(controls), again : SUBSET whiles]

(* notifyFrom: from the task up, as long as there is an event to send.     *)
NotifyFrom(g, t, event, d) ==
  LET level[k \in 0..Depth] ==
        IF k = 0 THEN Answer(g, t, event)
        ELSE LET l == level[k - 1]
                 f == Father[Owner(l.node)]
             IN  IF l.event = "NOEVENT" \/ f = NoNode THEN l ELSE UpdateStateFrom(l, f, d)
  IN  level[Depth].graph

-----------------------------------------------------------------------------
(* getReadyTasks: a father that is activated lists what it runs.           *)

Runs(g, n) ==
  LET f == Father[n]
  IN  \/ f = NoNode
      \/ /\ g.node[f] = "ACTIVATED"
         /\ CASE Kind[f] = "bloc"   -> TRUE
              [] Kind[f] = "switch" -> g.runs[f] = n
              [] OTHER              -> g.runs[f] = "body"

Listed(g, t) ==
  LET n == Owner(t)
  IN  /\ \A k \in {n} \union Ancestors[n] : Runs(g, k)
      /\ t \in Fakes => g.node[n] = "ACTIVATED" /\ g.runs[n] \in FakeRuns

ReadyTasks == {t \in Tasks \union Fakes : /\ graph.node[t] \in {"TOLOAD", "TOACTIVATE"}
                                         /\ Listed(graph, t)}

-----------------------------------------------------------------------------
(* RunB                                                                    *)

(* The exUpdateState of the root; a task that is TOLOAD is selected.       *)
Init ==
  /\ root \in Schemas /\ keepGoing \in KeepGoings[root]
  /\ \E start \in Values(Controls \intersect Below[root]) :
       graph = ExUpdateState(InitialGraph, {root}, start)
  /\ phase = "select" /\ picked = {} /\ pending = {} /\ loading = {} /\ running = {}
  /\ failed = FALSE /\ restarts = 0 /\ spoiled = FALSE

(* sleepWhileNoEventsFromAnyRunningTask is left out: the loop selects when *)
(* there is something to select.                                           *)
Select ==
  /\ phase = "select" /\ ReadyTasks # {}
  /\ picked' = ReadyTasks /\ pending' = ReadyTasks /\ phase' = "load"
  /\ UNCHANGED <<runVars, graph, loading, running, failed>>

(* loadTask: a fake node is loaded already.                                *)
BeginLoad(t) ==
  /\ phase = "load" /\ t \in pending
  /\ pending' = pending \ {t}
  /\ \/ /\ graph.node[t] = "TOLOAD"
        /\ \E d \in Decisions : graph' = NotifyFrom(graph, t, "START", d)
        /\ loading' = loading \union {t}
     \/ graph.node[t] # "TOLOAD" /\ UNCHANGED <<graph, loading>>
  /\ UNCHANGED <<runVars, phase, picked, running, failed>>

(* Task::aborted and notifyFrom(ABORT).                                    *)
Fail(t) ==
  /\ \E d \in Decisions :
       graph' = NotifyFrom(SetState(graph, Owner(t), "ERROR"), t, "ABORT", d)
  /\ failed' = TRUE

EndLoad(t) ==
  /\ t \in loading
  /\ loading' = loading \ {t}
  /\ \/ UNCHANGED <<graph, failed>>
     \/ t \in Unloadable /\ Fail(t)
  /\ UNCHANGED <<runVars, phase, picked, pending, running>>

(* launchTasks connects the tasks that loaded, one after the other.        *)
StartLaunch ==
  /\ phase = "load" /\ pending = {} /\ loading = {}
  /\ phase' = "launch" /\ pending' = picked
  /\ graph' = [graph EXCEPT !.node = [n \in Nodes \union Fakes |->
                  IF n \in picked /\ @[n] = "TOLOAD" THEN "TOACTIVATE" ELSE @[n]]]
  /\ UNCHANGED <<runVars, picked, loading, running, failed>>

(* launchTask                                                              *)
Launch(t) ==
  /\ phase = "launch" /\ t \in pending
  /\ pending' = pending \ {t}
  /\ \/ /\ graph.node[t] = "TOACTIVATE"
        /\ graph' = SetState(graph, t, "ACTIVATED")
        /\ running' = running \union {t}
     \/ graph.node[t] # "TOACTIVATE" /\ UNCHANGED <<graph, running>>
  /\ UNCHANGED <<runVars, phase, picked, loading, failed>>

EndTurn ==
  /\ phase = "launch" /\ pending = {}
  /\ phase' = "select" /\ picked' = {}
  /\ UNCHANGED <<runVars, graph, pending, loading, running, failed>>

(* functionForTaskExecution                                                *)
Finish(t) ==
  /\ t \in running
  /\ running' = running \ {t}
  /\ t \in Fakes => graph.runs[Owner(t)] = "null"
  /\ \E d \in Decisions :
       graph' = NotifyFrom(SetState(graph, Owner(t), "DONE"), t, "FINISH", d)
  /\ UNCHANGED <<runVars, phase, picked, pending, loading, failed>>

Abort(t) ==
  /\ t \in running
  /\ running' = running \ {t}
  /\ t \in MayFail \/ (t \in Fakes /\ graph.runs[Owner(t)] = "broken")
  /\ Fail(t)
  /\ UNCHANGED <<runVars, phase, picked, pending, loading>>

(* The graph is finished, or nothing happened for 25 turns.                *)
EndRun ==
  /\ phase = "select" /\ running = {} /\ ReadyTasks = {}
  /\ phase' = "over"
  /\ UNCHANGED <<runVars, graph, picked, pending, loading, running, failed>>

-----------------------------------------------------------------------------
(* Restart of a run that is over, or that was saved and killed.            *)

(* Mutant: what is done is reset too.                                      *)
UnfinishedOrDone(g, n) == g.node[n] \in Ended \union {"ACTIVATED"}

Unfinished(g, n) == g.node[n] \in {"ERROR", "FAILED", "ACTIVATED"}

(* resetState goes down from father to child as long as they have not      *)
(* finished.                                                               *)
ToReset(g) ==
  {n \in {root} \union Below[root] : \A k \in {n} \union Ancestors[n] : Unfinished(g, k)}

(* cleanDynGraph: the branches of the ForEachLoops it meets are deleted.   *)
Cleaned(g) == {c \in Controls : Kind[c] = "foreach" /\ Father[c] \in ToReset(g)}
Deleted(cs) == UNION {Below[c] : c \in cs}

(* Mutant: the gates are left as they are.                                 *)
PrecursorsForgotten(g, ns) == {}

(* setPrecursorDone                                                        *)
Precursors(g, ns) == {l \in Links : l[2] \in ns /\ g.node[l[1]] = "DONE"}

(* The nodes ns and their fake nodes are those of a new object.            *)
Fresh(g, ns) ==
  [g EXCEPT
    !.node = [n \in Nodes \union Fakes |-> IF Owner(n) \in ns THEN "READY" ELSE @[n]],
    !.arrived = {l \in @ : l[2] \notin ns},
    !.runs = [c \in Controls |-> IF c \in ns THEN "nothing" ELSE @[c]],
    !.turns = [c \in Controls |-> IF c \in ns THEN 0 ELSE @[c]],
    !.count = [c \in Controls |-> IF c \in ns THEN NoValue ELSE @[c]],
    !.errors = [c \in Controls |-> IF c \in ns THEN 0 ELSE @[c]],
    !.current = [c \in Controls |-> IF c \in ns \union Cleaned(g) THEN 0 ELSE @[c]],
    !.ids = [n \in Nodes |-> IF n \in ns THEN NotRunning ELSE @[n]]]

ResetState(g) ==
  LET reset == ToReset(g) \ Deleted(Cleaned(g))
      fresh == Fresh(g, Deleted(Cleaned(g)))
  IN  [fresh EXCEPT
        !.node = [n \in Nodes \union Fakes |-> IF n \in reset THEN "READY" ELSE @[n]],
        !.arrived = @ \union Precursors(g, reset)]

(* What the file has for another process, after its init(): the states of  *)
(* the nodes that are not branches, the turns and the values of the ports; *)
(* graphParser::onEnd finds the gates again.                               *)
Loaded(g) ==
  LET saved == Nodes \ Deleted(Controls \intersect {c \in Nodes : Kind[c] = "foreach"})
  IN  [InitialGraph EXCEPT
        !.node = [n \in Nodes \union Fakes |-> IF n \in saved THEN g.node[n] ELSE @[n]],
        !.arrived = Precursors(g, saved),
        !.turns = [c \in Controls |-> IF c \in saved THEN g.turns[c] ELSE @[c]],
        !.count = [c \in Controls |-> IF c \in saved THEN g.count[c] ELSE @[c]]]

(* The decision ports keep their values, but that of a while loop, which   *)
(* changes in the turn, and that of a ForEachLoop whose results were saved.*)
Kept(g) ==
  {start \in Values(Controls \intersect Below[root]) :
     \A c \in DOMAIN start : g.count[c] # NoValue =>
       CASE Kind[c] = "while"   -> TRUE
         [] Kind[c] = "foreach" -> start[c] <= g.count[c]
         [] OTHER               -> start[c] = g.count[c]}

(* A restart should leave alone what is done, and forget what has failed.  *)
Spoils(before, after) ==
  \E c \in Controls : \/ before.node[c] = "DONE" /\ after.node[c] # "DONE"
                      \/ after.errors[c] # 0

RestartFrom(g) ==
  /\ restarts < MaxRestarts /\ restarts' = restarts + 1
  /\ \E start \in Kept(g) : graph' = ExUpdateState(ResetState(g), {root}, start)
  /\ phase' = "select" /\ picked' = {} /\ pending' = {} /\ loading' = {} /\ running' = {}
  /\ failed' = FALSE
  /\ spoiled' = (spoiled \/ Spoils(g, graph'))
  /\ UNCHANGED <<root, keepGoing>>

(* "Restart execution": RestartFromState(""), in the same process.         *)
Restart == phase = "over" /\ graph.node[root] # "DONE" /\ RestartFrom(graph)

(* The state is saved, the process is killed, and another one calls        *)
(* RestartFromState with the file.                                         *)
Reload == graph.node[root] # "DONE" /\ RestartFrom(Loaded(graph))

-----------------------------------------------------------------------------

(* A thread goes on: that of RunB, or that of a task.                      *)
Advance ==
  \/ Select \/ StartLaunch \/ EndTurn \/ EndRun
  \/ \E t \in Tasks \union Fakes :
       BeginLoad(t) \/ EndLoad(t) \/ Launch(t) \/ Finish(t) \/ Abort(t)

Over == phase = "over" /\ UNCHANGED vars

Next == Advance \/ Restart \/ Reload \/ Over

Spec == Init /\ [][Next]_vars

(* WF_vars(Advance): some thread that can go on does, and a task that is   *)
(* launched ends.  Advance is enabled until the run is over (there is no   *)
(* deadlock), which spares the evaluation of ENABLED.                      *)
FairSpec == Spec /\ ([]<><<Advance>>_vars \/ <>[](phase = "over"))

-----------------------------------------------------------------------------
(* Properties                                                              *)

(* The hierarchy and the sets of RunB keep their types.                    *)
TypeOK ==
  /\ root \in Schemas /\ keepGoing \in BOOLEAN /\ failed \in BOOLEAN
  /\ graph.node \in [Nodes \union Fakes -> NodeStates]
  /\ graph.arrived \subseteq Links
  /\ phase \in {"select", "load", "launch", "over"}
  /\ picked \union running \subseteq Tasks \union Fakes
  /\ pending \subseteq picked /\ loading \subseteq picked

(* A task runs when what its node and each node around it waits for is     *)
(* done, in the case its switch has chosen and in no structure that has    *)
(* nothing to run; also in the second turn of a loop around a bloc (its    *)
(* in gates are reset: Node::init, Bloc::exUpdateState), and after a       *)
(* restart (Node::resetState, graphParser::onEnd).                         *)
RunsInOrder ==
  \A t \in running : ~spoiled =>
    \A n \in {Owner(t)} \union Ancestors[Owner(t)] :
      /\ AllDone(graph, Predecessors[n])
      /\ Father[n] # NoNode =>
           CASE Kind[Father[n]] = "bloc"   -> TRUE
             [] Kind[Father[n]] = "switch" -> graph.runs[Father[n]] = n
             [] OTHER                      -> graph.runs[Father[n]] = "body"

(* A node that is DONE has no task in progress below it: what follows it   *)
(* never runs beside a branch of a ForEachLoop or a turn of a loop         *)
(* (ForEachLoop.cxx:803, areAllSubNodesFinished).                          *)
DoneMeansQuiet ==
  \A n \in Nodes : graph.node[n] = "DONE" =>
    \A t \in loading \union running : n \notin Ancestors[Owner(t)] /\ t # n

(* The failure of a task, at any depth, is never lost: the schema is not   *)
(* DONE after it, even when a ForEachLoop went on with other samples and   *)
(* used its branch again (_failedCounter).                                 *)
FailureReachesRoot == graph.node[root] = "DONE" => ~failed

InLoop(n) == \E k \in Ancestors[n] : Kind[k] \in {"for", "while", "foreach"}

(* From g to h the nodes that are DONE stay so, but those of a next turn.  *)
KeepsDone(g, h) == \A n \in Nodes : ~InLoop(n) /\ g.node[n] = "DONE" => h.node[n] = "DONE"

(* What is done outside the loops is done for good: it is not run again,   *)
(* and no failure marks it FAILED, in a run (Bloc.cxx:410 closes what      *)
(* depends on the failed node) nor by a restart, which resets from father  *)
(* to child what has not finished (ComposedNode.cxx:1638), unless it has   *)
(* started a structure that was done (see Spoils).                         *)
DoneIsKept == [][~spoiled' => KeepsDone(graph, graph')]_vars

(* RunB ends with the graph: the last node to end has ended the schema,    *)
(* FAILED after a failure and DONE without one, in the first run and in a  *)
(* run that a restart begins, unless the restart has started a structure   *)
(* that was done (ForLoop.cxx:103, WhileLoop.cxx:58, Switch.cxx:319 do not *)
(* look at it) or kept the count of the failed samples                     *)
(* (ForEachLoop.cxx:1120).                                                 *)
EndsWithItsGraph ==
  phase = "over" /\ ~spoiled =>
    graph.node[root] = IF failed THEN "FAILED" ELSE "DONE"

(* Every run ends.                                                         *)
RunEnds == <>[](phase = "over")

(* "Restart execution command restart execution after having reset nodes   *)
(* terminated with error to initial state" (doc/execution.rst:52): what is *)
(* done is kept, what has failed is run again, and a run without a failure *)
(* is then DONE.                                                           *)
RestartRepairs == phase = "over" /\ ~failed => graph.node[root] = "DONE"

(* "A While loop executes the internal node as long as a condition is      *)
(* true" (doc/principes.rst:493): a run is not over with a loop that has   *)
(* turns left to do (WhileLoop.cxx:117, ForEachLoop.cxx:542).              *)
LoopsEnd ==
  phase = "over" => \A c \in Controls : graph.node[c] # "ACTIVATED"

=============================================================================
