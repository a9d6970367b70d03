-------------------------- MODULE DefaultAlgorithm --------------------------
(***************************************************************************)
(* src/src/workloadmanager/DefaultAlgorithm.cxx: the placement algorithm   *)
(* of the workload manager.  It keeps the list of waiting tasks (biggest   *)
(* first), the load of every resource, and which container indices of each *)
(* container type run on each resource.                                    *)
(*                                                                         *)
(* Cores are integers (the unit is the smallest fraction of a core a task  *)
(* asks for); a ContainerType is compared by name and id only              *)
(* (Task.hxx:38), hence the constant sets of types and resources.          *)
(***************************************************************************)
EXTENDS Integers, Sequences, SequencesExt, FiniteSets, FiniteSetsExt

CONSTANTS
  Tasks, Types, Resources,
  NoResource,   \* the default-constructed Resource of a LaunchInfo
  TypeOf,       \* Task::type()
  Cores,        \* ContainerType::neededCores
  Ignoring,     \* the types with ContainerType::ignoreResources
  NbCores,      \* Resource::nbCores
  Accepted      \* Task::isAccepted: the resources a task accepts

ASSUME PlacementAssumption ==
  /\ TypeOf \in [Tasks -> Types]
  /\ Cores \in [Types -> Nat]
  /\ Ignoring \subseteq Types
  /\ NbCores \in [Resources -> Nat]
  /\ Accepted \in [Tasks -> SUBSET Resources]
  /\ NoResource \notin Resources

VARIABLES
  waiting,      \* _waitingTasks
  resources,    \* _resources, in the order of the list
  frozen,       \* _resourcesFrozen
  load,         \* ResourceLoadInfo::_load, per resource
  loadCost,     \* ResourceLoadInfo::_loadCost, in 1/4096 of a core
  busy,         \* ResourceInfoForContainer::_runningContainers
  firstFree,    \* ResourceInfoForContainer::_firstFreeContainer
  granted       \* the LaunchInfos returned by chooseTask, not liberated yet

algoVars == <<waiting, resources, frozen, load, loadCost, busy, firstFree, granted>>

Neededs(t) == Cores[TypeOf[t]]

(* What chooseTask hands out: on a resource, without one, or as an error.  *)
LaunchInfo ==
  [task : Tasks, kind : {"placed"}, resource : Resources, index : Nat]
    \union
  [task : Tasks, kind : {"unplaced", "error"}, resource : {NoResource}, index : {0}]

Known == Range(resources)

-----------------------------------------------------------------------------

Init ==
  /\ waiting = <<>>
  /\ resources = <<>>
  /\ frozen = FALSE
  /\ load = [r \in Resources |-> 0]
  /\ loadCost = [r \in Resources |-> 0]
  /\ busy = [r \in Resources |-> [c \in Types |-> {}]]
  /\ firstFree = [r \in Resources |-> [c \in Types |-> 0]]
  /\ granted = {}

(* The place before which addTask inserts: behind every task that needs at *)
(* least as many cores.                                                    *)
InsertPosition(t) ==
  CHOOSE i \in 1..(Len(waiting) + 1) :
    /\ \A j \in 1..(i - 1) : Neededs(waiting[j]) >= Neededs(t)
    /\ i <= Len(waiting) => Neededs(waiting[i]) < Neededs(t)

AddTask(t) ==
  /\ waiting' = InsertAt(waiting, InsertPosition(t), t)
  /\ UNCHANGED <<resources, frozen, load, loadCost, busy, firstFree, granted>>

AddResource(r) ==
  /\ resources' = Append(resources, r)
  /\ UNCHANGED <<waiting, frozen, load, loadCost, busy, firstFree, granted>>

FreezeResources ==
  /\ frozen' = TRUE
  /\ UNCHANGED <<waiting, resources, load, loadCost, busy, firstFree, granted>>

-----------------------------------------------------------------------------

IsSupported(t, r) == Neededs(t) <= NbCores[r] /\ r \in Accepted[t]

(* Mutant: the load is compared before the task is added to it.            *)
IsAllocPossibleLate(t, r) == load[r] <= NbCores[r]

IsAllocPossible(t, r) == Neededs(t) + load[r] <= NbCores[r]

(* cost(r) < cost(s), cost being _loadCost * 100 / nbCores.                *)
Cheaper(r, s) == loadCost[r] * NbCores[s] < loadCost[s] * NbCores[r]

(* The cost of a resource without cores is 0/0, and best_cost > NaN is     *)
(* false: chooseTask passes over such a resource.                          *)
Candidates(t) ==
  {i \in DOMAIN resources :
     /\ IsSupported(t, resources[i])
     /\ IsAllocPossible(t, resources[i])
     /\ NbCores[resources[i]] > 0}

(* The scan keeps the cheapest resource, and the first among equals.       *)
Preferred(i, j) ==
  IF j < i THEN Cheaper(resources[i], resources[j])
           ELSE ~Cheaper(resources[j], resources[i])

Best(t) ==
  resources[CHOOSE i \in Candidates(t) : \A j \in Candidates(t) \ {i} : Preferred(i, j)]

Unsupported(t) == \A r \in Known : ~IsSupported(t, r)

(* Mutant: an unsupported task fails before the resources are frozen.      *)
StartableUnfrozen(t) ==
  TypeOf[t] \in Ignoring \/ Candidates(t) # {} \/ Unsupported(t)

Startable(t) ==
  \/ TypeOf[t] \in Ignoring
  \/ Candidates(t) # {}
  \/ Unsupported(t) /\ frozen

CanChoose == \E i \in DOMAIN waiting : Startable(waiting[i])

(* COST_FOR_0_CORE_TASKS is 1/4096.                                        *)
CostOf(c) == IF Cores[c] = 0 THEN 1 ELSE 4096 * Cores[c]

(* Mutant: the loop that skips running containers is forgotten.            *)
NextFreeNoSkip(running, index) == index + 1

(* ++_firstFreeContainer until it is not running: at most one step per     *)
(* running container.                                                      *)
NextFree(running, index) ==
  CHOOSE n \in (index + 1)..(index + 1 + Cardinality(running)) :
    n \notin running /\ \A k \in (index + 1)..(n - 1) : k \in running

(* ResourceLoadInfo::alloc and ResourceInfoForContainer::alloc.            *)
Alloc(c, r) ==
  LET index == firstFree[r][c]
      running == busy[r][c] \union {index}
  IN  /\ load' = [load EXCEPT ![r] = @ + Cores[c]]
      /\ loadCost' = [loadCost EXCEPT ![r] = @ + CostOf(c)]
      /\ busy' = [busy EXCEPT ![r][c] = running]
      /\ firstFree' = [firstFree EXCEPT ![r][c] = NextFree(running, index)]

Grant(t, kind, r, index) ==
  granted' = granted \union
    {[task |-> t, kind |-> kind, resource |-> r, index |-> index]}

ChooseTask ==
  \E i \in DOMAIN waiting :
    LET t == waiting[i]
        c == TypeOf[t]
    IN  /\ Startable(t)
        /\ \A j \in 1..(i - 1) : ~Startable(waiting[j])
        /\ waiting' = RemoveAt(waiting, i)
        /\ UNCHANGED <<resources, frozen>>
        /\ \/ /\ c \in Ignoring
              /\ Grant(t, "unplaced", NoResource, 0)
              /\ UNCHANGED <<load, loadCost, busy, firstFree>>
           \/ /\ c \notin Ignoring /\ Candidates(t) # {}
              /\ Grant(t, "placed", Best(t), firstFree[Best(t)][c])
              /\ Alloc(c, Best(t))
           \/ /\ c \notin Ignoring /\ Candidates(t) = {}
              /\ Grant(t, "error", NoResource, 0)
              /\ UNCHANGED <<load, loadCost, busy, firstFree>>

(* Mutant: a liberated index below the first free one is not taken back.   *)
FreeKeepsFirst(c, r, index) ==
  /\ load' = [load EXCEPT ![r] = @ - Cores[c]]
  /\ loadCost' = [loadCost EXCEPT ![r] = @ - CostOf(c)]
  /\ busy' = [busy EXCEPT ![r][c] = @ \ {index}]
  /\ UNCHANGED firstFree

(* ResourceLoadInfo::free and ResourceInfoForContainer::free.              *)
Free(c, r, index) ==
  /\ load' = [load EXCEPT ![r] = @ - Cores[c]]
  /\ loadCost' = [loadCost EXCEPT ![r] = @ - CostOf(c)]
  /\ busy' = [busy EXCEPT ![r][c] = @ \ {index}]
  /\ firstFree' = [firstFree EXCEPT ![r][c] = IF index < @ THEN index ELSE @]

Liberate(info) ==
  /\ granted' = granted \ {info}
  /\ IF info.kind = "placed"
       THEN Free(TypeOf[info.task], info.resource, info.index)
       ELSE UNCHANGED <<load, loadCost, busy, firstFree>>
  /\ UNCHANGED <<waiting, resources, frozen>>

-----------------------------------------------------------------------------
(* The algorithm on its own: any sequence of calls by a client that adds a *)
(* task only while the algorithm does not hold it, adds a resource once    *)
(* and, as WorkloadManager does, liberates only what was chosen.           *)

Held == Range(waiting) \union {info.task : info \in granted}

Next ==
  \/ \E t \in Tasks \ Held : AddTask(t)
  \/ \E r \in Resources \ Known : ~frozen /\ AddResource(r)
  \/ FreezeResources
  \/ ChooseTask
  \/ \E info \in granted : Liberate(info)

Spec == Init /\ [][Next]_algoVars

-----------------------------------------------------------------------------

TypeOK ==
  /\ waiting \in Seq(Tasks)
  /\ resources \in Seq(Resources)
  /\ frozen \in BOOLEAN
  /\ load \in [Resources -> Int]
  /\ loadCost \in [Resources -> Int]
  /\ busy \in [Resources -> [Types -> SUBSET Nat]]
  /\ firstFree \in [Resources -> [Types -> Nat]]
  /\ granted \subseteq LaunchInfo

PlacedOn(r) == {g \in granted : g.kind = "placed" /\ g.resource = r}

(* Two tasks that run at the same time never share a container: the worker *)
(* (type, index) that alloc hands out on a resource is free there.         *)
DistinctWorkers ==
  \A g, h \in granted :
    /\ g.kind = "placed" /\ h.kind = "placed"
    /\ g.resource = h.resource
    /\ TypeOf[g.task] = TypeOf[h.task]
    /\ g.index = h.index
    => g = h

(* The cores of the tasks placed on a resource never exceed its cores, in  *)
(* whatever order tasks are placed and liberated.                          *)
CapacityRespected ==
  \A r \in Resources :
    MapThenSumSet(LAMBDA g : Neededs(g.task), PlacedOn(r)) <= NbCores[r]

(* The indices handed out stay low: as the unit test asserts, (index + 1)  *)
(* containers of the type fit in the resource (TestMain.cxx:155), so a     *)
(* liberated index is reused before a new one is opened.                   *)
IndexWithinCapacity ==
  \A g \in granted :
    g.kind = "placed" =>
      (g.index + 1) * Neededs(g.task) <= NbCores[g.resource]

(* What is placed fits: neither the cores nor the containers run over.     *)
PlacementFits == CapacityRespected /\ IndexWithinCapacity

(* A task is given up only when no resource the algorithm will ever have   *)
(* can run it: as long as resources may come, it waits (TestMain.cxx:358). *)
ErrorOnlyIfHopeless ==
  \A g \in granted : g.kind = "error" => Unsupported(g.task)

(* addTask keeps the biggest tasks in front, whatever is removed in        *)
(* between.                                                                *)
BiggestFirst ==
  \A i, j \in DOMAIN waiting :
    i < j => Neededs(waiting[i]) >= Neededs(waiting[j])
=============================================================================
