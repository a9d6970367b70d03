----------------------------- MODULE PlayGround -----------------------------
(***************************************************************************)
(* The cores that homogeneous pools of containers share:                   *)
(* src/src/engine/PlayGround.cxx (which cores of which machine are         *)
(* occupied), src/src/runtime/SalomeHPContainer.cxx with its table of      *)
(* workers, and the group the executor forms before it allocates           *)
(* (Executor::filterTasksConsideringContainers).  A worker of a container  *)
(* is a chunk of consecutive cores of one machine; its id counts the       *)
(* chunks of all machines in order.                                        *)
(*                                                                         *)
(* Every action runs with the lock of the playground held.  A task is      *)
(* ready, then working, then done.                                         *)
(***************************************************************************)
EXTENDS Integers, FiniteSets, FiniteSetsExt

CONSTANTS
  Tasks, Containers,
  ContainerOf,      \* Task::getContainer
  Width,            \* getNumberOfCoresPerWorker
  NbMachines,       \* the size of _data
  NbCores           \* Resource::nbCores

Machines == 1..NbMachines

ASSUME PlayGroundAssumption ==
  /\ ContainerOf \in [Tasks -> Containers]
  /\ Width \in [Containers -> Nat \ {0}]
  /\ NbMachines \in Nat
  /\ NbCores \in [Machines -> Nat]

VARIABLES
  occupied,     \* Resource::_occupied: the occupied <<machine, core>>
  working,      \* _currentlyWorking of each container: <<task, worker id>>
  ready,        \* the tasks not allocated yet
  thrown        \* an exception has left the thread of a task: no step follows

pgVars == <<occupied, working, ready, thrown>>

NbWorkers(r, w) == NbCores[r] \div w

(* The id of the first worker of a machine.                                *)
Offset(r, w) == MapThenSumSet(LAMBDA q : NbWorkers(q, w), 1..(r - 1))

Chunk(r, i, w) == {r} \X ((i * w)..(i * w + w - 1))

(* Mutant: only the first core of a chunk is looked at.                    *)
FreeChunksFirstCore(r, w) ==
  {i \in 0..(NbWorkers(r, w) - 1) : <<r, i * w>> \notin occupied}

(* The cores left over at the end of a machine are no chunk.               *)
FreeChunks(r, w) ==
  {i \in 0..(NbWorkers(r, w) - 1) : Chunk(r, i, w) \intersect occupied = {}}

FreeIds(w) == UNION {{Offset(r, w) + i : i \in FreeChunks(r, w)} : r \in Machines}

NumberOfFreePlace(w) == Cardinality(FreeIds(w))

(* The cores of a worker.                                                  *)
CoresOf(id, w) ==
  UNION {Chunk(r, id - Offset(r, w), w) :
           r \in {r \in Machines : id \in Offset(r, w)..(Offset(r, w) + NbWorkers(r, w) - 1)}}

(* PlayGround::allocateFor fills the machines in order, lowest chunk first.*)
FirstFree(w, n) ==
  {id \in FreeIds(w) : Cardinality({j \in FreeIds(w) : j < id}) < n}

(* _whichOccupied.                                                         *)
Busy(c) == {entry[2] : entry \in working[c]}

-----------------------------------------------------------------------------

Init ==
  /\ occupied = {}
  /\ working = [c \in Containers |-> {}]
  /\ ready = Tasks
  /\ thrown = FALSE

OneToOne(ts, ids) ==
  {f \in [ts -> ids] : \A t, u \in ts : f[t] = f[u] => t = u}

(* One group of the filter: HPCCompare compares containers by their cores  *)
(* per worker, so the group holds the tasks of every container of that     *)
(* width, and all are allocated in the container of one of them.           *)
Allocate(group, via) ==
  LET w == Width[via]
      n == IF Cardinality(group) < NumberOfFreePlace(w)
             THEN Cardinality(group) ELSE NumberOfFreePlace(w)
      ids == FirstFree(w, n)
  IN  /\ ~thrown
      /\ \E u \in group : via = ContainerOf[u]
      /\ \A u \in group : Width[ContainerOf[u]] = w
      /\ IF ids \intersect Busy(via) # {}
           THEN thrown' = TRUE /\ UNCHANGED <<occupied, working, ready>>
           ELSE /\ \E chosen \in SUBSET group : \E f \in OneToOne(chosen, ids) :
                     /\ Cardinality(chosen) = n
                     /\ ready' = ready \ chosen
                     /\ working' = [working EXCEPT ![via] = @ \union {<<t, f[t]>> : t \in chosen}]
                /\ occupied' = occupied \union UNION {CoresOf(id, w) : id \in ids}
                /\ UNCHANGED thrown

(* Mutant: the cores of the neighbour are given back too.                  *)
ReleaseChunkWide(id, w) ==
  LET found == {r \in Machines : id < NbWorkers(r, w)}
      chunk == Chunk(Min(found), id, w + 1)
  IN  IF found # {} /\ chunk \subseteq occupied
        THEN occupied' = occupied \ chunk /\ UNCHANGED thrown
        ELSE thrown' = TRUE /\ UNCHANGED occupied

(* PlayGround::release: the offset stays 0, so the first machine with more *)
(* than id workers is taken for the machine of the worker.                 *)
ReleaseChunk(id, w) ==
  LET found == {r \in Machines : id < NbWorkers(r, w)}
      chunk == Chunk(Min(found), id, w)
  IN  IF found = {} THEN UNCHANGED <<occupied, thrown>>
      ELSE IF chunk \subseteq occupied
        THEN occupied' = occupied \ chunk /\ UNCHANGED thrown
        ELSE thrown' = TRUE /\ UNCHANGED occupied

(* SalomeHPContainer::release, in the container of the task.  The id is    *)
(* read in the map entry after it is erased; it is taken to be still there.*)
Release(t) ==
  LET c == ContainerOf[t]
      entries == {entry \in working[c] : entry[1] = t}
  IN  /\ ~thrown
      /\ t \notin ready /\ \E d \in Containers : \E entry \in working[d] : entry[1] = t
      /\ UNCHANGED ready
      /\ IF entries = {}
           THEN thrown' = TRUE /\ UNCHANGED <<occupied, working>>
           ELSE /\ working' = [working EXCEPT ![c] = @ \ entries]
                /\ \E entry \in entries : ReleaseChunk(entry[2], Width[c])

Next ==
  \/ \E group \in SUBSET ready : \E via \in Containers : Allocate(group, via)
  \/ \E t \in Tasks : Release(t)

Spec == Init /\ [][Next]_pgVars

-----------------------------------------------------------------------------

PGTypeOK ==
  /\ occupied \subseteq UNION {{r} \X (0..(NbCores[r] - 1)) : r \in Machines}
  /\ working \in [Containers -> SUBSET (Tasks \X Nat)]
  /\ ready \subseteq Tasks
  /\ thrown \in BOOLEAN

Workers == UNION {{<<c, entry>> : entry \in working[c]} : c \in Containers}

CoresOfWorker(k) == CoresOf(k[2][2], Width[k[1]])

(* Containers of different widths share the machines and never a core: the *)
(* occupied cores are exactly those of the working tasks, each of them     *)
(* used by one task, in whatever order tasks end.                          *)
CoresOfWorkingTasks ==
  /\ occupied = UNION {CoresOfWorker(k) : k \in Workers}
  /\ \A k, l \in Workers : k # l => CoresOfWorker(k) \intersect CoresOfWorker(l) = {}

(* None of the "internal error" exceptions of allocateForCrude and release *)
(* is reached (SalomeHPContainerTools.cxx:71, :88, PlayGround.cxx:80).     *)
NeverThrows == ~thrown
=============================================================================
