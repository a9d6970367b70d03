----------------------- MODULE WorkloadManager_proofs -------------------------
(***************************************************************************)
(* Proofs about the workload manager, for any number of tasks, types and   *)
(* resources.  First its placement algorithm on its own (DefaultAlgorithm, *)
(* under Spec): two tasks never share a worker, the tasks placed fit in    *)
(* the cores, and the biggest task waits in front, whatever the calls and  *)
(* their order.  Then the manager that calls it (WSpec): the queues        *)
(* between its threads stay coherent, and a client sees a pool of workers  *)
(* (TaskPool).                                                             *)
(***************************************************************************)
EXTENDS WorkloadManager, FiniteSetTheorems, SequenceTheorems, TLAPS

(* The least-number principle, for a set.                                  *)
LEMMA LeastElement ==
  ASSUME NEW S \in SUBSET Nat, S # {}
  PROVE  \E m \in S : \A k \in S : m <= k
<1> DEFINE below(n) == 0..(n - 1)
           T == {below(n) : n \in S}
           R == StrictSubsetOrdering(Nat)
<1>1. T \subseteq FiniteSubsetsOf(Nat)
  <2>1. \A n \in S : IsFiniteSet(below(n)) /\ below(n) \subseteq Nat
    BY FS_Interval
  <2> QED BY <2>1 DEF FiniteSubsetsOf
<1>2. T # {}
  OBVIOUS
<1>3. PICK x \in T : \A y \in T : <<y, x>> \notin R
  <2> HIDE DEF T, R
  <2>1. IsWellFoundedOn(R, FiniteSubsetsOf(Nat))
    BY FS_StrictSubsetOrderingWellFounded DEF R
  <2> QED BY <1>1, <1>2, <2>1, WFMin
<1>4. PICK m \in S : x = below(m)
  OBVIOUS
<1>5. ASSUME NEW k \in S, k < m
      PROVE  FALSE
  <2>1. below(k) \subseteq below(m) /\ k \in below(m) /\ k \notin below(k)
    BY <1>5
  <2>2. <<below(k), below(m)>> \in R
    BY <2>1 DEF StrictSubsetOrdering
  <2> QED BY <1>3, <1>4, <2>2
<1> QED BY <1>5

(* The indices in use are finitely many, so that the search for a free one *)
(* ends within as many steps.                                              *)
LEMMA NextFreeExists ==
  ASSUME NEW running \in SUBSET Nat, IsFiniteSet(running), NEW index \in Nat
  PROVE  /\ NextFree(running, index) \in Nat \ running /\ NextFree(running, index) > index
         /\ \A k \in (index + 1)..(NextFree(running, index) - 1) : k \in running
<1> DEFINE last == index + 1 + Cardinality(running)
           free == ((index + 1)..last) \ running
<1>1. Cardinality(running) \in Nat
  BY FS_CardinalityType
<1>2. free # {}
  <2> SUFFICES ASSUME free = {} PROVE FALSE
    OBVIOUS
  <2>1. (index + 1)..last \subseteq running
    OBVIOUS
  <2>2. Cardinality((index + 1)..last) <= Cardinality(running)
    BY <2>1, FS_Subset
  <2>3. Cardinality((index + 1)..last) = Cardinality(running) + 1
    BY <1>1, FS_Interval
  <2> QED BY <1>1, <2>2, <2>3
<1>3. PICK n \in free : \A k \in free : n <= k
  <2>1. free \in SUBSET Nat
    BY <1>1
  <2> HIDE DEF free
  <2> QED BY <1>2, <2>1, LeastElement
<1>4. /\ n \in (index + 1)..last /\ n \notin running
      /\ \A k \in (index + 1)..(n - 1) : k \in running
  BY <1>1, <1>3
<1> QED BY <1>1, <1>4 DEF NextFree

-----------------------------------------------------------------------------
(* The operations return what their names say.                             *)

LEMMA InsertPositionExists ==
  ASSUME TypeOK, NEW t \in Tasks
  PROVE  /\ InsertPosition(t) \in 1..(Len(waiting) + 1)
         /\ \A j \in 1..(InsertPosition(t) - 1) : Neededs(waiting[j]) >= Neededs(t)
         /\ InsertPosition(t) <= Len(waiting) =>
              Neededs(waiting[InsertPosition(t)]) < Neededs(t)
<1> DEFINE S == {i \in 1..(Len(waiting) + 1) :
                   i <= Len(waiting) => Neededs(waiting[i]) < Neededs(t)}
<1>1. Len(waiting) \in Nat /\ \A i \in 1..Len(waiting) : waiting[i] \in Tasks
  BY DEF TypeOK
<1>2. S \in SUBSET Nat /\ Len(waiting) + 1 \in S
  BY <1>1
<1>3. PICK m \in S : \A k \in S : m <= k
  <2> HIDE DEF S
  <2> QED BY <1>2, LeastElement
<1>4. ASSUME NEW j \in 1..(m - 1)
      PROVE  Neededs(waiting[j]) >= Neededs(t)
  <2>1. j \in 1..Len(waiting) /\ j \notin S
    BY <1>1, <1>3
  <2>2. Neededs(waiting[j]) \in Nat /\ Neededs(t) \in Nat
    BY <1>1, <2>1, PlacementAssumption DEF Neededs
  <2> QED BY <2>1, <2>2
<1> QED BY <1>3, <1>4 DEF InsertPosition

(* The ratios that cost compares are ordered.                              *)
LEMMA RatioTransitive ==
  ASSUME NEW a \in Int, NEW b \in Int, NEW c \in Int,
         NEW x \in Nat \ {0}, NEW y \in Nat \ {0}, NEW z \in Nat \ {0}
  PROVE  /\ a * y < b * x /\ b * z <= c * y => a * z < c * x
         /\ a * y <= b * x /\ b * z < c * y => a * z < c * x
         /\ a * y <= b * x /\ b * z <= c * y => a * z <= c * x
<1>1. \A p, q \in Int, n \in Nat \ {0} : (p < q <=> p * n < q * n) /\ (p <= q <=> p * n <= q * n)
  OBVIOUS
<1>2. /\ a * y \in Int /\ b * x \in Int /\ b * z \in Int
      /\ c * y \in Int /\ a * z \in Int /\ c * x \in Int
  OBVIOUS
<1>3. /\ (a * y) * z = (a * z) * y
      /\ (b * x) * z = (b * z) * x
      /\ (c * y) * x = (c * x) * y
  OBVIOUS
<1>4. /\ (a * y < b * x <=> (a * y) * z < (b * x) * z)
      /\ (a * y <= b * x <=> (a * y) * z <= (b * x) * z)
      /\ (b * z < c * y <=> (b * z) * x < (c * y) * x)
      /\ (b * z <= c * y <=> (b * z) * x <= (c * y) * x)
      /\ (a * z < c * x <=> (a * z) * y < (c * x) * y)
      /\ (a * z <= c * x <=> (a * z) * y <= (c * x) * y)
  BY <1>1, <1>2
<1> QED BY <1>2, <1>3, <1>4

LEMMA PreferredTransitive ==
  ASSUME TypeOK, NEW t \in Tasks, NEW i \in Candidates(t), NEW j \in Candidates(t),
         NEW k \in Candidates(t), i # j, j # k, Preferred(i, j), Preferred(j, k)
  PROVE  i # k /\ Preferred(i, k)
<1> DEFINE L(n) == loadCost[resources[n]]
           N(n) == NbCores[resources[n]]
<1>1. \A n \in Candidates(t) : n \in Nat /\ L(n) \in Int /\ N(n) \in Nat \ {0}
  <2> SUFFICES ASSUME NEW n \in Candidates(t)
               PROVE  n \in Nat /\ L(n) \in Int /\ N(n) \in Nat \ {0}
    OBVIOUS
  <2>1. n \in DOMAIN resources /\ N(n) > 0
    BY DEF Candidates
  <2>2. n \in 1..Len(resources) /\ resources[n] \in Resources
    BY <2>1 DEF TypeOK
  <2>3. L(n) \in Int /\ N(n) \in Nat
    BY <2>2, PlacementAssumption DEF TypeOK
  <2> QED BY <2>1, <2>2, <2>3
<1>2. /\ L(i) * N(j) \in Int /\ L(j) * N(i) \in Int /\ L(j) * N(k) \in Int
      /\ L(k) * N(j) \in Int /\ L(i) * N(k) \in Int /\ L(k) * N(i) \in Int
  <2> HIDE DEF L, N
  <2> QED BY <1>1
<1>3. IF j < i THEN L(i) * N(j) < L(j) * N(i) ELSE L(i) * N(j) <= L(j) * N(i)
  BY <1>2 DEF Preferred, Cheaper
<1>4. IF k < j THEN L(j) * N(k) < L(k) * N(j) ELSE L(j) * N(k) <= L(k) * N(j)
  BY <1>2 DEF Preferred, Cheaper
<1>5. i # k
  <2> HIDE DEF L, N
  <2> QED BY <1>1, <1>2, <1>3, <1>4
<1>6. IF k < i THEN L(i) * N(k) < L(k) * N(i) ELSE L(i) * N(k) <= L(k) * N(i)
  <2> HIDE DEF L, N
  <2>1. /\ L(i) * N(j) < L(j) * N(i) /\ L(j) * N(k) <= L(k) * N(j) => L(i) * N(k) < L(k) * N(i)
        /\ L(i) * N(j) <= L(j) * N(i) /\ L(j) * N(k) < L(k) * N(j) => L(i) * N(k) < L(k) * N(i)
        /\ L(i) * N(j) <= L(j) * N(i) /\ L(j) * N(k) <= L(k) * N(j) => L(i) * N(k) <= L(k) * N(i)
    BY <1>1, RatioTransitive
  <2> QED BY <1>1, <1>2, <1>3, <1>4, <2>1
<1> QED BY <1>2, <1>5, <1>6 DEF Preferred, Cheaper

(* A candidate that the fewest others are preferred to has none.           *)
LEMMA BestExists ==
  ASSUME TypeOK, NEW t \in Tasks, Candidates(t) # {}
  PROVE  Best(t) \in Resources /\ IsSupported(t, Best(t)) /\ IsAllocPossible(t, Best(t))
<1> DEFINE C == Candidates(t)
           better(i) == {j \in C \ {i} : ~Preferred(i, j)}
           T == {better(i) : i \in C}
           R == StrictSubsetOrdering(Nat)
<1>1. C \subseteq 1..Len(resources) /\ Len(resources) \in Nat /\ C \subseteq Nat
  BY DEF TypeOK, Candidates
<1>2. T \subseteq FiniteSubsetsOf(Nat)
  <2>1. IsFiniteSet(1..Len(resources))
    BY <1>1, FS_Interval
  <2>2. \A i \in C : IsFiniteSet(better(i)) /\ better(i) \subseteq Nat
    BY <1>1, <2>1, FS_Subset
  <2> QED BY <2>2 DEF FiniteSubsetsOf
<1>3. T # {}
  OBVIOUS
<1>4. PICK s \in T : \A y \in T : <<y, s>> \notin R
  <2> HIDE DEF T, R
  <2>1. IsWellFoundedOn(R, FiniteSubsetsOf(Nat))
    BY FS_StrictSubsetOrderingWellFounded DEF R
  <2> QED BY <1>2, <1>3, <2>1, WFMin
<1>5. PICK i \in C : s = better(i)
  OBVIOUS
<1>6. \A j, k \in C : j # k => (Preferred(j, k) <=> ~Preferred(k, j))
  BY <1>1 DEF Preferred
<1>7. ASSUME NEW j \in better(i)
      PROVE  FALSE
  <2>1. j \in C /\ j # i /\ Preferred(j, i)
    BY <1>6
  <2>2. ASSUME NEW k \in better(j) PROVE k \in better(i)
    <3>1. k \in C /\ k # j /\ Preferred(k, j)
      BY <2>1, <1>6
    <3>2. k # i /\ Preferred(k, i)
      BY <2>1, <3>1, PreferredTransitive
    <3> QED BY <3>1, <3>2, <1>6
  <2>3. better(j) \subseteq better(i) /\ better(j) # better(i)
    BY <2>2
  <2>4. <<better(j), better(i)>> \in R
    BY <2>1, <2>3, <1>1 DEF StrictSubsetOrdering
  <2> QED BY <1>4, <1>5, <2>1, <2>4
<1>8. \A j \in C \ {i} : Preferred(i, j)
  BY <1>7
<1>9. \E n \in C : Best(t) = resources[n]
  BY <1>8 DEF Best
<1> QED BY <1>1, <1>9 DEF TypeOK, Candidates

-----------------------------------------------------------------------------
(* Types.                                                                  *)

LEMMA InsertAtIs ==
  ASSUME TypeOK, NEW t \in Tasks, NEW i \in 1..(Len(waiting) + 1)
  PROVE  /\ InsertAt(waiting, i, t) \in Seq(Tasks)
         /\ Len(InsertAt(waiting, i, t)) = Len(waiting) + 1
         /\ \A n \in 1..(Len(waiting) + 1) :
              InsertAt(waiting, i, t)[n] = IF n < i THEN waiting[n]
                                           ELSE IF n = i THEN t ELSE waiting[n - 1]
<1> DEFINE before == SubSeq(waiting, 1, i - 1)
           after == SubSeq(waiting, i, Len(waiting))
<1>1. Len(waiting) \in Nat /\ i \in Nat /\ \A n \in 1..Len(waiting) : waiting[n] \in Tasks
  BY DEF TypeOK
<1>2. /\ before \in Seq(Tasks) /\ Len(before) = i - 1
      /\ \A n \in 1..(i - 1) : before[n] = waiting[n]
  <2>1. \A n \in 1..(i - 1) : waiting[n] \in Tasks
    BY <1>1
  <2>2. /\ before \in Seq(Tasks) /\ Len(before) = IF 1 <= i - 1 THEN (i - 1) - 1 + 1 ELSE 0
        /\ \A n \in 1..((i - 1) - 1 + 1) : before[n] = waiting[1 + n - 1]
    BY <1>1, <2>1, SubSeqProperties
  <2> QED BY <1>1, <2>2
<1>3. /\ after \in Seq(Tasks) /\ Len(after) = Len(waiting) + 1 - i
      /\ \A n \in 1..(Len(waiting) + 1 - i) : after[n] = waiting[i + n - 1]
  <2>1. \A n \in i..Len(waiting) : waiting[n] \in Tasks
    BY <1>1
  <2>2. /\ after \in Seq(Tasks) /\ Len(after) = IF i <= Len(waiting) THEN Len(waiting) - i + 1 ELSE 0
        /\ \A n \in 1..(Len(waiting) - i + 1) : after[n] = waiting[i + n - 1]
    BY <1>1, <2>1, SubSeqProperties
  <2> QED BY <1>1, <2>2
<1>4. <<t>> \in Seq(Tasks) /\ Len(<<t>>) = 1 /\ <<t>>[1] = t
  OBVIOUS
<1> DEFINE start == before \o <<t>>
<1> HIDE DEF before, after
<1>5. /\ start \in Seq(Tasks) /\ Len(start) = i
      /\ \A n \in 1..i : start[n] = IF n < i THEN waiting[n] ELSE t
  <2>1. /\ start \in Seq(Tasks) /\ Len(start) = Len(before) + Len(<<t>>)
        /\ \A n \in 1..(Len(before) + Len(<<t>>)) :
             start[n] = IF n <= Len(before) THEN before[n] ELSE <<t>>[n - Len(before)]
    BY <1>2, <1>4, ConcatProperties
  <2> QED BY <1>1, <1>2, <1>4, <2>1
<1>6. InsertAt(waiting, i, t) = start \o after
  BY DEF InsertAt, before, after
<1> HIDE DEF start
<1>7. /\ start \o after \in Seq(Tasks) /\ Len(start \o after) = Len(start) + Len(after)
      /\ \A n \in 1..(Len(start) + Len(after)) :
           (start \o after)[n] = IF n <= Len(start) THEN start[n] ELSE after[n - Len(start)]
  BY <1>3, <1>5, ConcatProperties
<1>8. ASSUME NEW n \in 1..(Len(waiting) + 1)
      PROVE  (start \o after)[n] = IF n < i THEN waiting[n] ELSE IF n = i THEN t ELSE waiting[n - 1]
  <2>1. CASE n <= i
    BY <1>1, <1>3, <1>5, <1>7, <2>1
  <2>2. CASE n > i
    <3>1. (start \o after)[n] = after[n - i] /\ n - i \in 1..(Len(waiting) + 1 - i)
      BY <1>1, <1>3, <1>5, <1>7, <2>2
    <3>2. after[n - i] = waiting[i + (n - i) - 1] /\ i + (n - i) - 1 = n - 1
      BY <1>1, <1>3, <3>1
    <3> QED BY <1>1, <2>2, <3>1, <3>2
  <2>3. n <= i \/ n > i
    BY <1>1
  <2> QED BY <2>1, <2>2, <2>3
<1> QED BY <1>1, <1>3, <1>5, <1>6, <1>7, <1>8

LEMMA RemoveAtIs ==
  ASSUME TypeOK, NEW i \in DOMAIN waiting
  PROVE  /\ RemoveAt(waiting, i) \in Seq(Tasks)
         /\ Len(RemoveAt(waiting, i)) = Len(waiting) - 1
         /\ \A n \in 1..(Len(waiting) - 1) :
              RemoveAt(waiting, i)[n] = IF n < i THEN waiting[n] ELSE waiting[n + 1]
<1> DEFINE before == SubSeq(waiting, 1, i - 1)
           after == SubSeq(waiting, i + 1, Len(waiting))
<1>1. /\ Len(waiting) \in Nat /\ i \in 1..Len(waiting)
      /\ \A n \in 1..Len(waiting) : waiting[n] \in Tasks
  BY DEF TypeOK
<1>2. /\ before \in Seq(Tasks) /\ Len(before) = i - 1
      /\ \A n \in 1..(i - 1) : before[n] = waiting[n]
  <2>1. \A n \in 1..(i - 1) : waiting[n] \in Tasks
    BY <1>1
  <2>2. /\ before \in Seq(Tasks) /\ Len(before) = IF 1 <= i - 1 THEN (i - 1) - 1 + 1 ELSE 0
        /\ \A n \in 1..((i - 1) - 1 + 1) : before[n] = waiting[1 + n - 1]
    BY <1>1, <2>1, SubSeqProperties
  <2> QED BY <1>1, <2>2
<1>3. /\ after \in Seq(Tasks) /\ Len(after) = Len(waiting) - i
      /\ \A n \in 1..(Len(waiting) - i) : after[n] = waiting[i + n]
  <2>1. \A n \in (i + 1)..Len(waiting) : waiting[n] \in Tasks
    BY <1>1
  <2>2. /\ after \in Seq(Tasks)
        /\ Len(after) = IF i + 1 <= Len(waiting) THEN Len(waiting) - (i + 1) + 1 ELSE 0
        /\ \A n \in 1..(Len(waiting) - (i + 1) + 1) : after[n] = waiting[i + 1 + n - 1]
    BY <1>1, <2>1, SubSeqProperties
  <2> QED BY <1>1, <2>2
<1>4. RemoveAt(waiting, i) = before \o after
  BY DEF RemoveAt
<1> HIDE DEF before, after
<1>5. /\ before \o after \in Seq(Tasks) /\ Len(before \o after) = Len(before) + Len(after)
      /\ \A n \in 1..(Len(before) + Len(after)) :
           (before \o after)[n] = IF n <= Len(before) THEN before[n] ELSE after[n - Len(before)]
  BY <1>2, <1>3, ConcatProperties
<1>6. ASSUME NEW n \in 1..(Len(waiting) - 1)
      PROVE  (before \o after)[n] = IF n < i THEN waiting[n] ELSE waiting[n + 1]
  <2>1. CASE n < i
    BY <1>1, <1>2, <1>3, <1>5, <2>1
  <2>2. CASE n >= i
    <3>1. n - (i - 1) \in 1..(Len(waiting) - i)
      BY <1>1, <2>2
    <3>3. n \in 1..(Len(before) + Len(after)) /\ ~(n <= Len(before))
      BY <1>1, <1>2, <1>3, <2>2
    <3>4. (before \o after)[n] = after[n - (i - 1)]
      BY <1>2, <1>5, <3>3
    <3>2. after[n - (i - 1)] = waiting[i + (n - (i - 1))] /\ i + (n - (i - 1)) = n + 1
      BY <1>1, <1>3, <3>1
    <3> QED BY <1>1, <2>2, <3>2, <3>4
  <2>3. n < i \/ n >= i
    BY <1>1
  <2> QED BY <2>1, <2>2, <2>3
<1>7. Len(before \o after) = Len(waiting) - 1
  BY <1>1, <1>2, <1>3, <1>5
<1> QED BY <1>4, <1>5, <1>6, <1>7

-----------------------------------------------------------------------------
(* The inductive invariant.                                                *)

(* Why two tasks never share a container: the indices in use are recorded, *)
(* they are finitely many, and the next one to hand out is not in use.     *)
IndicesInUse ==
  /\ \A g \in granted : g.kind = "placed" => g.index \in busy[g.resource][TypeOf[g.task]]
  /\ \A r \in Resources, c \in Types :
       IsFiniteSet(busy[r][c]) /\ firstFree[r][c] \notin busy[r][c]

(* Why an error is final: the resources are known for good by then.        *)
ErrorsAreFinal ==
  \A g \in granted : g.kind = "error" => frozen /\ Unsupported(g.task)

AlgoInv == TypeOK /\ IndicesInUse /\ DistinctWorkers /\ ErrorsAreFinal

LEMMA AlgoInit == Init => AlgoInv
<1> SUFFICES ASSUME Init PROVE AlgoInv
  OBVIOUS
<1> USE DEF Init
<1>1. waiting \in Seq(Tasks) /\ resources \in Seq(Resources)
  OBVIOUS
<1>2. TypeOK
  <2>1. busy \in [Resources -> [Types -> SUBSET Nat]]
    OBVIOUS
  <2>2. firstFree \in [Resources -> [Types -> Nat]]
    OBVIOUS
  <2>3. load \in [Resources -> Int] /\ loadCost \in [Resources -> Int]
    OBVIOUS
  <2> QED BY <1>1, <2>1, <2>2, <2>3 DEF TypeOK
<1>3. IndicesInUse
  BY FS_EmptySet DEF IndicesInUse
<1> QED BY <1>2, <1>3 DEF AlgoInv, DistinctWorkers, ErrorsAreFinal

LEMMA AddTaskKeeps ==
  ASSUME AlgoInv, NEW t \in Tasks, AddTask(t)
  PROVE  AlgoInv'
<1>1. waiting' \in Seq(Tasks)
  BY InsertPositionExists, InsertAtIs DEF AddTask, AlgoInv
<1> QED BY <1>1 DEF AddTask, AlgoInv, TypeOK, IndicesInUse, DistinctWorkers, ErrorsAreFinal,
                    Unsupported, Known, IsSupported

LEMMA AddResourceKeeps ==
  ASSUME AlgoInv, NEW r \in Resources, ~frozen, AddResource(r)
  PROVE  AlgoInv'
<1>1. resources' \in Seq(Resources)
  BY DEF AddResource, AlgoInv, TypeOK
<1> QED BY <1>1 DEF AddResource, AlgoInv, TypeOK, IndicesInUse, DistinctWorkers, ErrorsAreFinal

LEMMA FreezeKeeps ==
  ASSUME AlgoInv, FreezeResources
  PROVE  AlgoInv'
BY DEF FreezeResources, AlgoInv, TypeOK, IndicesInUse, DistinctWorkers, ErrorsAreFinal,
       Unsupported, Known, IsSupported

LEMMA ChooseKeeps ==
  ASSUME AlgoInv, ChooseTask
  PROVE  AlgoInv'
<1>1. PICK i \in DOMAIN waiting :
        LET t == waiting[i]
            c == TypeOf[t]
        IN  /\ Startable(t)
            /\ waiting' = RemoveAt(waiting, i)
            /\ UNCHANGED <<resources, frozen>>
            /\ \/ /\ c \in Ignoring
                  /\ Grant(t, "unplaced", NoResource, 0)
                  /\ UNCHANGED <<load, loadCost, busy, firstFree>>
               \/ /\ c \notin Ignoring /\ Candidates(t) # {}
                  /\ Grant(t, "placed", Best(t), firstFree[Best(t)][c])
                  /\ Alloc(c, Best(t))
               \/ /\ c \notin Ignoring /\ Candidates(t) = {}
                  /\ Grant(t, "error", NoResource, 0)
                  /\ UNCHANGED <<load, loadCost, busy, firstFree>>
  BY DEF ChooseTask
<1> DEFINE t == waiting[i]
           c == TypeOf[t]
<1>2. t \in Tasks /\ c \in Types
  BY PlacementAssumption DEF AlgoInv, TypeOK
<1>3. waiting' \in Seq(Tasks)
  BY <1>1, RemoveAtIs DEF AlgoInv
<1>4. \A g : Unsupported(g)' = Unsupported(g)
  BY <1>1 DEF Unsupported, Known, IsSupported
<1>5. CASE c \in Ignoring \/ Candidates(t) = {}
  <2>1. PICK kind \in {"unplaced", "error"} :
          /\ Grant(t, kind, NoResource, 0)
          /\ UNCHANGED <<resources, frozen, load, loadCost, busy, firstFree>>
          /\ kind = "error" => frozen /\ Unsupported(t)
    BY <1>1, <1>5 DEF Startable
  <2> DEFINE g == [task |-> t, kind |-> kind, resource |-> NoResource, index |-> 0]
  <2>2. granted' = granted \union {g}
    BY <2>1 DEF Grant
  <2>3. g \in LaunchInfo
    BY <1>2 DEF LaunchInfo
  <2>4. g.kind # "placed" /\ (g.kind = "error" => frozen /\ Unsupported(g.task))
    BY <2>1
  <2> HIDE DEF g
  <2>5. TypeOK'
    BY <1>3, <2>1, <2>2, <2>3 DEF AlgoInv, TypeOK
  <2>6. IndicesInUse'
    BY <2>1, <2>2, <2>4 DEF AlgoInv, IndicesInUse
  <2>7. DistinctWorkers'
    BY <2>2, <2>4 DEF AlgoInv, DistinctWorkers
  <2>8. ErrorsAreFinal'
    BY <1>4, <2>1, <2>2, <2>4 DEF AlgoInv, ErrorsAreFinal
  <2> QED BY <2>5, <2>6, <2>7, <2>8 DEF AlgoInv
<1>6. CASE c \notin Ignoring /\ Candidates(t) # {}
  <2> DEFINE r == Best(t)
             index == firstFree[r][c]
             running == busy[r][c] \union {index}
             g == [task |-> t, kind |-> "placed", resource |-> r, index |-> index]
  <2>1. r \in Resources
    BY <1>2, <1>6, BestExists DEF AlgoInv
  <2>2. Grant(t, "placed", r, index) /\ Alloc(c, r) /\ UNCHANGED <<resources, frozen>>
    BY <1>1, <1>6
  <2>3. index \in Nat /\ busy[r][c] \in SUBSET Nat /\ IsFiniteSet(busy[r][c]) /\ index \notin busy[r][c]
    BY <1>2, <2>1 DEF AlgoInv, TypeOK, IndicesInUse
  <2>4. running \in SUBSET Nat /\ IsFiniteSet(running)
    BY <2>3, FS_AddElement
  <2>5. NextFree(running, index) \in Nat \ running
    BY <2>3, <2>4, NextFreeExists
  <2>6. granted' = granted \union {g}
    BY <2>2 DEF Grant
  <2>7. /\ load' = [load EXCEPT ![r] = @ + Cores[c]]
        /\ loadCost' = [loadCost EXCEPT ![r] = @ + CostOf(c)]
        /\ busy' = [busy EXCEPT ![r][c] = running]
        /\ firstFree' = [firstFree EXCEPT ![r][c] = NextFree(running, index)]
    BY <2>2 DEF Alloc
  <2>8. /\ g \in LaunchInfo /\ g.kind = "placed" /\ g.resource = r
        /\ TypeOf[g.task] = c /\ g.index = index
    BY <1>2, <2>1, <2>3 DEF LaunchInfo
  <2>9. CostOf(c) \in Nat /\ Cores[c] \in Nat
    BY <1>2, PlacementAssumption DEF CostOf
  <2> DEFINE next == NextFree(running, index)
  <2> HIDE DEF r, index, running, g, next, t, c
  <2>10. TypeOK'
    <3>1. load' \in [Resources -> Int] /\ loadCost' \in [Resources -> Int]
      BY <2>1, <2>7, <2>9 DEF AlgoInv, TypeOK
    <3>2. busy' \in [Resources -> [Types -> SUBSET Nat]]
      BY <1>2, <2>1, <2>4, <2>7 DEF AlgoInv, TypeOK
    <3>3. firstFree' \in [Resources -> [Types -> Nat]]
      BY <1>2, <2>1, <2>5, <2>7 DEF AlgoInv, TypeOK
    <3> QED BY <1>3, <2>2, <2>6, <2>8, <3>1, <3>2, <3>3 DEF AlgoInv, TypeOK
  <2>11. ASSUME NEW q \in Resources, NEW d \in Types
         PROVE  /\ IsFiniteSet(busy'[q][d]) /\ firstFree'[q][d] \notin busy'[q][d]
                /\ busy[q][d] \subseteq busy'[q][d]
    <3>1. CASE q = r /\ d = c
      BY <3>1, <2>4, <2>5, <2>7 DEF AlgoInv, TypeOK, running
    <3>2. CASE ~(q = r /\ d = c)
      BY <3>2, <2>7 DEF AlgoInv, TypeOK, IndicesInUse
    <3> QED BY <3>1, <3>2
  <2>12. \A h \in granted : h.kind = "placed" => h.resource \in Resources /\ TypeOf[h.task] \in Types
    BY PlacementAssumption DEF AlgoInv, TypeOK, LaunchInfo
  <2>13. index \in busy'[r][c]
    BY <1>2, <2>1, <2>7 DEF AlgoInv, TypeOK, running
  <2>14. IndicesInUse'
    BY <2>6, <2>8, <2>11, <2>12, <2>13 DEF AlgoInv, IndicesInUse
  <2>15. DistinctWorkers'
    BY <2>3, <2>6, <2>8 DEF AlgoInv, IndicesInUse, DistinctWorkers
  <2>16. ErrorsAreFinal'
    BY <1>4, <2>2, <2>6, <2>8 DEF AlgoInv, ErrorsAreFinal
  <2> QED BY <2>10, <2>14, <2>15, <2>16 DEF AlgoInv
<1> QED BY <1>5, <1>6

LEMMA LiberateKeeps ==
  ASSUME AlgoInv, NEW info \in granted, Liberate(info)
  PROVE  AlgoInv'
<1>1. /\ granted' = granted \ {info}
      /\ UNCHANGED <<waiting, resources, frozen>>
  BY DEF Liberate
<1>2. info \in LaunchInfo
  BY DEF AlgoInv, TypeOK
<1>3. \A g : Unsupported(g)' = Unsupported(g)
  BY <1>1 DEF Unsupported, Known, IsSupported
<1>4. DistinctWorkers' /\ ErrorsAreFinal'
  BY <1>1, <1>3 DEF AlgoInv, DistinctWorkers, ErrorsAreFinal
<1>5. CASE info.kind # "placed"
  <2>1. UNCHANGED <<load, loadCost, busy, firstFree>>
    BY <1>5 DEF Liberate
  <2> QED BY <1>1, <1>4, <2>1 DEF AlgoInv, TypeOK, IndicesInUse
<1>6. CASE info.kind = "placed"
  <2> DEFINE r == info.resource
             c == TypeOf[info.task]
             index == info.index
             first == IF index < firstFree[r][c] THEN index ELSE firstFree[r][c]
  <2>1. r \in Resources /\ index \in Nat /\ c \in Types
    BY <1>2, <1>6, PlacementAssumption DEF LaunchInfo
  <2>2. /\ load' = [load EXCEPT ![r] = @ - Cores[c]]
        /\ loadCost' = [loadCost EXCEPT ![r] = @ - CostOf(c)]
        /\ busy' = [busy EXCEPT ![r][c] = @ \ {index}]
        /\ firstFree' = [firstFree EXCEPT ![r][c] = IF index < @ THEN index ELSE @]
    BY <1>6 DEF Liberate, Free
  <2>3. CostOf(c) \in Nat /\ Cores[c] \in Nat
    BY <2>1, PlacementAssumption DEF CostOf
  <2>4. \A g \in granted : g.kind = "placed" => g.resource \in Resources /\ TypeOf[g.task] \in Types
    BY PlacementAssumption DEF AlgoInv, TypeOK, LaunchInfo
  <2>5. \A g \in granted :
          g.kind = "placed" /\ g.resource = r /\ TypeOf[g.task] = c /\ g.index = index => g = info
    BY <1>6 DEF AlgoInv, DistinctWorkers
  <2>6. first \in Nat /\ firstFree[r][c] \in Nat
    BY <2>1 DEF AlgoInv, TypeOK
  <2>7. firstFree' = [firstFree EXCEPT ![r][c] = first]
    BY <2>2
  <2>8. busy' = [busy EXCEPT ![r][c] = busy[r][c] \ {index}]
    BY <2>2
  <2>9. first \notin busy[r][c] \ {index} /\ IsFiniteSet(busy[r][c] \ {index})
    BY <2>1, FS_RemoveElement DEF AlgoInv, IndicesInUse
  <2> HIDE DEF r, c, index, first
  <2>10. TypeOK'
    <3>1. load' \in [Resources -> Int] /\ loadCost' \in [Resources -> Int]
      BY <2>1, <2>2, <2>3 DEF AlgoInv, TypeOK
    <3>2. busy' \in [Resources -> [Types -> SUBSET Nat]]
      BY <2>1, <2>8 DEF AlgoInv, TypeOK
    <3>3. firstFree' \in [Resources -> [Types -> Nat]]
      BY <2>1, <2>6, <2>7 DEF AlgoInv, TypeOK
    <3> QED BY <1>1, <3>1, <3>2, <3>3 DEF AlgoInv, TypeOK
  <2>11. ASSUME NEW q \in Resources, NEW d \in Types
         PROVE  /\ IsFiniteSet(busy'[q][d]) /\ firstFree'[q][d] \notin busy'[q][d]
                /\ \A n \in busy[q][d] : n \in busy'[q][d] \/ (q = r /\ d = c /\ n = index)
    <3>1. CASE q = r /\ d = c
      <4>1. busy'[q][d] = busy[r][c] \ {index} /\ firstFree'[q][d] = first
        BY <2>1, <2>7, <2>8, <3>1 DEF AlgoInv, TypeOK
      <4> QED BY <2>9, <3>1, <4>1
    <3>2. CASE ~(q = r /\ d = c)
      <4>1. busy'[q][d] = busy[q][d] /\ firstFree'[q][d] = firstFree[q][d]
        BY <2>1, <2>7, <2>8, <3>2 DEF AlgoInv, TypeOK
      <4> QED BY <4>1 DEF AlgoInv, IndicesInUse
    <3> QED BY <3>1, <3>2
  <2>12. IndicesInUse'
    <3>1. ASSUME NEW g \in granted', g.kind = "placed"
          PROVE  g.index \in busy'[g.resource][TypeOf[g.task]]
      <4>1. g \in granted /\ g # info
        BY <1>1
      <4>2. g.index \in busy[g.resource][TypeOf[g.task]]
        BY <3>1, <4>1 DEF AlgoInv, IndicesInUse
      <4> QED BY <2>4, <2>5, <2>11, <3>1, <4>1, <4>2
    <3> QED BY <2>11, <3>1 DEF IndicesInUse
  <2> QED BY <1>4, <2>10, <2>12 DEF AlgoInv
<1> QED BY <1>5, <1>6

LEMMA AlgoStep == AlgoInv /\ [Next]_algoVars => AlgoInv'
<1> SUFFICES ASSUME AlgoInv, [Next]_algoVars PROVE AlgoInv'
  OBVIOUS
<1>1. ASSUME NEW t \in Tasks \ Held, AddTask(t)
      PROVE  AlgoInv'
  BY <1>1, AddTaskKeeps
<1>2. ASSUME NEW r \in Resources, ~frozen, AddResource(r)
      PROVE  AlgoInv'
  BY <1>2, AddResourceKeeps
<1>3. CASE FreezeResources
  BY <1>3, FreezeKeeps
<1>4. CASE ChooseTask
  BY <1>4, ChooseKeeps
<1>5. ASSUME NEW info \in granted, Liberate(info)
      PROVE  AlgoInv'
  BY <1>5, LiberateKeeps
<1>6. CASE UNCHANGED algoVars
  BY <1>6 DEF algoVars, AlgoInv, TypeOK, IndicesInUse, DistinctWorkers, ErrorsAreFinal,
              Unsupported, Known, IsSupported
<1> QED BY <1>1, <1>2, <1>3, <1>4, <1>5, <1>6 DEF Next

LEMMA AlgoCorrect == Spec => []AlgoInv
<1>1. Init => AlgoInv
  BY AlgoInit
<1>2. AlgoInv /\ [Next]_algoVars => AlgoInv'
  BY AlgoStep
<1> QED BY <1>1, <1>2, PTL DEF Spec

(* The searches of the algorithm (a place in the queue, the cheapest       *)
(* resource, the next free index) always end, and it keeps its types.      *)
THEOREM AlgorithmTypes == Spec => []TypeOK
<1>1. AlgoInv => TypeOK
  BY DEF AlgoInv
<1> QED BY <1>1, AlgoCorrect, PTL

(* Two tasks never share a container, in whatever order tasks are added,   *)
(* placed and liberated, on any number of resources and types.             *)
THEOREM WorkersAreDistinct == Spec => []DistinctWorkers
<1>1. AlgoInv => DistinctWorkers
  BY DEF AlgoInv
<1> QED BY <1>1, AlgoCorrect, PTL

(* A task that was given up could not have run on any resource, those that *)
(* were added later included.                                              *)
THEOREM ErrorsAreHopeless == Spec => []ErrorOnlyIfHopeless
<1>1. AlgoInv => ErrorOnlyIfHopeless
  BY DEF AlgoInv, ErrorsAreFinal, ErrorOnlyIfHopeless
<1> QED BY <1>1, AlgoCorrect, PTL

-----------------------------------------------------------------------------
(* The order of the waiting tasks.                                         *)

LEMMA AddKeepsOrder ==
  ASSUME TypeOK, BiggestFirst, NEW t \in Tasks, AddTask(t)
  PROVE  BiggestFirst'
<1> DEFINE p == InsertPosition(t)
           need(n) == Neededs(waiting[n])
<1>1. /\ Len(waiting) \in Nat /\ p \in 1..(Len(waiting) + 1)
      /\ \A n \in 1..(p - 1) : need(n) >= Neededs(t)
      /\ p <= Len(waiting) => need(p) < Neededs(t)
  BY InsertPositionExists DEF TypeOK
<1>2. /\ DOMAIN waiting' = 1..(Len(waiting) + 1)
      /\ \A n \in 1..(Len(waiting) + 1) :
           waiting'[n] = IF n < p THEN waiting[n] ELSE IF n = p THEN t ELSE waiting[n - 1]
  BY <1>1, InsertAtIs DEF AddTask
<1>3. /\ Neededs(t) \in Nat /\ \A n \in 1..Len(waiting) : need(n) \in Nat
      /\ \A i, j \in 1..Len(waiting) : i < j => need(i) >= need(j)
  <2>1. /\ DOMAIN waiting = 1..Len(waiting)
        /\ \A n \in 1..Len(waiting) : waiting[n] \in Tasks
    BY DEF TypeOK
  <2>2. \A u \in Tasks : Neededs(u) \in Nat
    BY PlacementAssumption DEF Neededs
  <2> QED BY <2>1, <2>2 DEF BiggestFirst
<1> HIDE DEF p
<1>4. \A n \in 1..(Len(waiting) + 1) :
        Neededs(waiting'[n]) = IF n < p THEN need(n) ELSE IF n = p THEN Neededs(t) ELSE need(n - 1)
  BY <1>2
<1>5. \A n \in p..Len(waiting) : need(n) <= Neededs(t)
  BY <1>1, <1>3
<1> HIDE DEF need
<1>6. ASSUME NEW i \in 1..(Len(waiting) + 1), NEW j \in 1..(Len(waiting) + 1), i < j
      PROVE  Neededs(waiting'[i]) >= Neededs(waiting'[j])
  <2>1. CASE j < p
    BY <1>1, <1>3, <1>4, <1>6, <2>1
  <2>2. CASE j = p
    BY <1>1, <1>3, <1>4, <1>6, <2>2
  <2>3. CASE j > p /\ i < p
    BY <1>1, <1>3, <1>4, <1>5, <1>6, <2>3
  <2>4. CASE j > p /\ i = p
    BY <1>1, <1>3, <1>4, <1>5, <1>6, <2>4
  <2>5. CASE j > p /\ i > p
    BY <1>1, <1>3, <1>4, <1>6, <2>5
  <2> QED BY <1>1, <1>6, <2>1, <2>2, <2>3, <2>4, <2>5
<1>7. \A n : Neededs(n)' = Neededs(n)
  BY DEF Neededs
<1> QED BY <1>2, <1>6, <1>7 DEF BiggestFirst, Neededs

LEMMA ChooseKeepsOrder ==
  ASSUME TypeOK, BiggestFirst, ChooseTask
  PROVE  BiggestFirst'
<1>1. PICK k \in DOMAIN waiting : waiting' = RemoveAt(waiting, k)
  BY DEF ChooseTask
<1>2. Len(waiting) \in Nat /\ k \in 1..Len(waiting)
  BY DEF TypeOK
<1>3. /\ DOMAIN waiting' = 1..(Len(waiting) - 1)
      /\ \A n \in 1..(Len(waiting) - 1) :
           waiting'[n] = IF n < k THEN waiting[n] ELSE waiting[n + 1]
  BY <1>1, <1>2, RemoveAtIs
<1>4. \A i, j \in 1..Len(waiting) : i < j => Neededs(waiting[i]) >= Neededs(waiting[j])
  BY DEF TypeOK, BiggestFirst
<1>5. ASSUME NEW i \in 1..(Len(waiting) - 1), NEW j \in 1..(Len(waiting) - 1), i < j
      PROVE  Neededs(waiting'[i]) >= Neededs(waiting'[j])
  <2> DEFINE was(n) == IF n < k THEN n ELSE n + 1
  <2>1. /\ was(i) \in 1..Len(waiting) /\ was(j) \in 1..Len(waiting) /\ was(i) < was(j)
        /\ waiting'[i] = waiting[was(i)] /\ waiting'[j] = waiting[was(j)]
    BY <1>2, <1>3, <1>5
  <2> HIDE DEF was
  <2> QED BY <1>4, <2>1
<1> QED BY <1>3, <1>5 DEF BiggestFirst, Neededs

(* addTask puts a task behind those that need at least as many cores, and  *)
(* whatever chooseTask takes out the biggest task stays in front.          *)
THEOREM QueueIsSorted == Spec => []BiggestFirst
<1>1. Init => BiggestFirst
  BY DEF Init, BiggestFirst
<1>2. AlgoInv /\ BiggestFirst /\ [Next]_algoVars => BiggestFirst'
  <2> SUFFICES ASSUME AlgoInv, BiggestFirst, [Next]_algoVars PROVE BiggestFirst'
    OBVIOUS
  <2>1. TypeOK
    BY DEF AlgoInv
  <2>2. CASE \E t \in Tasks : AddTask(t)
    BY <2>1, <2>2, AddKeepsOrder
  <2>3. CASE ChooseTask
    BY <2>1, <2>3, ChooseKeepsOrder
  <2>4. CASE waiting' = waiting
    BY <2>4 DEF BiggestFirst, Neededs
  <2> QED BY <2>2, <2>3, <2>4 DEF Next, AddResource, FreezeResources, Liberate, algoVars
<1> QED BY <1>1, <1>2, AlgoCorrect, PTL DEF Spec

-----------------------------------------------------------------------------
(* Sums over finite sets: MapThenSumSet, for weights that are a function.  *)

Pick(s) == CHOOSE x \in s : TRUE

IsSum(h, S, w) ==
  h = [s \in SUBSET S |-> IF s = {} THEN 0 ELSE w[Pick(s)] + h[s \ {Pick(s)}]]

Total(w, S) == (CHOOSE h : IsSum(h, S, w))[S]

(* Induction over the subsets of a finite set, as a least counterexample.  *)
LEMMA LeastSubset ==
  ASSUME NEW S, IsFiniteSet(S), NEW D \in SUBSET (SUBSET S), D # {}
  PROVE  \E t \in D : \A u \in D : u \subseteq t => u = t
<1> DEFINE R == StrictSubsetOrdering(S)
<1>1. D \subseteq FiniteSubsetsOf(S)
  BY FS_Subset DEF FiniteSubsetsOf
<1>2. IsWellFoundedOn(R, FiniteSubsetsOf(S))
  BY FS_StrictSubsetOrderingWellFounded
<1>3. PICK t \in D : \A u \in D : <<u, t>> \notin R
  <2> HIDE DEF R
  <2> QED BY <1>1, <1>2, WFMin
<1>4. \A u \in D : u \subseteq t /\ u # t => <<u, t>> \in R
  BY DEF StrictSubsetOrdering
<1> HIDE DEF R
<1>5. \A u \in D : u \subseteq t => u = t
  BY <1>3, <1>4
<1> QED BY <1>5

LEMMA SumIsUnique ==
  ASSUME NEW S, NEW T, NEW w, NEW h, NEW k, IsSum(h, S, w), IsSum(k, T, w),
         NEW s, s \subseteq S, s \subseteq T, IsFiniteSet(s)
  PROVE  h[s] = k[s]
<1> SUFFICES ASSUME h[s] # k[s] PROVE FALSE
  OBVIOUS
<1> DEFINE D == {t \in SUBSET s : h[t] # k[t]}
<1>1. PICK t \in D : \A u \in D : u \subseteq t => u = t
  <2>1. D \in SUBSET (SUBSET s) /\ D # {}
    OBVIOUS
  <2> HIDE DEF D
  <2> QED BY <2>1, LeastSubset
<1>2. /\ h[t] = IF t = {} THEN 0 ELSE w[Pick(t)] + h[t \ {Pick(t)}]
      /\ k[t] = IF t = {} THEN 0 ELSE w[Pick(t)] + k[t \ {Pick(t)}]
  BY DEF IsSum
<1>3. t # {} /\ Pick(t) \in t
  BY <1>2 DEF Pick
<1>4. t \ {Pick(t)} \notin D
  BY <1>1, <1>3
<1> QED BY <1>2, <1>3, <1>4

LEMMA SumExists ==
  ASSUME NEW S, IsFiniteSet(S), NEW w
  PROVE  \E h : IsSum(h, S, w)
<1> SUFFICES ASSUME ~\E h : IsSum(h, S, w) PROVE FALSE
  OBVIOUS
<1> DEFINE D == {t \in SUBSET S : ~\E h : IsSum(h, t, w)}
<1>1. PICK T \in D : \A u \in D : u \subseteq T => u = T
  <2>1. D \in SUBSET (SUBSET S) /\ D # {}
    OBVIOUS
  <2> HIDE DEF D
  <2> QED BY <2>1, LeastSubset
<1> DEFINE G(t) == CHOOSE h : IsSum(h, t, w)
<1>2. \A t \in SUBSET T : t # T => IsSum(G(t), t, w)
  <2> SUFFICES ASSUME NEW t \in SUBSET T, t # T PROVE \E h : IsSum(h, t, w)
    OBVIOUS
  <2> QED BY <1>1
<1>3. \A t \in SUBSET T : IsFiniteSet(t)
  BY FS_Subset
<1> HIDE DEF G, D
<1>4. \A t, u \in SUBSET T : t # T /\ u \subseteq t => G(t)[u] = G(u)[u]
  <2> SUFFICES ASSUME NEW t \in SUBSET T, NEW u \in SUBSET T, t # T, u \subseteq t
               PROVE  G(t)[u] = G(u)[u]
    OBVIOUS
  <2>1. IsSum(G(t), t, w) /\ IsSum(G(u), u, w) /\ IsFiniteSet(u)
    BY <1>2, <1>3
  <2> QED BY <2>1, SumIsUnique
<1>5. \A t \in SUBSET T : t # T => G(t)[t] = IF t = {} THEN 0
                                             ELSE w[Pick(t)] + G(t)[t \ {Pick(t)}]
  BY <1>2 DEF IsSum
<1>6. CASE T = {}
  <2>1. IsSum([t \in SUBSET {} |-> 0], {}, w)
    BY DEF IsSum
  <2> QED BY <1>1, <1>6, <2>1 DEF D
<1>7. CASE T # {}
  <2> DEFINE p == Pick(T)
             h == [t \in SUBSET T |-> IF t = T THEN w[p] + G(T \ {p})[T \ {p}] ELSE G(t)[t]]
  <2>1. p \in T
    BY <1>7 DEF Pick
  <2>2. T \ {p} # T /\ h[T \ {p}] = G(T \ {p})[T \ {p}]
    BY <2>1
  <2>3. ASSUME NEW t \in SUBSET T, t # T, t # {}
        PROVE  G(t)[t] = w[Pick(t)] + h[t \ {Pick(t)}]
    <3>1. Pick(t) \in t /\ t \ {Pick(t)} # T /\ t \ {Pick(t)} \in SUBSET T
      BY <2>3 DEF Pick
    <3>2. G(t)[t] = w[Pick(t)] + G(t)[t \ {Pick(t)}]
      BY <1>5, <2>3
    <3>3. G(t)[t \ {Pick(t)}] = G(t \ {Pick(t)})[t \ {Pick(t)}]
      BY <1>4, <2>3, <3>1
    <3>4. h[t \ {Pick(t)}] = G(t \ {Pick(t)})[t \ {Pick(t)}]
      BY <3>1
    <3> QED BY <3>2, <3>3, <3>4
  <2>4. \A t \in SUBSET T :
          h[t] = IF t = {} THEN 0 ELSE w[Pick(t)] + h[t \ {Pick(t)}]
    <3> SUFFICES ASSUME NEW t \in SUBSET T
                 PROVE  h[t] = IF t = {} THEN 0 ELSE w[Pick(t)] + h[t \ {Pick(t)}]
      OBVIOUS
    <3>1. CASE t = T
      <4>1. h[t] = w[p] + G(T \ {p})[T \ {p}]
        BY <3>1
      <4> QED BY <1>7, <2>2, <3>1, <4>1
    <3>2. CASE t # T
      <4>1. h[t] = G(t)[t]
        BY <3>2
      <4> QED BY <1>5, <2>3, <3>2, <4>1
    <3> QED BY <3>1, <3>2
  <2>5. h = [t \in SUBSET T |-> h[t]]
    OBVIOUS
  <2> HIDE DEF h
  <2>6. IsSum(h, T, w)
    BY <2>4, <2>5 DEF IsSum
  <2> QED BY <1>1, <2>6 DEF D
<1> QED BY <1>6, <1>7

LEMMA TotalIs ==
  ASSUME NEW S, IsFiniteSet(S), NEW w
  PROVE  /\ S = {} => Total(w, S) = 0
         /\ S # {} => Total(w, S) = w[Pick(S)] + Total(w, S \ {Pick(S)})
<1> DEFINE G(t) == CHOOSE h : IsSum(h, t, w)
           r == S \ {Pick(S)}
<1>1. IsFiniteSet(r)
  BY FS_Subset
<1>2. IsSum(G(S), S, w) /\ IsSum(G(r), r, w)
  BY <1>1, SumExists
<1>3. Total(w, S) = G(S)[S] /\ Total(w, r) = G(r)[r]
  BY DEF Total
<1> HIDE DEF G
<1>4. G(S)[r] = G(r)[r]
  BY <1>1, <1>2, SumIsUnique
<1>5. G(S)[S] = IF S = {} THEN 0 ELSE w[Pick(S)] + G(S)[r]
  BY <1>2 DEF IsSum
<1> QED BY <1>3, <1>4, <1>5

LEMMA TotalType ==
  ASSUME NEW U, NEW w \in [U -> Nat], NEW S \in SUBSET U, IsFiniteSet(S)
  PROVE  Total(w, S) \in Nat
<1> SUFFICES ASSUME Total(w, S) \notin Nat PROVE FALSE
  OBVIOUS
<1> DEFINE D == {t \in SUBSET S : Total(w, t) \notin Nat}
<1>1. PICK t \in D : \A u \in D : u \subseteq t => u = t
  <2>1. D \in SUBSET (SUBSET S) /\ D # {}
    OBVIOUS
  <2> HIDE DEF D
  <2> QED BY <2>1, LeastSubset
<1>2. IsFiniteSet(t)
  BY FS_Subset
<1>3. /\ t = {} => Total(w, t) = 0
      /\ t # {} => Total(w, t) = w[Pick(t)] + Total(w, t \ {Pick(t)})
  BY <1>2, TotalIs
<1>4. t # {} => Pick(t) \in t
  BY DEF Pick
<1>5. t # {} => Total(w, t \ {Pick(t)}) \in Nat /\ w[Pick(t)] \in Nat
  BY <1>1, <1>4
<1> QED BY <1>1, <1>3, <1>5

(* The order of the elements does not matter.                              *)
LEMMA TotalWithout ==
  ASSUME NEW U, NEW w \in [U -> Nat], NEW S \in SUBSET U, IsFiniteSet(S), NEW x \in S
  PROVE  Total(w, S) = w[x] + Total(w, S \ {x})
<1> SUFFICES ASSUME Total(w, S) # w[x] + Total(w, S \ {x}) PROVE FALSE
  OBVIOUS
<1> DEFINE D == {t \in SUBSET S : \E y \in t : Total(w, t) # w[y] + Total(w, t \ {y})}
<1>1. PICK t \in D : \A u \in D : u \subseteq t => u = t
  <2>1. D \in SUBSET (SUBSET S) /\ D # {}
    OBVIOUS
  <2> HIDE DEF D
  <2> QED BY <2>1, LeastSubset
<1>2. PICK y \in t : Total(w, t) # w[y] + Total(w, t \ {y})
  OBVIOUS
<1> DEFINE p == Pick(t)
           rest == (t \ {p}) \ {y}
<1>3. p \in t
  BY DEF Pick
<1>4. /\ IsFiniteSet(t) /\ IsFiniteSet(t \ {y}) /\ IsFiniteSet(rest)
      /\ rest \subseteq U
  BY FS_Subset
<1>5. Total(w, t) = w[p] + Total(w, t \ {p})
  BY <1>3, <1>4, TotalIs
<1>6. p # y
  BY <1>2, <1>5
<1>7. t \ {p} \notin D /\ t \ {y} \notin D
  BY <1>1, <1>3
<1>8. Total(w, t \ {p}) = w[y] + Total(w, rest)
  BY <1>6, <1>7
<1>9. Total(w, t \ {y}) = w[p] + Total(w, rest)
  <2>1. (t \ {y}) \ {p} = rest
    OBVIOUS
  <2> QED BY <1>3, <1>6, <1>7, <2>1
<1>10. w[y] \in Nat /\ w[p] \in Nat /\ Total(w, rest) \in Nat
  BY <1>3, <1>4, TotalType
<1> QED BY <1>2, <1>5, <1>8, <1>9, <1>10

LEMMA TotalOfSubset ==
  ASSUME NEW U, NEW w \in [U -> Nat], NEW S \in SUBSET U, IsFiniteSet(S), NEW T \in SUBSET S
  PROVE  Total(w, T) <= Total(w, S)
<1> SUFFICES ASSUME ~(Total(w, T) <= Total(w, S)) PROVE FALSE
  OBVIOUS
<1> DEFINE D == {t \in SUBSET S : T \subseteq t /\ ~(Total(w, T) <= Total(w, t))}
<1>1. PICK t \in D : \A u \in D : u \subseteq t => u = t
  <2>1. D \in SUBSET (SUBSET S) /\ D # {}
    OBVIOUS
  <2> HIDE DEF D
  <2> QED BY <2>1, LeastSubset
<1>2. Total(w, T) \in Nat
  BY FS_Subset, TotalType
<1>3. PICK y \in t : y \notin T
  BY <1>2
<1>4. t \ {y} \notin D /\ T \subseteq t \ {y}
  BY <1>1, <1>3
<1>5. IsFiniteSet(t) /\ IsFiniteSet(t \ {y})
  BY FS_Subset
<1>6. Total(w, t) = w[y] + Total(w, t \ {y})
  BY <1>5, TotalWithout
<1>7. w[y] \in Nat /\ Total(w, t \ {y}) \in Nat
  BY <1>5, TotalType
<1> QED BY <1>1, <1>2, <1>4, <1>6, <1>7

LEMMA TotalOfEqual ==
  ASSUME NEW U, NEW w \in [U -> Nat], NEW S \in SUBSET U, IsFiniteSet(S),
         NEW c \in Nat, \A x \in S : w[x] = c
  PROVE  Total(w, S) = Cardinality(S) * c
<1> SUFFICES ASSUME Total(w, S) # Cardinality(S) * c PROVE FALSE
  OBVIOUS
<1> DEFINE D == {t \in SUBSET S : Total(w, t) # Cardinality(t) * c}
<1>1. PICK t \in D : \A u \in D : u \subseteq t => u = t
  <2>1. D \in SUBSET (SUBSET S) /\ D # {}
    OBVIOUS
  <2> HIDE DEF D
  <2> QED BY <2>1, LeastSubset
<1>2. IsFiniteSet(t)
  BY FS_Subset
<1>3. t # {}
  <2>1. Total(w, {}) = 0 /\ Cardinality({}) = 0
    BY TotalIs, FS_EmptySet
  <2>2. Total(w, {}) = Cardinality({}) * c
    BY <2>1
  <2> QED BY <1>1, <2>2
<1>4. PICK y \in t : TRUE
  BY <1>3
<1>5. t \ {y} \notin D
  BY <1>1
<1>6. Total(w, t) = c + Total(w, t \ {y})
  BY <1>2, TotalWithout
<1>7. Cardinality(t \ {y}) = Cardinality(t) - 1 /\ Cardinality(t) \in Nat
  BY <1>2, FS_RemoveElement, FS_CardinalityType
<1>8. \A n \in Nat : c + (n - 1) * c = n * c
  OBVIOUS
<1> QED BY <1>1, <1>5, <1>6, <1>7, <1>8

(* The cores of what is handed out, as weights.                            *)
Weights == [g \in LaunchInfo |-> Neededs(g.task)]

LEMMA SumOfWeights ==
  ASSUME NEW S \in SUBSET LaunchInfo, IsFiniteSet(S)
  PROVE  MapThenSumSet(LAMBDA g : Neededs(g.task), S) = Total(Weights, S)
<1> DEFINE body(h) == [s \in SUBSET S |-> IF s = {} THEN 0
                         ELSE Neededs(Pick(s).task) + h[s \ {Pick(s)}]]
           k == CHOOSE h : h = body(h)
<1>1. MapThenSumSet(LAMBDA g : Neededs(g.task), S) = k[S]
  BY DEF MapThenSumSet, MapThenFoldSet, Pick
<1>2. \A s \in SUBSET S : s # {} => Weights[Pick(s)] = Neededs(Pick(s).task)
  BY DEF Weights, Pick
<1>3. \A h : IsSum(h, S, Weights) <=> h = body(h)
  <2> SUFFICES ASSUME NEW h
               PROVE  body(h) = [s \in SUBSET S |-> IF s = {} THEN 0
                                   ELSE Weights[Pick(s)] + h[s \ {Pick(s)}]]
    BY DEF IsSum
  <2> QED BY <1>2
<1>4. k = body(k)
  <2>1. PICK h : IsSum(h, S, Weights)
    BY SumExists
  <2>2. h = body(h)
    BY <1>3, <2>1
  <2> HIDE DEF body
  <2> QED BY <2>2
<1> HIDE DEF k
<1>5. IsSum(k, S, Weights)
  BY <1>3, <1>4
<1>6. IsSum(CHOOSE h : IsSum(h, S, Weights), S, Weights)
  BY <1>5
<1>7. k[S] = (CHOOSE h : IsSum(h, S, Weights))[S]
  BY <1>5, <1>6, SumIsUnique
<1> QED BY <1>1, <1>7 DEF Total

-----------------------------------------------------------------------------
(* What is placed fits.                                                    *)

(* Why the resources are never exceeded: the load of a resource is the sum *)
(* of what it runs.  Why the indices stay low: those below the first free  *)
(* one are in use, each of them by a task with as many cores.              *)
Accounts ==
  /\ IsFiniteSet(granted)
  /\ \A r \in Resources : load[r] = Total(Weights, PlacedOn(r)) /\ load[r] <= NbCores[r]
  /\ \A r \in Resources, c \in Types :
       /\ \A k \in Nat : k < firstFree[r][c] => k \in busy[r][c]
       /\ \A k \in busy[r][c] : \E g \in PlacedOn(r) : TypeOf[g.task] = c /\ g.index = k
  /\ IndexWithinCapacity

LEMMA WeightsType == Weights \in [LaunchInfo -> Nat]
<1>1. \A g \in LaunchInfo : g.task \in Tasks
  BY DEF LaunchInfo
<1>2. \A t \in Tasks : Neededs(t) \in Nat
  BY PlacementAssumption DEF Neededs
<1> QED BY <1>1, <1>2 DEF Weights

LEMMA PlacedOnIs ==
  ASSUME TypeOK, IsFiniteSet(granted), NEW r
  PROVE  PlacedOn(r) \subseteq LaunchInfo /\ IsFiniteSet(PlacedOn(r))
<1>1. PlacedOn(r) \subseteq granted
  BY DEF PlacedOn
<1> QED BY <1>1, FS_Subset DEF TypeOK

LEMMA AccountsInit == Init => Accounts
<1> SUFFICES ASSUME Init PROVE Accounts
  OBVIOUS
<1>1. IsFiniteSet({}) /\ Total(Weights, {}) = 0
  BY FS_EmptySet, TotalIs
<1>2. \A r : PlacedOn(r) = {}
  BY DEF Init, PlacedOn
<1>3. \A r \in Resources : load[r] = 0 /\ NbCores[r] \in Nat
  BY PlacementAssumption DEF Init
<1>4. \A r \in Resources, c \in Types : busy[r][c] = {} /\ firstFree[r][c] = 0
  BY DEF Init
<1>5. \A r \in Resources : load[r] = Total(Weights, PlacedOn(r)) /\ load[r] <= NbCores[r]
  BY <1>1, <1>2, <1>3
<1>6. \A r \in Resources, c \in Types :
        /\ \A k \in Nat : k < firstFree[r][c] => k \in busy[r][c]
        /\ \A k \in busy[r][c] : \E g \in PlacedOn(r) : TypeOf[g.task] = c /\ g.index = k
  BY <1>4
<1>7. granted = {}
  BY DEF Init
<1> QED BY <1>1, <1>5, <1>6, <1>7 DEF Accounts, IndexWithinCapacity

(* As many tasks of the type c run on r as there are indices in front of   *)
(* the first free one, so that one more fits with them.                    *)
LEMMA IndexFits ==
  ASSUME AlgoInv, Accounts, NEW r \in Resources, NEW c \in Types,
         load[r] + Cores[c] <= NbCores[r]
  PROVE  (firstFree[r][c] + 1) * Cores[c] <= NbCores[r]
<1> DEFINE H == {g \in PlacedOn(r) : TypeOf[g.task] = c}
           n == firstFree[r][c]
           f == [k \in 0..(n - 1) |-> CHOOSE g \in H : g.index = k]
<1>1. /\ n \in Nat /\ Cores[c] \in Nat /\ NbCores[r] \in Nat
      /\ PlacedOn(r) \subseteq LaunchInfo /\ IsFiniteSet(PlacedOn(r))
      /\ IsFiniteSet(granted) /\ PlacedOn(r) \subseteq granted
  <2>1. n \in Nat /\ Cores[c] \in Nat /\ NbCores[r] \in Nat
    BY PlacementAssumption DEF AlgoInv, TypeOK
  <2>2. IsFiniteSet(granted)
    BY DEF Accounts
  <2>3. PlacedOn(r) \subseteq LaunchInfo /\ IsFiniteSet(PlacedOn(r))
    BY <2>2, PlacedOnIs DEF AlgoInv
  <2>4. PlacedOn(r) \subseteq granted
    BY DEF PlacedOn
  <2> QED BY <2>1, <2>2, <2>3, <2>4
<1>2. H \subseteq PlacedOn(r) /\ H \subseteq granted
  BY <1>1
<1>3. \A k \in 0..(n - 1) : \E g \in H : g.index = k
  BY <1>1 DEF Accounts
<1>4. \A k \in 0..(n - 1) : f[k] \in H /\ f[k].index = k
  BY <1>3
<1>5. \A g \in H : Weights[g] = Cores[c]
  BY <1>1 DEF Weights, Neededs
<1> HIDE DEF H
<1>6. IsFiniteSet(H) /\ H \subseteq LaunchInfo
  BY <1>1, <1>2, FS_Subset
<1>7. n <= Cardinality(H) /\ Cardinality(H) \in Nat
  <2>1. IsFiniteSet(0..(n - 1)) /\ Cardinality(0..(n - 1)) = n
    <3> HIDE DEF n
    <3>1. 0 \in Int /\ n - 1 \in Int /\ (n - 1) - 0 + 1 = n /\ (0 > n - 1 <=> n = 0)
      BY <1>1
    <3> QED BY <1>1, <3>1, FS_Interval
  <2>2. f \in Injection(0..(n - 1), H)
    BY <1>4 DEF Injection, IsInjective
  <2> HIDE DEF f
  <2>3. Cardinality(0..(n - 1)) <= Cardinality(H)
    BY <1>6, <2>2, FS_Injection
  <2> QED BY <1>6, <2>1, <2>3, FS_CardinalityType
<1>8. Total(Weights, H) = Cardinality(H) * Cores[c]
  BY <1>1, <1>5, <1>6, WeightsType, TotalOfEqual
<1>9. Total(Weights, H) <= load[r] /\ load[r] \in Int
  <2>1. Total(Weights, H) <= Total(Weights, PlacedOn(r))
    BY <1>1, <1>2, WeightsType, TotalOfSubset
  <2>2. load[r] = Total(Weights, PlacedOn(r))
    BY DEF Accounts
  <2>3. load[r] \in Int
    BY DEF AlgoInv, TypeOK
  <2> QED BY <2>1, <2>2, <2>3
<1> HIDE DEF n
<1>10. n * Cores[c] <= Cardinality(H) * Cores[c]
  <2>1. \A x, y, z \in Nat : x <= y => x * z <= y * z
    OBVIOUS
  <2> QED BY <1>1, <1>7, <2>1
<1>11. (n + 1) * Cores[c] = n * Cores[c] + Cores[c]
  BY <1>1
<1>12. n * Cores[c] \in Int /\ Cardinality(H) * Cores[c] \in Int
  BY <1>1, <1>7
<1>13. (n + 1) * Cores[c] <= NbCores[r]
  BY <1>1, <1>8, <1>9, <1>10, <1>11, <1>12
<1> QED BY <1>13 DEF n

LEMMA SameAccounts ==
  ASSUME Accounts, UNCHANGED <<load, busy, firstFree, granted>>
  PROVE  Accounts'
BY DEF Accounts, PlacedOn, IndexWithinCapacity, Neededs

(* The step of ChooseTask for the task it takes.                           *)
Chosen(t) ==
  LET c == TypeOf[t]
  IN  \/ \E kind \in {"unplaced", "error"} :
           Grant(t, kind, NoResource, 0) /\ UNCHANGED <<load, loadCost, busy, firstFree>>
      \/ /\ c \notin Ignoring /\ Candidates(t) # {}
         /\ Grant(t, "placed", Best(t), firstFree[Best(t)][c])
         /\ Alloc(c, Best(t))

LEMMA ChosenKeepsAccounts ==
  ASSUME AlgoInv, Accounts, NEW t \in Tasks, Chosen(t)
  PROVE  Accounts'
<1> DEFINE c == TypeOf[t]
<1>1. c \in Types
  BY PlacementAssumption
<1>2. ASSUME NEW kind \in {"unplaced", "error"}, Grant(t, kind, NoResource, 0),
             UNCHANGED <<load, loadCost, busy, firstFree>>
      PROVE  Accounts'
  <2> DEFINE g == [task |-> t, kind |-> kind, resource |-> NoResource, index |-> 0]
  <2>1. granted' = granted \union {g} /\ g.kind # "placed"
    BY <1>2 DEF Grant
  <2> HIDE DEF g
  <2>2. \A r : PlacedOn(r)' = PlacedOn(r)
    BY <2>1 DEF PlacedOn
  <2>3. IsFiniteSet(granted')
    BY <2>1, FS_AddElement DEF Accounts
  <2>4. IndexWithinCapacity'
    BY <2>1 DEF Accounts, IndexWithinCapacity, Neededs
  <2> QED BY <1>2, <2>2, <2>3, <2>4 DEF Accounts
<1>3. CASE /\ c \notin Ignoring /\ Candidates(t) # {}
           /\ Grant(t, "placed", Best(t), firstFree[Best(t)][c])
           /\ Alloc(c, Best(t))
  <2>1. PICK r \in Resources : r = Best(t) /\ Neededs(t) + load[r] <= NbCores[r]
    BY <1>3, BestExists DEF AlgoInv, IsAllocPossible
  <2>0. PICK index \in Nat : index = firstFree[r][c]
    BY <1>1, <2>1 DEF AlgoInv, TypeOK
  <2> DEFINE running == busy[r][c] \union {index}
             next == NextFree(running, index)
             g == [task |-> t, kind |-> "placed", resource |-> r, index |-> index]
  <2>2. /\ granted' = granted \union {g}
        /\ load' = [load EXCEPT ![r] = @ + Cores[c]]
        /\ busy' = [busy EXCEPT ![r][c] = running]
        /\ firstFree' = [firstFree EXCEPT ![r][c] = next]
    BY <1>3, <2>1, <2>0 DEF Grant, Alloc
  <2>3. /\ index \in Nat /\ index \notin busy[r][c]
        /\ running \in SUBSET Nat /\ IsFiniteSet(running)
        /\ load[r] \in Int /\ Cores[c] \in Nat /\ NbCores[r] \in Nat
    <3>1. index \notin busy[r][c] /\ IsFiniteSet(busy[r][c])
      BY <1>1, <2>1, <2>0 DEF AlgoInv, IndicesInUse
    <3>2. busy[r][c] \in SUBSET Nat /\ load[r] \in Int
      BY <1>1, <2>1 DEF AlgoInv, TypeOK
    <3>3. Cores[c] \in Nat /\ NbCores[r] \in Nat
      BY <1>1, <2>1, PlacementAssumption
    <3>4. IsFiniteSet(running)
      BY <3>1, FS_AddElement
    <3> QED BY <2>0, <3>1, <3>2, <3>3, <3>4
  <2> HIDE DEF running
  <2>4. next > index /\ next \in Nat /\ \A k \in (index + 1)..(next - 1) : k \in running
    BY <2>3, NextFreeExists
  <2>5. /\ g \in LaunchInfo /\ g.kind = "placed" /\ g.resource = r /\ g.task = t
        /\ g.index = index /\ Weights[g] = Cores[c]
    BY <2>1, <2>3 DEF LaunchInfo, Weights, Neededs
  <2>6. g \notin granted
    BY <2>3 DEF AlgoInv, IndicesInUse
  <2>7. load[r] + Cores[c] <= NbCores[r]
    BY <2>1, <2>3 DEF Neededs
  <2> HIDE DEF next, g
  <2>8. /\ \A q : q # r => PlacedOn(q)' = PlacedOn(q)
        /\ PlacedOn(r)' = PlacedOn(r) \union {g}
    BY <2>2, <2>5 DEF PlacedOn
  <2>9. IsFiniteSet(granted')
    BY <2>2, FS_AddElement DEF Accounts
  <2>10. Total(Weights, PlacedOn(r)') = Cores[c] + Total(Weights, PlacedOn(r))
    <3>1. PlacedOn(r) \subseteq LaunchInfo /\ IsFiniteSet(PlacedOn(r)) /\ g \notin PlacedOn(r)
      BY <2>6, PlacedOnIs DEF AlgoInv, Accounts, PlacedOn
    <3>2. /\ PlacedOn(r)' \in SUBSET LaunchInfo /\ IsFiniteSet(PlacedOn(r)')
          /\ g \in PlacedOn(r)' /\ PlacedOn(r)' \ {g} = PlacedOn(r)
      BY <2>5, <2>8, <3>1, FS_AddElement
    <3> QED BY <2>5, <3>2, WeightsType, TotalWithout
  <2>11. ASSUME NEW q \in Resources
         PROVE  load'[q] = Total(Weights, PlacedOn(q)') /\ load'[q] <= NbCores[q]
    <3>1. CASE q = r
      <4>1. load'[q] = load[r] + Cores[c] /\ load[r] = Total(Weights, PlacedOn(r))
        BY <2>1, <2>2, <3>1 DEF AlgoInv, TypeOK, Accounts
      <4> QED BY <2>3, <2>7, <2>10, <3>1, <4>1
    <3>2. CASE q # r
      BY <2>2, <2>8, <3>2 DEF AlgoInv, TypeOK, Accounts
    <3> QED BY <3>1, <3>2
  <2>12. ASSUME NEW q \in Resources, NEW d \in Types
         PROVE  /\ \A k \in Nat : k < firstFree'[q][d] => k \in busy'[q][d]
                /\ \A k \in busy'[q][d] :
                     \E h \in PlacedOn(q)' : TypeOf[h.task] = d /\ h.index = k
    <3>1. CASE q = r /\ d = c
      <4>1. firstFree'[q][d] = next /\ busy'[q][d] = running
        BY <1>1, <2>1, <2>2, <3>1 DEF AlgoInv, TypeOK
      <4>2. ASSUME NEW k \in Nat, k < next PROVE k \in running
        <5>1. CASE k < index
          BY <1>1, <2>1, <2>0, <5>1 DEF Accounts, running
        <5>2. CASE k = index
          BY <5>2 DEF running
        <5>3. CASE k > index
          BY <2>3, <2>4, <4>2, <5>3
        <5> QED BY <2>3, <5>1, <5>2, <5>3
      <4>3. ASSUME NEW k \in running
            PROVE  \E h \in PlacedOn(q)' : TypeOf[h.task] = d /\ h.index = k
        <5>1. CASE k \in busy[r][c]
          BY <1>1, <2>1, <2>8, <3>1, <5>1 DEF Accounts
        <5>2. CASE k = index
          BY <2>5, <2>8, <3>1, <5>2
        <5> QED BY <5>1, <5>2 DEF running
      <4> QED BY <4>1, <4>2, <4>3
    <3>2. CASE ~(q = r /\ d = c)
      <4>1. firstFree'[q][d] = firstFree[q][d] /\ busy'[q][d] = busy[q][d]
        BY <2>2, <3>2 DEF AlgoInv, TypeOK
      <4>2. PlacedOn(q) \subseteq PlacedOn(q)'
        BY <2>8
      <4> QED BY <4>1, <4>2 DEF Accounts
    <3> QED BY <3>1, <3>2
  <2>13. IndexWithinCapacity'
    <3>1. (index + 1) * Cores[c] <= NbCores[r]
      BY <1>1, <2>1, <2>0, <2>7, IndexFits
    <3> QED BY <2>2, <2>5, <3>1 DEF Accounts, IndexWithinCapacity, Neededs
  <2> QED BY <2>9, <2>11, <2>12, <2>13 DEF Accounts
<1> QED BY <1>2, <1>3 DEF Chosen

LEMMA ChooseIsChosen ==
  ASSUME ChooseTask, TypeOK
  PROVE  \E i \in DOMAIN waiting : waiting[i] \in Tasks /\ Chosen(waiting[i])
<1>1. \A i \in DOMAIN waiting : waiting[i] \in Tasks
  BY DEF TypeOK
<1> QED BY <1>1 DEF ChooseTask, Chosen

LEMMA LiberateKeepsAccounts ==
  ASSUME AlgoInv, Accounts, NEW info \in granted, Liberate(info)
  PROVE  Accounts'
<1>1. granted' = granted \ {info} /\ info \in LaunchInfo
  BY DEF Liberate, AlgoInv, TypeOK
<1>2. IsFiniteSet(granted') /\ IndexWithinCapacity'
  BY <1>1, FS_RemoveElement DEF Accounts, IndexWithinCapacity, Neededs
<1>3. CASE info.kind # "placed"
  <2>1. \A r : PlacedOn(r)' = PlacedOn(r)
    BY <1>1, <1>3 DEF PlacedOn
  <2>2. UNCHANGED <<load, busy, firstFree>>
    BY <1>3 DEF Liberate
  <2> QED BY <1>2, <2>1, <2>2 DEF Accounts
<1>4. CASE info.kind = "placed"
  <2> DEFINE r == info.resource
             c == TypeOf[info.task]
             index == info.index
             first == IF index < firstFree[r][c] THEN index ELSE firstFree[r][c]
  <2>1. r \in Resources /\ index \in Nat /\ c \in Types
    BY <1>1, <1>4, PlacementAssumption DEF LaunchInfo
  <2>2. /\ load' = [load EXCEPT ![r] = @ - Cores[c]]
        /\ busy' = [busy EXCEPT ![r][c] = busy[r][c] \ {index}]
        /\ firstFree' = [firstFree EXCEPT ![r][c] = first]
    BY <1>4 DEF Liberate, Free
  <2>3. /\ load[r] \in Int /\ Cores[c] \in Nat /\ NbCores[r] \in Nat
        /\ firstFree[r][c] \in Nat
    BY <2>1, PlacementAssumption DEF AlgoInv, TypeOK
  <2>4. first \in Nat /\ first <= index /\ first <= firstFree[r][c]
    BY <2>1, <2>3
  <2>5. Weights[info] = Cores[c]
    BY <1>1 DEF Weights, Neededs
  <2>6. \A g \in PlacedOn(r) : g.kind = "placed"
    BY DEF PlacedOn
  <2> HIDE DEF first
  <2>7. /\ \A q : q # r => PlacedOn(q)' = PlacedOn(q)
        /\ PlacedOn(r)' = PlacedOn(r) \ {info} /\ info \in PlacedOn(r)
    BY <1>1, <1>4 DEF PlacedOn
  <2> HIDE DEF r, c, index
  <2>8. Total(Weights, PlacedOn(r)) = Cores[c] + Total(Weights, PlacedOn(r)')
    <3>1. PlacedOn(r) \in SUBSET LaunchInfo /\ IsFiniteSet(PlacedOn(r))
      BY PlacedOnIs DEF AlgoInv, Accounts
    <3> QED BY <2>5, <2>7, <3>1, WeightsType, TotalWithout
  <2>9. Total(Weights, PlacedOn(r)') \in Nat
    <3>1. PlacedOn(r)' \in SUBSET LaunchInfo /\ IsFiniteSet(PlacedOn(r)')
      BY <2>7, PlacedOnIs, FS_Subset DEF AlgoInv, Accounts
    <3> QED BY <3>1, WeightsType, TotalType
  <2>10. ASSUME NEW q \in Resources
         PROVE  load'[q] = Total(Weights, PlacedOn(q)') /\ load'[q] <= NbCores[q]
    <3>1. CASE q = r
      <4>1. /\ load'[q] = load[r] - Cores[c] /\ load[r] = Total(Weights, PlacedOn(r))
            /\ load[r] <= NbCores[r]
        BY <2>1, <2>2, <3>1 DEF AlgoInv, TypeOK, Accounts
      <4> QED BY <2>3, <2>8, <2>9, <3>1, <4>1
    <3>2. CASE q # r
      BY <2>2, <2>7, <3>2 DEF AlgoInv, TypeOK, Accounts
    <3> QED BY <3>1, <3>2
  <2>11. ASSUME NEW q \in Resources, NEW d \in Types
         PROVE  /\ \A k \in Nat : k < firstFree'[q][d] => k \in busy'[q][d]
                /\ \A k \in busy'[q][d] :
                     \E h \in PlacedOn(q)' : TypeOf[h.task] = d /\ h.index = k
    <3>1. CASE q = r /\ d = c
      <4>1. firstFree'[q][d] = first /\ busy'[q][d] = busy[r][c] \ {index}
        BY <2>1, <2>2, <3>1 DEF AlgoInv, TypeOK
      <4>2. ASSUME NEW k \in Nat, k < first PROVE k \in busy[r][c] \ {index}
        BY <2>1, <2>3, <2>4, <4>2 DEF Accounts
      <4>3. ASSUME NEW k \in busy[r][c] \ {index}
            PROVE  \E h \in PlacedOn(q)' : TypeOf[h.task] = d /\ h.index = k
        <5>1. PICK h \in PlacedOn(r) : TypeOf[h.task] = c /\ h.index = k
          BY <2>1 DEF Accounts
        <5>2. h # info
          BY <5>1 DEF index
        <5> QED BY <2>7, <3>1, <5>1, <5>2
      <4> QED BY <4>1, <4>2, <4>3
    <3>2. CASE ~(q = r /\ d = c)
      <4>1. firstFree'[q][d] = firstFree[q][d] /\ busy'[q][d] = busy[q][d]
        BY <2>2, <3>2 DEF AlgoInv, TypeOK
      <4>2. ASSUME NEW h \in PlacedOn(q), TypeOf[h.task] = d PROVE h \in PlacedOn(q)'
        BY <2>7, <3>2, <4>2 DEF c
      <4> QED BY <4>1, <4>2 DEF Accounts
    <3> QED BY <3>1, <3>2
  <2> QED BY <1>2, <2>10, <2>11 DEF Accounts
<1> QED BY <1>3, <1>4

(* The accounts are kept by every call, of the algorithm on its own or in  *)
(* the manager.                                                            *)
LEMMA CallKeepsAccounts ==
  ASSUME AlgoInv, Accounts,
         \/ \E t \in Tasks : AddTask(t)
         \/ \E r \in Resources : AddResource(r)
         \/ FreezeResources
         \/ ChooseTask
         \/ \E info \in granted : Liberate(info)
         \/ UNCHANGED algoVars
  PROVE  Accounts'
<1>1. CASE ChooseTask
  BY <1>1, ChooseIsChosen, ChosenKeepsAccounts DEF AlgoInv
<1>2. CASE \E info \in granted : Liberate(info)
  BY <1>2, LiberateKeepsAccounts
<1>3. CASE UNCHANGED <<load, busy, firstFree, granted>>
  BY <1>3, SameAccounts
<1> QED BY <1>1, <1>2, <1>3 DEF AddTask, AddResource, FreezeResources, algoVars

LEMMA AccountsFit ==
  ASSUME TypeOK, Accounts
  PROVE  PlacementFits
<1>1. ASSUME NEW r \in Resources
      PROVE  MapThenSumSet(LAMBDA g : Neededs(g.task), PlacedOn(r)) <= NbCores[r]
  <2>1. PlacedOn(r) \in SUBSET LaunchInfo /\ IsFiniteSet(PlacedOn(r))
    BY PlacedOnIs DEF Accounts
  <2>2. MapThenSumSet(LAMBDA g : Neededs(g.task), PlacedOn(r)) = Total(Weights, PlacedOn(r))
    BY <2>1, SumOfWeights
  <2> QED BY <2>2 DEF Accounts
<1> QED BY <1>1 DEF PlacementFits, CapacityRespected, Accounts

(* What is placed fits: neither the cores of a resource nor the indices of *)
(* its containers run over, whatever is placed and liberated in between.   *)
THEOREM PlacedTasksFit == Spec => []PlacementFits
<1>1. Init => Accounts
  BY AccountsInit
<1>2. AlgoInv /\ Accounts /\ [Next]_algoVars => Accounts'
  BY CallKeepsAccounts DEF Next
<1>3. AlgoInv /\ Accounts => PlacementFits
  BY AccountsFit DEF AlgoInv
<1> QED BY <1>1, <1>2, <1>3, AlgoCorrect, PTL DEF Spec

-----------------------------------------------------------------------------

(* What InsertAt and RemoveAt return, element by element.                  *)
LEMMA InsertAtElements ==
  ASSUME NEW S, NEW w \in Seq(S), NEW i \in 1..(Len(w) + 1), NEW e \in S
  PROVE  /\ InsertAt(w, i, e) \in Seq(S)
         /\ Len(InsertAt(w, i, e)) = Len(w) + 1
         /\ \A k \in 1..(Len(w) + 1) :
              InsertAt(w, i, e)[k] = IF k < i THEN w[k] ELSE IF k = i THEN e ELSE w[k - 1]
<1> DEFINE front == SubSeq(w, 1, i - 1)
           back == SubSeq(w, i, Len(w))
<1>1. Len(w) \in Nat /\ i \in Int /\ \A k \in 1..Len(w) : w[k] \in S
  OBVIOUS
<1>2. /\ front \in Seq(S) /\ Len(front) = i - 1
      /\ \A k \in 1..(i - 1) : front[k] = w[k]
  BY <1>1, SubSeqProperties
<1>3. /\ back \in Seq(S) /\ Len(back) = Len(w) - i + 1
      /\ \A k \in 1..(Len(w) - i + 1) : back[k] = w[i + k - 1]
  BY <1>1, SubSeqProperties
<1> HIDE DEF front, back
<1>4. <<e>> \in Seq(S) /\ Len(<<e>>) = 1 /\ <<e>>[1] = e
  OBVIOUS
<1>5. /\ front \o <<e>> \in Seq(S) /\ Len(front \o <<e>>) = i
      /\ \A k \in 1..i : (front \o <<e>>)[k] = IF k < i THEN w[k] ELSE e
  BY <1>1, <1>2, <1>4, ConcatProperties
<1>6. /\ (front \o <<e>>) \o back \in Seq(S)
      /\ Len((front \o <<e>>) \o back) = Len(w) + 1
      /\ \A k \in 1..(Len(w) + 1) :
           ((front \o <<e>>) \o back)[k] = IF k <= i THEN (front \o <<e>>)[k] ELSE back[k - i]
  BY <1>1, <1>3, <1>5, ConcatProperties
<1>7. \A k \in 1..(Len(w) + 1) : k > i => back[k - i] = w[k - 1]
  BY <1>1, <1>3
<1>8. InsertAt(w, i, e) = (front \o <<e>>) \o back
  BY DEF InsertAt, front, back
<1> QED BY <1>1, <1>5, <1>6, <1>7, <1>8

LEMMA RemoveAtElements ==
  ASSUME NEW S, NEW w \in Seq(S), NEW i \in 1..Len(w)
  PROVE  /\ RemoveAt(w, i) \in Seq(S)
         /\ Len(RemoveAt(w, i)) = Len(w) - 1
         /\ \A k \in 1..(Len(w) - 1) : RemoveAt(w, i)[k] = IF k < i THEN w[k] ELSE w[k + 1]
<1> DEFINE front == SubSeq(w, 1, i - 1)
           back == SubSeq(w, i + 1, Len(w))
<1>1. Len(w) \in Nat /\ i \in Int /\ \A k \in 1..Len(w) : w[k] \in S
  OBVIOUS
<1>2. /\ front \in Seq(S) /\ Len(front) = i - 1
      /\ \A k \in 1..(i - 1) : front[k] = w[k]
  BY <1>1, SubSeqProperties
<1>3. /\ back \in Seq(S) /\ Len(back) = Len(w) - i
      /\ \A k \in 1..(Len(w) - i) : back[k] = w[i + k]
  BY <1>1, SubSeqProperties
<1> HIDE DEF front, back
<1>4. /\ front \o back \in Seq(S)
      /\ Len(front \o back) = Len(w) - 1
      /\ \A k \in 1..(Len(w) - 1) :
           (front \o back)[k] = IF k <= i - 1 THEN front[k] ELSE back[k - (i - 1)]
  BY <1>1, <1>2, <1>3, ConcatProperties
<1>5. \A k \in 1..(Len(w) - 1) : k >= i => back[k - (i - 1)] = w[k + 1]
  BY <1>1, <1>3
<1>6. RemoveAt(w, i) = front \o back
  BY DEF RemoveAt, front, back
<1> QED BY <1>1, <1>2, <1>4, <1>5, <1>6

LEMMA RangeOfInsertAt ==
  ASSUME NEW S, NEW w \in Seq(S), NEW i \in 1..(Len(w) + 1), NEW e \in S
  PROVE  Range(InsertAt(w, i, e)) = Range(w) \union {e}
<1> DEFINE v == InsertAt(w, i, e)
<1>1. /\ v \in Seq(S) /\ Len(v) = Len(w) + 1
      /\ \A k \in 1..(Len(w) + 1) : v[k] = IF k < i THEN w[k] ELSE IF k = i THEN e ELSE w[k - 1]
  BY InsertAtElements
<1> HIDE DEF v
<1>2. DOMAIN w = 1..Len(w) /\ DOMAIN v = 1..(Len(w) + 1) /\ Len(w) \in Nat
  BY <1>1
<1>3. \A k \in 1..(Len(w) + 1) : v[k] = e \/ \E n \in 1..Len(w) : v[k] = w[n]
  BY <1>1, <1>2
<1>4. \A n \in 1..Len(w) : \E k \in 1..(Len(w) + 1) : v[k] = w[n]
  <2> TAKE n \in 1..Len(w)
  <2>1. CASE n < i
    BY <1>1, <1>2, <2>1
  <2>2. CASE n >= i
    <3>1. n + 1 \in 1..(Len(w) + 1) /\ v[n + 1] = w[n]
      BY <1>1, <1>2, <2>2
    <3> QED BY <3>1
  <2> QED BY <2>1, <2>2
<1>5. v[i] = e
  BY <1>1, <1>2
<1>6. Range(v) = Range(w) \union {e}
  <2>1. \A x : x \in Range(v) <=> \E k \in 1..(Len(w) + 1) : x = v[k]
    BY <1>2 DEF Range
  <2>2. \A x : x \in Range(w) <=> \E k \in 1..Len(w) : x = w[k]
    BY <1>2 DEF Range
  <2>3. \A x : x \in Range(v) => x \in Range(w) \union {e}
    BY <1>3, <2>1, <2>2
  <2>4. \A x : x \in Range(w) \union {e} => x \in Range(v)
    BY <1>4, <1>5, <2>1, <2>2
  <2> QED BY <2>3, <2>4
<1> QED BY <1>6 DEF v

LEMMA RangeOfRemoveAt ==
  ASSUME NEW S, NEW w \in Seq(S), NEW i \in 1..Len(w),
         \A j, k \in 1..Len(w) : j # k => w[j] # w[k]
  PROVE  Range(RemoveAt(w, i)) = Range(w) \ {w[i]}
<1> DEFINE v == RemoveAt(w, i)
<1>1. /\ v \in Seq(S) /\ Len(v) = Len(w) - 1
      /\ \A k \in 1..(Len(w) - 1) : v[k] = IF k < i THEN w[k] ELSE w[k + 1]
  BY RemoveAtElements
<1> HIDE DEF v
<1>2. DOMAIN w = 1..Len(w) /\ DOMAIN v = 1..(Len(w) - 1) /\ Len(w) \in Nat
  BY <1>1
<1>3. \A k \in 1..(Len(w) - 1) : \E n \in 1..Len(w) : n # i /\ v[k] = w[n]
  BY <1>1, <1>2
<1>4. \A n \in 1..Len(w) : n # i => \E k \in 1..(Len(w) - 1) : v[k] = w[n]
  <2> TAKE n \in 1..Len(w)
  <2>1. CASE n < i
    BY <1>1, <1>2, <2>1
  <2>2. CASE n > i
    <3>1. n - 1 \in 1..(Len(w) - 1) /\ v[n - 1] = w[n]
      BY <1>1, <1>2, <2>2
    <3> QED BY <3>1
  <2> QED BY <1>2, <2>1, <2>2
<1>5. Range(v) = Range(w) \ {w[i]}
  <2>1. \A x : x \in Range(v) <=> \E k \in 1..(Len(w) - 1) : x = v[k]
    BY <1>2 DEF Range
  <2>2. \A x : x \in Range(w) <=> \E k \in 1..Len(w) : x = w[k]
    BY <1>2 DEF Range
  <2>3. \A x : x \in Range(v) => x \in Range(w) \ {w[i]}
    BY <1>3, <2>1, <2>2
  <2>4. \A x : x \in Range(w) \ {w[i]} => x \in Range(v)
    BY <1>4, <2>1, <2>2
  <2> QED BY <2>3, <2>4
<1> QED BY <1>5 DEF v

-----------------------------------------------------------------------------
(* A task is in one place at a time.                                       *)

OncePerTask ==
  /\ \A i, j \in 1..Len(waiting) : i # j => waiting[i] # waiting[j]
  /\ \A i \in 1..Len(waiting), g \in granted : waiting[i] # g.task
  /\ \A g, h \in granted : g.task = h.task => g = h
  /\ \A i \in 1..Len(waiting) : waiting[i] \in added
  /\ \A g \in granted : g.task \in added

(* A finished task is still granted, its thread has reported, and it was   *)
(* reported once: what endTasks pops is never popped again.                *)
Reported ==
  /\ \A i \in 1..Len(finished) :
       finished[i] \in granted /\ thread[finished[i].task] \in {"pushed", "ended"}
  /\ \A i, j \in 1..Len(finished) : i # j => finished[i].task # finished[j].task

WInv == WTypeOK /\ AlgoInv /\ OncePerTask /\ Reported

LEMMA WInitKeeps == WInit => WInv
<1> SUFFICES ASSUME WInit PROVE WInv
  OBVIOUS
<1>1. AlgoInv
  BY AlgoInit DEF WInit
<1>2. WTypeOK
  BY <1>1, ManagerAssumption DEF WInit, WTypeOK, AlgoInv
<1> QED BY <1>1, <1>2 DEF WInit, Init, WInv, OncePerTask, Reported

(* A step that leaves the queues alone keeps the invariant.                *)
LEMMA QuietManager ==
  ASSUME WInv, WTypeOK', UNCHANGED <<algoVars, thread, finished, added>>
  PROVE  WInv'
<1>1. AlgoInv'
  BY AlgoStep DEF WInv
<1> QED BY <1>1 DEF algoVars, WInv, OncePerTask, Reported

LEMMA AddTaskManager ==
  ASSUME WInv, NEW t \in Tasks, WAddTask(t)
  PROVE  WInv'
<1>1. t \notin added /\ AddTask(t)
  BY DEF WAddTask
<1>2. AlgoInv'
  BY <1>1, AddTaskKeeps DEF WInv
<1>3. WTypeOK'
  BY <1>2 DEF WAddTask, Notified, WInv, WTypeOK, AlgoInv
<1> DEFINE i == InsertPosition(t)
<1>4. i \in 1..(Len(waiting) + 1) /\ waiting \in Seq(Tasks) /\ Len(waiting) \in Nat
  BY InsertPositionExists DEF WInv, AlgoInv, TypeOK
<1>5. waiting' = InsertAt(waiting, i, t) /\ UNCHANGED <<granted, finished, thread>> /\ added' = added \union {t}
  BY DEF WAddTask, AddTask
<1> HIDE DEF i
<1>6. /\ Len(waiting') = Len(waiting) + 1
      /\ \A k \in 1..(Len(waiting) + 1) :
           waiting'[k] = IF k < i THEN waiting[k] ELSE IF k = i THEN t ELSE waiting[k - 1]
  <2>1. /\ Len(InsertAt(waiting, i, t)) = Len(waiting) + 1
        /\ \A k \in 1..(Len(waiting) + 1) :
             InsertAt(waiting, i, t)[k] =
               IF k < i THEN waiting[k] ELSE IF k = i THEN t ELSE waiting[k - 1]
    BY <1>4, InsertAtElements
  <2> QED BY <1>5, <2>1
<1>7. \A k \in 1..Len(waiting) : waiting[k] # t
  BY <1>1 DEF WInv, OncePerTask
<1>8. \A k \in 1..(Len(waiting) + 1) :
        waiting'[k] = t \/ \E n \in 1..Len(waiting) : waiting'[k] = waiting[n]
  BY <1>4, <1>6
<1>9. \A k, n \in 1..(Len(waiting) + 1) : k # n => waiting'[k] # waiting'[n]
  <2> SUFFICES ASSUME NEW k \in 1..(Len(waiting) + 1), NEW n \in 1..(Len(waiting) + 1), k < n
               PROVE  waiting'[k] # waiting'[n]
    BY <1>4
  <2> DEFINE From(j) == IF j < i THEN j ELSE j - 1
  <2>1. \A j \in 1..(Len(waiting) + 1) : j # i =>
          From(j) \in 1..Len(waiting) /\ waiting'[j] = waiting[From(j)]
    BY <1>4, <1>6
  <2>2. waiting'[i] = t
    BY <1>4, <1>6
  <2>3. CASE k = i \/ n = i
    BY <2>1, <2>2, <2>3, <1>7
  <2>4. CASE k # i /\ n # i
    <3>1. From(k) # From(n)
      BY <1>4, <2>4
    <3>2. \A x, y \in 1..Len(waiting) : x # y => waiting[x] # waiting[y]
      BY DEF WInv, OncePerTask
    <3> HIDE DEF From
    <3> QED BY <2>1, <2>4, <3>1, <3>2
  <2> QED BY <2>3, <2>4
<1>10. OncePerTask'
  <2>1. \A k \in 1..Len(waiting'), g \in granted' : waiting'[k] # g.task
    BY <1>1, <1>5, <1>6, <1>8 DEF WInv, OncePerTask
  <2>2. \A k \in 1..Len(waiting') : waiting'[k] \in added'
    BY <1>5, <1>6, <1>8 DEF WInv, OncePerTask
  <2> QED BY <1>5, <1>6, <1>9, <2>1, <2>2 DEF WInv, OncePerTask
<1> QED BY <1>2, <1>3, <1>5, <1>10 DEF WInv, Reported

(* chooseTask takes one task out of the queue and grants it.               *)
LEMMA ChooseMoves ==
  ASSUME TypeOK, ChooseTask
  PROVE  \E i \in 1..Len(waiting), g \in granted' :
           /\ g.task = waiting[i] /\ granted' = granted \union {g}
           /\ waiting' = RemoveAt(waiting, i)
<1>1. PICK i \in DOMAIN waiting :
        /\ waiting' = RemoveAt(waiting, i)
        /\ \E kind, r, index : Grant(waiting[i], kind, r, index)
  BY DEF ChooseTask
<1>2. PICK kind, r, index : Grant(waiting[i], kind, r, index)
  BY <1>1
<1>3. i \in 1..Len(waiting)
  BY DEF TypeOK
<1> DEFINE g == [task |-> waiting[i], kind |-> kind, resource |-> r, index |-> index]
<1>4. g.task = waiting[i] /\ granted' = granted \union {g}
  BY <1>2 DEF Grant
<1> HIDE DEF g
<1> QED BY <1>1, <1>3, <1>4

LEMMA ChooseManager ==
  ASSUME WInv, RunChoose
  PROVE  WInv'
<1>1. ChooseTask /\ UNCHANGED <<finished, added>>
  BY DEF RunChoose
<1>2. AlgoInv'
  BY <1>1, ChooseKeeps DEF WInv
<1>3. waiting \in Seq(Tasks) /\ Len(waiting) \in Nat /\ \A k \in 1..Len(waiting) : waiting[k] \in Tasks
  BY DEF WInv, AlgoInv, TypeOK
<1>4. PICK i \in 1..Len(waiting), g \in granted' :
        /\ g.task = waiting[i] /\ granted' = granted \union {g}
        /\ waiting' = RemoveAt(waiting, i)
  BY <1>1, ChooseMoves DEF WInv, AlgoInv
<1>5. /\ Len(waiting') = Len(waiting) - 1
      /\ \A k \in 1..(Len(waiting) - 1) : waiting'[k] = IF k < i THEN waiting[k] ELSE waiting[k + 1]
  <2>1. /\ Len(RemoveAt(waiting, i)) = Len(waiting) - 1
        /\ \A k \in 1..(Len(waiting) - 1) :
             RemoveAt(waiting, i)[k] = IF k < i THEN waiting[k] ELSE waiting[k + 1]
    BY <1>3, RemoveAtElements
  <2> QED BY <1>4, <2>1
<1>6. \A k \in 1..Len(waiting') :
        \E n \in 1..Len(waiting) : n # i /\ waiting'[k] = waiting[n]
  BY <1>3, <1>5
<1>7. \A k, n \in 1..Len(waiting') : k # n => waiting'[k] # waiting'[n]
  BY <1>3, <1>5 DEF WInv, OncePerTask
<1>8. OncePerTask'
  <2>1. \A k \in 1..Len(waiting'), h \in granted' : waiting'[k] # h.task
    BY <1>4, <1>6 DEF WInv, OncePerTask
  <2>2. \A k \in 1..Len(waiting') : waiting'[k] \in added'
    BY <1>1, <1>6 DEF WInv, OncePerTask
  <2>3. \A h, l \in granted' : h.task = l.task => h = l
    BY <1>4 DEF WInv, OncePerTask
  <2>4. \A h \in granted' : h.task \in added'
    BY <1>1, <1>4 DEF WInv, OncePerTask
  <2> QED BY <1>7, <2>1, <2>2, <2>3, <2>4 DEF OncePerTask
<1>9. \A t \in Tasks : thread'[t] \in {"running", thread[t]} /\ (t # g.task => thread'[t] = thread[t])
  BY <1>4 DEF RunChoose
<1>10. thread' \in [Tasks -> {"none", "running", "pushed", "ended"}]
  BY <1>9 DEF RunChoose, WInv, WTypeOK
<1>11. WTypeOK'
  BY <1>1, <1>2, <1>10 DEF RunChoose, WInv, WTypeOK, AlgoInv
<1>12. Reported'
  <2>1. \A n \in 1..Len(finished) : finished[n].task \in Tasks /\ finished[n].task # g.task
    BY <1>4 DEF WInv, AlgoInv, TypeOK, LaunchInfo, OncePerTask, Reported
  <2> QED BY <1>1, <1>4, <1>9, <2>1 DEF WInv, Reported
<1> QED BY <1>2, <1>8, <1>11, <1>12 DEF WInv

LEMMA PushManager ==
  ASSUME WInv, NEW info \in granted, TaskPush(info)
  PROVE  WInv'
<1>1. /\ thread[info.task] = "running"
      /\ thread' = [thread EXCEPT ![info.task] = "pushed"]
      /\ finished' = Append(finished, info)
      /\ UNCHANGED <<algoVars, stop, mutex, runPc, client, added, starts>>
  BY DEF TaskPush
<1>2. AlgoInv'
  BY <1>1, AlgoStep DEF WInv
<1>3. info \in LaunchInfo /\ info.task \in Tasks /\ finished \in Seq(LaunchInfo)
  BY DEF WInv, AlgoInv, TypeOK, WTypeOK, LaunchInfo
<1>4. WTypeOK'
  <2>1. thread' \in [Tasks -> {"none", "running", "pushed", "ended"}]
    BY <1>1 DEF WInv, WTypeOK
  <2>2. finished' \in Seq(LaunchInfo)
    BY <1>1, <1>3
  <2> QED BY <1>1, <1>2, <2>1, <2>2 DEF TaskPush, Notified, WInv, WTypeOK, AlgoInv
<1>5. OncePerTask'
  BY <1>1 DEF algoVars, WInv, OncePerTask
<1>6. Reported'
  <2>1. /\ Len(finished) \in Nat /\ Len(finished') = Len(finished) + 1
        /\ \A n \in 1..Len(finished) : finished'[n] = finished[n]
        /\ finished'[Len(finished) + 1] = info
    BY <1>1, <1>3
  <2>2. \A n \in 1..Len(finished) : finished[n].task # info.task /\ finished[n].task \in Tasks
    BY <1>1 DEF WInv, AlgoInv, TypeOK, LaunchInfo, Reported
  <2>3. \A n \in 1..Len(finished') :
          finished'[n] \in granted' /\ thread'[finished'[n].task] \in {"pushed", "ended"}
    BY <1>1, <1>3, <2>1, <2>2 DEF algoVars, WInv, WTypeOK, Reported
  <2>4. \A m, n \in 1..Len(finished') : m # n => finished'[m].task # finished'[n].task
    BY <2>1, <2>2 DEF WInv, Reported
  <2> QED BY <2>3, <2>4 DEF Reported
<1> QED BY <1>2, <1>4, <1>5, <1>6 DEF WInv

LEMMA DrainManager ==
  ASSUME WInv, EndDrain
  PROVE  WInv'
<1> DEFINE info == Head(finished)
<1>1. /\ finished # <<>> /\ finished' = Tail(finished) /\ Liberate(info)
      /\ UNCHANGED <<stop, mutex, runPc, endPc, thread, client, added, starts>>
  BY DEF EndDrain
<1>2. /\ finished \in Seq(LaunchInfo) /\ Len(finished) \in Nat \ {0} /\ info = finished[1]
      /\ Tail(finished) \in Seq(LaunchInfo) /\ Len(Tail(finished)) = Len(finished) - 1
      /\ \A n \in 1..(Len(finished) - 1) : Tail(finished)[n] = finished[n + 1]
  BY <1>1, HeadTailProperties DEF WInv, WTypeOK
<1>3. info \in granted
  BY <1>2 DEF WInv, Reported
<1>4. AlgoInv'
  BY <1>1, <1>3, LiberateKeeps DEF WInv
<1>5. granted' = granted \ {info} /\ waiting' = waiting
  BY <1>1 DEF Liberate
<1> HIDE DEF info
<1>6. WTypeOK'
  BY <1>1, <1>2, <1>4 DEF WInv, WTypeOK, AlgoInv
<1>7. OncePerTask'
  BY <1>1, <1>5 DEF WInv, OncePerTask
<1>8. Reported'
  <2>1. /\ Len(finished') = Len(finished) - 1
        /\ \A n \in 1..(Len(finished) - 1) : finished'[n] = finished[n + 1]
    BY <1>1, <1>2
  <2>2. \A n \in 2..Len(finished) : finished[n] # info
    BY <1>2 DEF WInv, Reported
  <2>3. \A n \in 1..Len(finished') :
          finished'[n] \in granted' /\ thread'[finished'[n].task] \in {"pushed", "ended"}
    BY <1>1, <1>2, <1>5, <2>1, <2>2 DEF WInv, Reported
  <2>4. \A m, n \in 1..Len(finished') : m # n => finished'[m].task # finished'[n].task
    BY <1>2, <2>1 DEF WInv, Reported
  <2> QED BY <2>3, <2>4 DEF Reported
<1> QED BY <1>4, <1>6, <1>7, <1>8 DEF WInv

LEMMA WStep == WInv /\ [WNext]_vars => WInv'
<1> SUFFICES ASSUME WInv, [WNext]_vars PROVE WInv'
  OBVIOUS
<1> USE DEF vars, managerVars
<1>1. ASSUME NEW t \in Tasks, WAddTask(t)
      PROVE  WInv'
  BY <1>1, AddTaskManager
<1>2. ASSUME NEW r \in Resources, WAddResource(r)
      PROVE  WInv'
  <2>1. AlgoInv'
    BY <1>2, AddResourceKeeps DEF WAddResource, WInv
  <2> QED BY <1>2, <2>1
          DEF WAddResource, AddResource, Notified, WInv, WTypeOK, AlgoInv, OncePerTask, Reported
<1>3. CASE WFreezeResources \/ StopBegin
  <2>1. FreezeResources
    BY <1>3 DEF WFreezeResources, StopBegin
  <2>2. AlgoInv'
    BY <2>1, FreezeKeeps DEF WInv
  <2>3. WTypeOK'
    BY <1>3, <2>2 DEF WFreezeResources, StopBegin, Notified, WInv, WTypeOK, AlgoInv
  <2>4. UNCHANGED <<waiting, granted, thread, finished, added>>
    BY <1>3, <2>1 DEF WFreezeResources, StopBegin, FreezeResources
  <2> QED BY <2>2, <2>3, <2>4 DEF WInv, OncePerTask, Reported
<1>4. CASE Start \/ Stopping
  <2>1. UNCHANGED <<algoVars, thread, finished, added>>
    BY <1>4 DEF Start, Stopping, StopNotify, StopReturn
  <2>2. TypeOK'
    BY <2>1, AlgoStep DEF WInv, AlgoInv
  <2>3. WTypeOK'
    <3>1. CASE Start
      <4>1. starts' \in Nat
        <5>1. starts \in Nat /\ starts' = starts + 1
          BY <3>1 DEF Start, WInv, WTypeOK
        <5> QED BY <5>1
      <4>2. /\ stop' \in BOOLEAN
            /\ runPc' = "lock" /\ endPc' = "lock"
            /\ UNCHANGED <<mutex, thread, finished, client, added>>
        BY <3>1 DEF Start
      <4> QED BY <2>2, <4>1, <4>2 DEF WInv, WTypeOK
    <3>2. CASE Stopping
      BY <2>2, <3>2 DEF Stopping, StopNotify, StopReturn, Notified, WInv, WTypeOK
    <3> QED BY <1>4, <3>1, <3>2
  <2> QED BY <2>1, <2>3, QuietManager
<1>5. CASE RunLock \/ RunRelease \/ EndLock \/ EndRelease \/ SpuriousWakeup \/ UNCHANGED vars
  <2>1. UNCHANGED <<algoVars, thread, finished, added>>
    BY <1>5 DEF RunLock, RunRelease, EndLock, EndRelease, SpuriousWakeup
  <2>2. TypeOK'
    BY <2>1, AlgoStep DEF WInv, AlgoInv
  <2>3. WTypeOK'
    BY <1>5, <2>2 DEF RunLock, RunRelease, EndLock, EndRelease, SpuriousWakeup, Notified, WInv, WTypeOK
  <2> QED BY <2>1, <2>3, QuietManager
<1>6. CASE RunChoose
  BY <1>6, ChooseManager
<1>7. CASE EndDrain
  BY <1>7, DrainManager
<1>8. ASSUME NEW info \in granted, TaskPush(info)
      PROVE  WInv'
  BY <1>8, PushManager
<1>9. ASSUME NEW info \in granted, TaskThrow(info) \/ TaskExit(info)
      PROVE  WInv'
  <2>1. /\ thread' = [thread EXCEPT ![info.task] = "ended"]
        /\ UNCHANGED <<algoVars, stop, mutex, runPc, endPc, finished, client, added, starts>>
    BY <1>9 DEF TaskThrow, TaskExit
  <2>2. AlgoInv'
    BY <2>1, AlgoStep DEF WInv
  <2>3. WTypeOK'
    BY <2>1, <2>2 DEF WInv, WTypeOK, AlgoInv
  <2>4. OncePerTask'
    BY <2>1 DEF algoVars, WInv, OncePerTask
  <2>5. Reported'
    <3>1. \A t \in Tasks : thread'[t] \in {thread[t], "ended"}
      BY <2>1 DEF WInv, WTypeOK
    <3>2. \A n \in 1..Len(finished) : finished[n].task \in Tasks
      BY DEF WInv, AlgoInv, TypeOK, LaunchInfo, Reported
    <3> QED BY <2>1, <3>1, <3>2 DEF algoVars, WInv, Reported
  <2> QED BY <2>2, <2>3, <2>4, <2>5 DEF WInv
<1> QED
  BY <1>1, <1>2, <1>3, <1>4, <1>5, <1>6, <1>7, <1>8, <1>9
     DEF WNext, RunThread, EndThread, TaskThread, ClientDone

LEMMA ManagerCorrect == WSpec => []WInv
<1>1. WInit => WInv
  BY WInitKeeps
<1>2. WInv /\ [WNext]_vars => WInv'
  BY WStep
<1> QED BY <1>1, <1>2, PTL DEF WSpec

(* What endTasks pops is in _runningTasks, and is popped once, for any     *)
(* number of tasks, restarts and resources.                                *)
THEOREM FinishedTasksAreRunning == WSpec => []FinishedAreRunning
<1>1. WInv => FinishedAreRunning
  <2> SUFFICES ASSUME WInv PROVE FinishedAreRunning
    OBVIOUS
  <2>1. DOMAIN finished = 1..Len(finished)
    BY DEF WInv, WTypeOK
  <2>2. Range(finished) \subseteq granted
    BY <2>1 DEF Range, WInv, Reported
  <2> QED BY <2>1, <2>2 DEF FinishedAreRunning, WInv, Reported
<1> QED BY <1>1, ManagerCorrect, PTL

(* The promise of the algorithm holds in the manager: whatever its threads *)
(* do, two running tasks never share a container.                          *)
THEOREM ManagerWorkersAreDistinct == WSpec => [](WTypeOK /\ DistinctWorkers)
<1>1. WInv => WTypeOK /\ DistinctWorkers
  BY DEF WInv, AlgoInv
<1> QED BY <1>1, ManagerCorrect, PTL

-----------------------------------------------------------------------------
(* The accounts of the algorithm are right in the manager.                 *)

LEMMA CallsOfManager ==
  ASSUME WInv, [WNext]_vars
  PROVE  \/ \E t \in Tasks : AddTask(t)
         \/ \E r \in Resources : AddResource(r)
         \/ FreezeResources
         \/ ChooseTask
         \/ \E info \in granted : Liberate(info)
         \/ UNCHANGED algoVars
<1>1. CASE EndDrain
  <2>1. finished # <<>> /\ Liberate(Head(finished))
    BY <1>1 DEF EndDrain
  <2>2. Len(finished) \in Nat \ {0} /\ Head(finished) = finished[1]
    BY <2>1, HeadTailProperties DEF WInv, WTypeOK
  <2>3. Head(finished) \in granted
    BY <2>2 DEF WInv, Reported
  <2> QED BY <2>1, <2>3
<1>2. CASE \/ RunLock \/ RunRelease \/ SpuriousWakeup \/ EndLock \/ EndRelease \/ Start
           \/ Stopping \/ ClientDone \/ UNCHANGED vars
           \/ \E info \in granted : TaskThread(info)
  BY <1>2 DEF RunLock, RunRelease, SpuriousWakeup, EndLock, EndRelease, Start, Stopping,
              StopNotify, StopReturn, ClientDone, vars, TaskThread, TaskPush, TaskThrow, TaskExit
<1>3. CASE \/ \E t \in Tasks : WAddTask(t)
           \/ \E r \in Resources : WAddResource(r)
           \/ WFreezeResources \/ StopBegin \/ RunChoose
  BY <1>3 DEF WAddTask, WAddResource, WFreezeResources, StopBegin, RunChoose
<1> QED BY <1>1, <1>2, <1>3 DEF WNext, RunThread, EndThread

LEMMA AccountsCorrect == WSpec => [](WInv /\ Accounts)
<1>1. WInit => Accounts
  BY AccountsInit DEF WInit
<1>2. WInv /\ Accounts /\ [WNext]_vars => Accounts'
  BY CallsOfManager, CallKeepsAccounts DEF WInv
<1> QED BY <1>1, <1>2, ManagerCorrect, PTL DEF WSpec

(* In the manager too, neither the cores of a resource nor the indices of  *)
(* its containers run over, whatever its threads do.                       *)
THEOREM ManagerPlacementFits == WSpec => []PlacementFits
<1>1. WInv /\ Accounts => PlacementFits
  BY AccountsFit DEF WInv, AlgoInv
<1> QED BY <1>1, AccountsCorrect, PTL

-----------------------------------------------------------------------------
(* The manager, seen from its client, is a TaskPool.                       *)

(* When the two threads live: the client that has called stop() is held    *)
(* until both are off, and endTasks goes first only when nothing is left.  *)
Lifetimes ==
  /\ client # "idle" => stop
  /\ ~stop => runPc # "off" /\ endPc # "off"
  /\ stop /\ client = "idle" => runPc = "off" /\ endPc = "off"
  /\ runPc # "off" /\ endPc = "off" => client # "idle" /\ granted = {} /\ waiting = <<>>

LEMMA LifetimesStep ==
  ASSUME WInv, Lifetimes, [WNext]_vars
  PROVE  Lifetimes'
<1> USE DEF Lifetimes
<1>1. ASSUME NEW t \in Tasks, WAddTask(t)
      PROVE  Lifetimes'
  BY <1>1 DEF WAddTask, Notified
<1>2. ASSUME NEW r \in Resources, WAddResource(r)
      PROVE  Lifetimes'
  BY <1>2 DEF WAddResource, AddResource, Notified
<1>3. CASE WFreezeResources \/ StopBegin \/ Start \/ Stopping
  BY <1>3 DEF WFreezeResources, StopBegin, FreezeResources, Start, Stopping, StopNotify,
              StopReturn, Notified, algoVars
<1>4. CASE RunLock \/ RunRelease \/ EndLock \/ EndRelease \/ SpuriousWakeup
  BY <1>4 DEF RunLock, RunRelease, EndLock, EndRelease, SpuriousWakeup, Notified, Drained,
              RunningEmpty, algoVars
<1>5. CASE RunChoose
  <2>1. runPc = "choosing" /\ UNCHANGED <<stop, runPc, endPc, client>>
    BY <1>5 DEF RunChoose
  <2>2. waiting # <<>>
    BY <1>5 DEF RunChoose, ChooseTask
  <2> QED BY <2>1, <2>2
<1>6. CASE EndDrain
  BY <1>6 DEF EndDrain
<1>7. ASSUME NEW info \in granted, TaskThread(info)
      PROVE  Lifetimes'
  BY <1>7 DEF TaskThread, TaskPush, TaskThrow, TaskExit, Notified, algoVars
<1>8. CASE UNCHANGED vars
  BY <1>8 DEF vars, algoVars, managerVars
<1> QED BY <1>1, <1>2, <1>3, <1>4, <1>5, <1>6, <1>7, <1>8
        DEF WNext, RunThread, EndThread, ClientDone

(* The total of the weights is that of their images.                       *)
LEMMA TotalOfImage ==
  ASSUME NEW U, NEW w \in [U -> Nat], NEW S \in SUBSET U, IsFiniteSet(S),
         NEW V, NEW v \in [V -> Nat], NEW f \in [S -> V],
         \A x, y \in S : f[x] = f[y] => x = y,
         \A x \in S : w[x] = v[f[x]]
  PROVE  Total(w, S) = Total(v, {f[x] : x \in S})
<1> DEFINE Image(t) == {f[x] : x \in t}
<1> SUFFICES ASSUME Total(w, S) # Total(v, Image(S)) PROVE FALSE
  OBVIOUS
<1> DEFINE D == {t \in SUBSET S : Total(w, t) # Total(v, Image(t))}
<1>1. PICK t \in D : \A u \in D : u \subseteq t => u = t
  <2>1. D \in SUBSET (SUBSET S) /\ D # {}
    OBVIOUS
  <2> HIDE DEF D
  <2> QED BY <2>1, LeastSubset
<1>2. t \in SUBSET S /\ IsFiniteSet(t) /\ IsFiniteSet(Image(t)) /\ Image(t) \in SUBSET V
  <2>1. IsFiniteSet(t)
    BY FS_Subset
  <2>2. IsFiniteSet(Image(t))
    <3>1. [x \in t |-> f[x]] \in Surjection(t, Image(t))
      BY DEF Surjection
    <3> QED BY <2>1, <3>1, FS_Surjection
  <2> QED BY <2>1, <2>2
<1>3. t # {}
  <2>1. Total(w, {}) = 0 /\ Total(v, {}) = 0
    BY TotalIs, FS_EmptySet
  <2>2. Image({}) = {}
    OBVIOUS
  <2> QED BY <1>1, <2>1, <2>2
<1>4. PICK y \in t : TRUE
  BY <1>3
<1>5. t \ {y} \notin D
  BY <1>1
<1>6. Image(t) \ {f[y]} = Image(t \ {y}) /\ f[y] \in Image(t)
  BY <1>2
<1>7. Total(w, t) = w[y] + Total(w, t \ {y})
  BY <1>2, TotalWithout
<1> HIDE DEF Image
<1>8. Total(v, Image(t)) = v[f[y]] + Total(v, Image(t) \ {f[y]})
  BY <1>2, <1>6, TotalWithout
<1>9. w[y] = v[f[y]]
  BY <1>2
<1> QED BY <1>1, <1>2, <1>5, <1>6, <1>7, <1>8, <1>9

TaskWeights == [t \in Tasks |-> Cores[TypeOf[t]]]

LEMMA SumOfCores ==
  ASSUME NEW r, IsFiniteSet(Pool!Holders(r)), Pool!Holders(r) \in SUBSET Tasks
  PROVE  Pool!CoresHeld(r) = Total(TaskWeights, Pool!Holders(r))
<1> DEFINE S == Pool!Holders(r)
           body(h) == [s \in SUBSET S |-> IF s = {} THEN 0
                         ELSE Cores[TypeOf[Pick(s)]] + h[s \ {Pick(s)}]]
           k == CHOOSE h : h = body(h)
<1>1. Pool!CoresHeld(r) = k[S]
  BY DEF Pool!CoresHeld, Pool!MapThenSumSet, Pool!MapThenFoldSet, Pick
<1> HIDE DEF S
<1>2. \A s \in SUBSET S : s # {} => TaskWeights[Pick(s)] = Cores[TypeOf[Pick(s)]]
  BY DEF TaskWeights, Pick, S
<1>3. \A h : IsSum(h, S, TaskWeights) <=> h = body(h)
  <2> SUFFICES ASSUME NEW h
               PROVE  body(h) = [s \in SUBSET S |-> IF s = {} THEN 0
                                   ELSE TaskWeights[Pick(s)] + h[s \ {Pick(s)}]]
    BY DEF IsSum
  <2> QED BY <1>2
<1>4. k = body(k)
  <2>1. PICK h : IsSum(h, S, TaskWeights)
    BY SumExists DEF S
  <2>2. h = body(h)
    BY <1>3, <2>1
  <2> HIDE DEF body
  <2> QED BY <2>2
<1> HIDE DEF k
<1>5. IsSum(k, S, TaskWeights)
  BY <1>3, <1>4
<1>6. IsSum(CHOOSE h : IsSum(h, S, TaskWeights), S, TaskWeights)
  BY <1>5
<1>7. k[S] = (CHOOSE h : IsSum(h, S, TaskWeights))[S]
  BY <1>5, <1>6, SumIsUnique DEF S
<1> QED BY <1>1, <1>7 DEF Total, S

(* The worker of a task is the one its LaunchInfo names.                   *)
PlaceIn(G, t) ==
  IF \E g \in G : g.task = t /\ g.kind = "placed"
    THEN LET g == CHOOSE g \in G : g.task = t IN <<g.resource, g.index>>
    ELSE <<NoResource, 0>>

LEMMA PlaceInIs ==
  ASSUME NEW G, \A g, h \in G : g.task = h.task => g = h
  PROVE  /\ \A g \in G : g.kind = "placed" => PlaceIn(G, g.task) = <<g.resource, g.index>>
         /\ \A t : (\A g \in G : g.task = t => g.kind # "placed")
                      => PlaceIn(G, t) = <<NoResource, 0>>
<1>1. ASSUME NEW g \in G, g.kind = "placed"
      PROVE  PlaceIn(G, g.task) = <<g.resource, g.index>>
  <2>1. \A h \in G : h.task = g.task => h = g
    OBVIOUS
  <2>2. (CHOOSE h \in G : h.task = g.task) = g
    BY <2>1
  <2> QED BY <1>1, <2>2 DEF PlaceIn
<1>2. ASSUME NEW t, \A g \in G : g.task = t => g.kind # "placed"
      PROVE  PlaceIn(G, t) = <<NoResource, 0>>
  BY <1>2 DEF PlaceIn
<1> QED BY <1>1, <1>2

LEMMA SamePlaceIn ==
  ASSUME NEW G, \A g, h \in G : g.task = h.task => g = h,
         NEW H, \A g, h \in H : g.task = h.task => g = h,
         NEW t, \A g \in G : g.task = t => g \in H, \A g \in H : g.task = t => g \in G
  PROVE  PlaceIn(H, t) = PlaceIn(G, t)
<1>1. CASE \E g \in G : g.task = t /\ g.kind = "placed"
  <2>1. PICK g \in G : g.task = t /\ g.kind = "placed"
    BY <1>1
  <2>2. PlaceIn(G, t) = <<g.resource, g.index>>
    BY <2>1, PlaceInIs
  <2>3. PlaceIn(H, t) = <<g.resource, g.index>>
    BY <2>1, PlaceInIs
  <2> QED BY <2>2, <2>3
<1>2. CASE ~\E g \in G : g.task = t /\ g.kind = "placed"
  <2>1. PlaceIn(G, t) = <<NoResource, 0>>
    BY <1>2 DEF PlaceIn
  <2>2. PlaceIn(H, t) = <<NoResource, 0>>
    BY <1>2 DEF PlaceIn
  <2> QED BY <2>1, <2>2
<1> QED BY <1>1, <1>2

LEMMA PlaceIs ==
  ASSUME WInv
  PROVE  /\ \A g \in granted : g.kind = "placed" => Place(g.task) = <<g.resource, g.index>>
         /\ \A t : (\A g \in granted : g.task = t => g.kind # "placed")
                      => Place(t) = <<NoResource, 0>>
<1>1. \A t : Place(t) = PlaceIn(granted, t)
  BY DEF Place, PlaceIn
<1>2. \A g, h \in granted : g.task = h.task => g = h
  BY DEF WInv, OncePerTask
<1> QED BY <1>1, <1>2, PlaceInIs

LEMMA HoldersAre ==
  ASSUME WInv, NEW r \in Resources
  PROVE  Pool!Holders(r) = {g.task : g \in PlacedOn(r)}
<1>1. \A t \in Tasks : t \in Pool!Holders(r) <=> (Place(t) # <<NoResource, 0>> /\ Place(t)[1] = r)
  BY DEF Pool!Holders, Pool!Nothing
<1>2. \A g \in granted : g.task \in Tasks
  BY DEF WInv, AlgoInv, TypeOK, LaunchInfo
<1>3. ASSUME NEW t \in Pool!Holders(r)
      PROVE  \E g \in PlacedOn(r) : g.task = t
  <2>1. t \in Tasks /\ Place(t) # <<NoResource, 0>> /\ Place(t)[1] = r
    BY <1>1 DEF Pool!Holders
  <2>2. PICK g \in granted : g.task = t /\ g.kind = "placed"
    BY <2>1, PlaceIs
  <2>3. Place(t) = <<g.resource, g.index>>
    BY <2>2, PlaceIs
  <2> QED BY <2>1, <2>2, <2>3 DEF PlacedOn
<1>4. ASSUME NEW g \in PlacedOn(r)
      PROVE  g.task \in Pool!Holders(r)
  <2>1. g \in granted /\ g.kind = "placed" /\ g.resource = r
    BY DEF PlacedOn
  <2>2. Place(g.task) = <<r, g.index>>
    BY <2>1, PlaceIs
  <2>3. Place(g.task)[1] = r /\ Place(g.task) # <<NoResource, 0>>
    BY <2>2, PlacementAssumption
  <2> QED BY <1>1, <1>2, <2>1, <2>3
<1> QED BY <1>3, <1>4

(* The cores the pool counts are the load of the resource.                 *)
LEMMA CoresHeldIs ==
  ASSUME WInv, Accounts, NEW r \in Resources
  PROVE  Pool!CoresHeld(r) = load[r]
<1> DEFINE f == [g \in PlacedOn(r) |-> g.task]
<1>1. PlacedOn(r) \in SUBSET LaunchInfo /\ IsFiniteSet(PlacedOn(r)) /\ PlacedOn(r) \subseteq granted
  <2>1. PlacedOn(r) \subseteq granted
    BY DEF PlacedOn
  <2> QED BY <2>1, PlacedOnIs DEF WInv, AlgoInv, Accounts
<1>2. \A g \in LaunchInfo : g.task \in Tasks /\ Weights[g] = Cores[TypeOf[g.task]]
  BY DEF LaunchInfo, Weights, Neededs
<1>3. TaskWeights \in [Tasks -> Nat]
  BY PlacementAssumption DEF TaskWeights
<1>4. f \in [PlacedOn(r) -> Tasks]
  BY <1>1, <1>2
<1>5. \A g, h \in PlacedOn(r) : f[g] = f[h] => g = h
  BY <1>1 DEF WInv, OncePerTask
<1>6. \A g \in PlacedOn(r) : Weights[g] = TaskWeights[f[g]]
  BY <1>1, <1>2 DEF TaskWeights
<1>7. {f[g] : g \in PlacedOn(r)} = Pool!Holders(r)
  BY HoldersAre
<1> HIDE DEF f
<1>8. Total(Weights, PlacedOn(r)) = Total(TaskWeights, Pool!Holders(r))
  BY <1>1, <1>3, <1>4, <1>5, <1>6, <1>7, WeightsType, TotalOfImage
<1>9. Pool!Holders(r) \in SUBSET Tasks /\ IsFiniteSet(Pool!Holders(r))
  <2>1. f \in Surjection(PlacedOn(r), Pool!Holders(r))
    BY <1>4, <1>7 DEF Surjection
  <2> QED BY <1>1, <2>1, FS_Surjection DEF Pool!Holders
<1>10. Pool!CoresHeld(r) = Total(TaskWeights, Pool!Holders(r))
  BY <1>9, SumOfCores
<1> QED BY <1>8, <1>10 DEF Accounts

(* The workers the pool sees held are those the algorithm keeps.           *)
LEMMA InUseIs ==
  ASSUME WInv, Accounts, NEW r \in Resources, NEW c \in Types
  PROVE  Pool!InUse(r, c) = busy[r][c]
<1>1. \A g \in PlacedOn(r) : g \in granted /\ g.kind = "placed" /\ g.resource = r
  BY DEF PlacedOn
<1>2. \A g \in PlacedOn(r) : Place(g.task)[2] = g.index
  BY <1>1, PlaceIs
<1>3. \A g \in PlacedOn(r) : g.task \in Tasks
  BY <1>1 DEF WInv, AlgoInv, TypeOK, LaunchInfo
<1>4. \A k : k \in Pool!InUse(r, c) <=> \E g \in PlacedOn(r) : TypeOf[g.task] = c /\ k = g.index
  <2>1. Pool!Holders(r) = {g.task : g \in PlacedOn(r)}
    BY HoldersAre
  <2>2. \A t \in Pool!Holders(r) : t \in Tasks
    BY <1>3, <2>1
  <2>3. \A k : k \in Pool!InUse(r, c) <=> \E t \in Pool!Holders(r) : TypeOf[t] = c /\ k = Place(t)[2]
    BY <2>2 DEF Pool!InUse
  <2> QED BY <1>2, <2>1, <2>3
<1>5. \A g \in PlacedOn(r) : TypeOf[g.task] = c => g.index \in busy[r][c]
  BY <1>1 DEF WInv, AlgoInv, IndicesInUse
<1>6. \A k \in busy[r][c] : \E g \in PlacedOn(r) : TypeOf[g.task] = c /\ g.index = k
  BY DEF Accounts
<1>7. \A k : k \in Pool!InUse(r, c) => k \in busy[r][c]
  BY <1>4, <1>5
<1>8. \A k \in busy[r][c] : k \in Pool!InUse(r, c)
  BY <1>4, <1>6
<1> HIDE DEF Pool!InUse
<1> QED BY <1>7, <1>8

(* A step that neither moves a task nor opens or closes the pool.          *)
LEMMA QuietPool ==
  ASSUME UNCHANGED <<waiting, granted, added>>,
         \A g \in granted : thread'[g.task] = "running" <=> thread[g.task] = "running",
         (runPc' # "off" \/ endPc' # "off") <=> (runPc # "off" \/ endPc # "off")
  PROVE  UNCHANGED Pool!poolVars
<1>1. \A t : Stage(t)' = Stage(t)
  BY DEF Stage
<1>2. \A t : Place(t)' = Place(t)
  BY DEF Place
<1> QED BY <1>1, <1>2 DEF Pool!poolVars


(* What a step does to one task, the others staying where they are.        *)
LEMMA OneStage ==
  ASSUME WInv, WInv', NEW t \in Tasks,
         NEW stage, Stage(t)' = stage,
         \A u \in Tasks : u # t =>
            /\ u \in added' <=> u \in added
            /\ u \in Range(waiting') <=> u \in Range(waiting)
            /\ thread'[u] = thread[u],
         \A g \in granted : g.task # t => g \in granted',
         \A g \in granted' : g.task # t => g \in granted
  PROVE  /\ [u \in Tasks |-> Stage(u)]' = [[u \in Tasks |-> Stage(u)] EXCEPT ![t] = stage]
         /\ \A u \in Tasks : u # t => Place(u)' = Place(u)
<1>1. ASSUME NEW u \in Tasks, u # t
      PROVE  Stage(u)' = Stage(u)
  BY <1>1 DEF Stage
<1>2. ASSUME NEW u \in Tasks, u # t
      PROVE  Place(u)' = Place(u)
  <2>1. /\ \A g, h \in granted : g.task = h.task => g = h
        /\ \A g, h \in granted' : g.task = h.task => g = h
    BY DEF WInv, OncePerTask
  <2>2. /\ \A g \in granted : g.task = u => g \in granted'
        /\ \A g \in granted' : g.task = u => g \in granted
    BY <1>2
  <2>3. PlaceIn(granted', u) = PlaceIn(granted, u)
    BY <2>1, <2>2, SamePlaceIn
  <2> QED BY <2>3 DEF Place, PlaceIn
<1> QED BY <1>1, <1>2

LEMMA SubmitStep ==
  ASSUME WInv, NEW t \in Tasks, WAddTask(t)
  PROVE  [Pool!Next]_(Pool!poolVars)
<1>1. WInv'
  BY AddTaskManager
<1>2. /\ t \notin added /\ added' = added \union {t}
      /\ UNCHANGED <<granted, thread, endPc>> /\ runPc' = Notified(runPc)
      /\ waiting' = InsertAt(waiting, InsertPosition(t), t)
  BY DEF WAddTask, AddTask
<1>3. Range(waiting') = Range(waiting) \union {t}
  <2>1. waiting \in Seq(Tasks) /\ InsertPosition(t) \in 1..(Len(waiting) + 1)
    BY InsertPositionExists DEF WInv, AlgoInv, TypeOK
  <2> QED BY <1>2, <2>1, RangeOfInsertAt
<1>4. Stage(t) = "new" /\ Stage(t)' = "waiting"
  BY <1>2, <1>3 DEF Stage
<1>5. [u \in Tasks |-> Stage(u)]' = [[u \in Tasks |-> Stage(u)] EXCEPT ![t] = "waiting"]
  BY <1>1, <1>2, <1>3, <1>4, OneStage
<1>6. \A u : Place(u)' = Place(u)
  BY <1>2 DEF Place
<1>7. (runPc' # "off" \/ endPc' # "off") <=> (runPc # "off" \/ endPc # "off")
  BY <1>2 DEF Notified
<1>8. Pool!Submit(t)
  BY <1>4, <1>5, <1>6, <1>7 DEF Pool!Submit
<1> QED BY <1>8 DEF Pool!Next

(* The algorithm takes one task: it begins, on a worker or without one.    *)
LEMMA BeginStep ==
  ASSUME WInv, Accounts, RunChoose
  PROVE  [Pool!Next]_(Pool!poolVars)
<1>1. WInv'
  BY ChooseManager
<1>2. PICK i \in DOMAIN waiting :
        /\ waiting' = RemoveAt(waiting, i)
        /\ Chosen(waiting[i])
  BY DEF RunChoose, ChooseTask, Chosen
<1>3. i \in 1..Len(waiting) /\ waiting \in Seq(Tasks)
  BY DEF WInv, AlgoInv, TypeOK
<1>4. PICK t \in Tasks : t = waiting[i]
  BY <1>3
<1>5. PICK g : /\ granted' = granted \union {g} /\ g.task = t
               /\ \/ g.kind # "placed"
                  \/ /\ g.kind = "placed" /\ g.resource = Best(t)
                     /\ g.index = firstFree[Best(t)][TypeOf[t]]
                     /\ TypeOf[t] \notin Ignoring /\ Candidates(t) # {}
  <2>1. CASE \E kind \in {"unplaced", "error"} : Grant(t, kind, NoResource, 0)
    <3>1. PICK kind \in {"unplaced", "error"} : Grant(t, kind, NoResource, 0)
      BY <2>1
    <3> DEFINE g == [task |-> t, kind |-> kind, resource |-> NoResource, index |-> 0]
    <3>2. granted' = granted \union {g} /\ g.task = t /\ g.kind # "placed"
      BY <3>1 DEF Grant
    <3> QED BY <3>2
  <2>2. CASE /\ TypeOf[t] \notin Ignoring /\ Candidates(t) # {}
             /\ Grant(t, "placed", Best(t), firstFree[Best(t)][TypeOf[t]])
    <3> DEFINE g == [task |-> t, kind |-> "placed", resource |-> Best(t),
                     index |-> firstFree[Best(t)][TypeOf[t]]]
    <3>1. /\ granted' = granted \union {g} /\ g.task = t /\ g.kind = "placed"
          /\ g.resource = Best(t) /\ g.index = firstFree[Best(t)][TypeOf[t]]
      BY <2>2 DEF Grant
    <3> QED BY <2>2, <3>1
  <2> QED BY <1>2, <1>4, <2>1, <2>2 DEF Chosen
<1>6. /\ UNCHANGED <<added, runPc, endPc>> /\ runPc = "choosing"
      /\ thread' = [u \in Tasks |-> IF \E h \in granted' \ granted : h.task = u THEN "running"
                                    ELSE thread[u]]
  BY DEF RunChoose
<1>7. t \in added /\ t \in Range(waiting) /\ \A h \in granted : h.task # t
  <2>1. t \in added /\ \A h \in granted : h.task # t
    BY <1>3, <1>4 DEF WInv, OncePerTask
  <2>2. t \in Range(waiting)
    BY <1>2, <1>4 DEF Range
  <2> QED BY <2>1, <2>2
<1>8. Range(waiting') = Range(waiting) \ {t}
  <2>1. \A j, k \in 1..Len(waiting) : j # k => waiting[j] # waiting[k]
    BY DEF WInv, OncePerTask
  <2> QED BY <1>2, <1>3, <1>4, <2>1, RangeOfRemoveAt
<1>9. thread'[t] = "running" /\ \A u \in Tasks : u # t => thread'[u] = thread[u]
  BY <1>5, <1>6, <1>7
<1>10. Stage(t) = "waiting" /\ Stage(t)' = "running"
  <2>1. Stage(t)' = "running"
    BY <1>5, <1>6, <1>7, <1>8, <1>9 DEF Stage
  <2> QED BY <1>7, <2>1 DEF Stage
<1>11. /\ [u \in Tasks |-> Stage(u)]' = [[u \in Tasks |-> Stage(u)] EXCEPT ![t] = "running"]
       /\ \A u \in Tasks : u # t => Place(u)' = Place(u)
  BY <1>1, <1>5, <1>6, <1>8, <1>9, <1>10, OneStage
<1>12. Pool!Begin(t)
  <2>1. (runPc' # "off" \/ endPc' # "off") <=> (runPc # "off" \/ endPc # "off")
    BY <1>6
  <2> QED BY <1>6, <1>10, <1>11, <2>1 DEF Pool!Begin
<1>13. Place(t) = <<NoResource, 0>>
  BY <1>7 DEF Place
<1>14. \A h, k \in granted' : h.task = k.task => h = k
  BY <1>1 DEF WInv, OncePerTask
<1>15. CASE g.kind # "placed"
  <2>1. Place(t)' = <<NoResource, 0>>
    BY <1>5, <1>7, <1>15 DEF Place
  <2>2. \A u \in Tasks : Place(u)' = Place(u)
    BY <1>11, <1>13, <2>1
  <2>3. Pool!RunUnplaced(t)
    BY <1>12, <2>2 DEF Pool!RunUnplaced
  <2> QED BY <2>3 DEF Pool!Next
<1>16. CASE g.kind = "placed"
  <2>1. PICK r \in Resources : /\ r = Best(t) /\ r \in Accepted[t]
                               /\ Neededs(t) + load[r] <= NbCores[r]
    BY <1>5, <1>16, BestExists DEF WInv, AlgoInv, IsSupported, IsAllocPossible
  <2>2. TypeOf[t] \in Types
    BY PlacementAssumption
  <2>3. PICK n \in Nat : n = firstFree[r][TypeOf[t]]
    BY <2>1, <2>2 DEF WInv, AlgoInv, TypeOK
  <2>4. PlaceIn(granted', t) = <<r, n>>
    BY <1>5, <1>14, <1>16, <2>1, <2>3, PlaceInIs
  <2>5. Place(t)' = <<r, n>>
    BY <2>4 DEF Place, PlaceIn
  <2>6. [u \in Tasks |-> Place(u)]' = [[u \in Tasks |-> Place(u)] EXCEPT ![t] = <<r, n>>]
    BY <1>11, <2>5
  <2>7. Pool!CoresHeld(r) + Cores[TypeOf[t]] <= NbCores[r]
    <3>1. load[r] \in Int /\ Cores[TypeOf[t]] \in Nat
      BY <2>2, PlacementAssumption DEF WInv, AlgoInv, TypeOK
    <3>2. Pool!CoresHeld(r) = load[r]
      BY CoresHeldIs
    <3> QED BY <2>1, <3>1, <3>2 DEF Neededs
  <2>8. Pool!InUse(r, TypeOf[t]) = busy[r][TypeOf[t]]
    BY <2>2, InUseIs
  <2>9. 0..(n - 1) \subseteq busy[r][TypeOf[t]]
    BY <2>2, <2>3 DEF Accounts
  <2>10. n \notin busy[r][TypeOf[t]]
    BY <2>2, <2>3 DEF WInv, AlgoInv, IndicesInUse
  <2>11. n \in {0} \union {k + 1 : k \in busy[r][TypeOf[t]]}
    <3>1. CASE n = 0
      BY <3>1
    <3>2. CASE n # 0
      <4>1. n - 1 \in busy[r][TypeOf[t]] /\ n = (n - 1) + 1
        BY <2>3, <2>9, <3>2
      <4> QED BY <4>1
    <3> QED BY <3>1, <3>2
  <2>12. Pool!Place(t)
    <3> DEFINE b == Pool!InUse(r, TypeOf[t])
               holds == [u \in Tasks |-> Place(u)]
    <3>1. TypeOf[t] \notin Ignoring
      BY <1>5, <1>16
    <3>2. n \in ({0} \union {k + 1 : k \in b}) \ b /\ 0..(n - 1) \subseteq b
      BY <2>8, <2>9, <2>10, <2>11
    <3>3. \E m \in ({0} \union {k + 1 : k \in b}) \ b :
            0..(m - 1) \subseteq b /\ holds' = [holds EXCEPT ![t] = <<r, m>>]
      BY <2>6, <3>2
    <3>4. r \in Accepted[t]
      BY <2>1
    <3> QED BY <1>12, <2>7, <3>1, <3>3, <3>4 DEF Pool!Place
  <2> QED BY <2>12 DEF Pool!Next
<1> QED BY <1>15, <1>16

(* A task ends, or lets an exception out.                                  *)
LEMMA FinishStep ==
  ASSUME WInv, WInv', NEW info \in granted, TaskPush(info) \/ TaskThrow(info)
  PROVE  [Pool!Next]_(Pool!poolVars)
<1> DEFINE t == info.task
<1>1. t \in Tasks /\ t \in added
  BY DEF WInv, AlgoInv, TypeOK, LaunchInfo, OncePerTask
<1>2. /\ UNCHANGED <<waiting, granted, added, runPc>> /\ endPc' \in {endPc, Notified(endPc)}
      /\ thread[t] = "running"
      /\ \E s \in {"pushed", "ended"} : thread' = [thread EXCEPT ![t] = s]
  BY DEF TaskPush, TaskThrow, algoVars
<1>3. thread'[t] # "running" /\ \A u \in Tasks : u # t => thread'[u] = thread[u]
  BY <1>1, <1>2 DEF WInv, WTypeOK
<1>4. t \notin Range(waiting)
  <2>1. DOMAIN waiting = 1..Len(waiting)
    BY DEF WInv, AlgoInv, TypeOK
  <2> QED BY <2>1 DEF Range, WInv, OncePerTask
<1>5. Stage(t) = "running" /\ Stage(t)' = "done"
  BY <1>1, <1>2, <1>3, <1>4 DEF Stage
<1> HIDE DEF t
<1>6. [u \in Tasks |-> Stage(u)]' = [[u \in Tasks |-> Stage(u)] EXCEPT ![t] = "done"]
  BY <1>1, <1>2, <1>3, <1>5, OneStage
<1>7. \A u : Place(u)' = Place(u)
  BY <1>2 DEF Place
<1>8. (runPc' # "off" \/ endPc' # "off") <=> (runPc # "off" \/ endPc # "off")
  BY <1>2 DEF Notified
<1>9. Pool!Finish(t)
  BY <1>1, <1>5, <1>6, <1>7, <1>8 DEF Pool!Finish
<1> QED BY <1>1, <1>9 DEF Pool!Next

(* endTasks gives the worker of a task back.                               *)
LEMMA ReleaseStep ==
  ASSUME WInv, EndDrain
  PROVE  [Pool!Next]_(Pool!poolVars)
<1>1. WInv'
  BY DrainManager
<1>2. finished # <<>> /\ Len(finished) \in Nat \ {0} /\ Head(finished) = finished[1]
  BY HeadTailProperties DEF EndDrain, WInv, WTypeOK
<1>3. PICK info \in granted : info = Head(finished)
  BY <1>2 DEF WInv, Reported
<1>4. PICK t \in Tasks : t = info.task
  BY DEF WInv, AlgoInv, TypeOK, LaunchInfo
<1>5. /\ thread[t] = "ended" /\ granted' = granted \ {info}
      /\ UNCHANGED <<waiting, added, thread, runPc, endPc>>
  BY <1>3, <1>4 DEF EndDrain, Liberate
<1>6. t \in added /\ t \notin Range(waiting) /\ \A g \in granted' : g.task # t
  <2>1. DOMAIN waiting = 1..Len(waiting)
    BY DEF WInv, AlgoInv, TypeOK
  <2>2. t \in added /\ t \notin Range(waiting)
    BY <1>4, <2>1 DEF Range, WInv, OncePerTask
  <2>3. \A g \in granted : g.task = t => g = info
    BY <1>4 DEF WInv, OncePerTask
  <2> QED BY <1>5, <2>2, <2>3
<1>7. Stage(t) = "done" /\ Stage(t)' = "released"
  BY <1>4, <1>5, <1>6 DEF Stage
<1>8. /\ [u \in Tasks |-> Stage(u)]' = [[u \in Tasks |-> Stage(u)] EXCEPT ![t] = "released"]
      /\ \A u \in Tasks : u # t => Place(u)' = Place(u)
  BY <1>1, <1>4, <1>5, <1>7, OneStage
<1>9. Place(t)' = <<NoResource, 0>>
  BY <1>6 DEF Place
<1>10. [u \in Tasks |-> Place(u)]' = [[u \in Tasks |-> Place(u)] EXCEPT ![t] = <<NoResource, 0>>]
  BY <1>8, <1>9
<1>11. (runPc' # "off" \/ endPc' # "off") <=> (runPc # "off" \/ endPc # "off")
  BY <1>5
<1>12. Pool!Release(t)
  BY <1>7, <1>8, <1>10, <1>11 DEF Pool!Release, Pool!Nothing
<1> QED BY <1>12 DEF Pool!Next

(* The last of the two threads goes off only when no task is left.         *)
LEMMA CloseStep ==
  ASSUME WInv, Lifetimes, RunRelease \/ EndRelease
  PROVE  [Pool!Next]_(Pool!poolVars)
<1>1. UNCHANGED <<waiting, granted, added, thread>>
  BY DEF RunRelease, EndRelease, algoVars
<1>2. /\ \A u : Stage(u)' = Stage(u)
      /\ \A u : Place(u)' = Place(u)
  BY <1>1 DEF Stage, Place
<1>3. runPc # "off" \/ endPc # "off"
  BY DEF RunRelease, EndRelease
<1>4. CASE runPc' # "off" \/ endPc' # "off"
  <2>1. UNCHANGED Pool!poolVars
    BY <1>1, <1>3, <1>4, QuietPool
  <2> QED BY <2>1
<1>5. CASE ~(runPc' # "off" \/ endPc' # "off")
  <2>1. granted = {} /\ waiting = <<>>
    <3>1. CASE RunRelease
      <4>1. runPc = "choosing" /\ endPc = "off"
        BY <1>5, <3>1 DEF RunRelease
      <4> QED BY <4>1 DEF Lifetimes
    <3>2. CASE EndRelease
      BY <1>5, <3>2 DEF EndRelease, Drained, RunningEmpty
    <3> QED BY <3>1, <3>2
  <2>2. Range(waiting) = {}
    BY <2>1 DEF Range
  <2>3. \A u \in Tasks : Stage(u) \in {"new", "released"}
    BY <2>1, <2>2 DEF Stage
  <2>4. Pool!Close
    BY <1>2, <1>3, <1>5, <2>3 DEF Pool!Close
  <2> QED BY <2>4 DEF Pool!Next
<1> QED BY <1>4, <1>5

LEMMA PoolStep ==
  ASSUME WInv, WInv', Accounts, Lifetimes, [WNext]_vars
  PROVE  [Pool!Next]_(Pool!poolVars)
<1>1. ASSUME NEW t \in Tasks, WAddTask(t)
      PROVE  [Pool!Next]_(Pool!poolVars)
  BY <1>1, SubmitStep
<1>2. CASE RunChoose
  BY <1>2, BeginStep
<1>3. ASSUME NEW info \in granted, TaskPush(info) \/ TaskThrow(info)
      PROVE  [Pool!Next]_(Pool!poolVars)
  BY <1>3, FinishStep
<1>4. CASE EndDrain
  BY <1>4, ReleaseStep
<1>5. CASE RunRelease \/ EndRelease
  BY <1>5, CloseStep
<1>6. CASE Start
  <2>1. UNCHANGED <<waiting, granted, added, thread>> /\ runPc' # "off"
    BY <1>6 DEF Start, algoVars
  <2>2. CASE runPc # "off" \/ endPc # "off"
    <3>1. UNCHANGED Pool!poolVars
      BY <2>1, <2>2, QuietPool
    <3> QED BY <3>1
  <2>3. CASE ~(runPc # "off" \/ endPc # "off")
    <3>1. /\ \A u : Stage(u)' = Stage(u)
          /\ \A u : Place(u)' = Place(u)
      BY <2>1 DEF Stage, Place
    <3>2. Pool!Open
      BY <2>1, <2>3, <3>1 DEF Pool!Open
    <3> QED BY <3>2 DEF Pool!Next
  <2> QED BY <2>2, <2>3
<1>7. CASE \/ \E r \in Resources : WAddResource(r)
           \/ WFreezeResources \/ StopBegin \/ Stopping \/ RunLock \/ EndLock \/ SpuriousWakeup
           \/ UNCHANGED vars
  <2>1. UNCHANGED <<waiting, granted, added, thread>>
    BY <1>7 DEF WAddResource, AddResource, WFreezeResources, StopBegin, FreezeResources,
                Stopping, StopNotify, StopReturn, RunLock, EndLock, SpuriousWakeup,
                vars, algoVars, managerVars
  <2>2. (runPc' # "off" \/ endPc' # "off") <=> (runPc # "off" \/ endPc # "off")
    BY <1>7 DEF WAddResource, WFreezeResources, StopBegin, Stopping, StopNotify, StopReturn,
                RunLock, EndLock, SpuriousWakeup, Notified, vars, managerVars
  <2>3. UNCHANGED Pool!poolVars
    BY <2>1, <2>2, QuietPool
  <2> QED BY <2>3
<1>8. ASSUME NEW info \in granted, TaskExit(info)
      PROVE  [Pool!Next]_(Pool!poolVars)
  <2>1. /\ UNCHANGED <<waiting, granted, added, runPc, endPc>>
        /\ thread[info.task] = "pushed" /\ thread' = [thread EXCEPT ![info.task] = "ended"]
    BY <1>8 DEF TaskExit, algoVars
  <2>2. \A g \in granted : g.task \in Tasks
    BY DEF WInv, AlgoInv, TypeOK, LaunchInfo
  <2>3. \A g \in granted : thread'[g.task] = "running" <=> thread[g.task] = "running"
    BY <2>1, <2>2 DEF WInv, WTypeOK
  <2>4. UNCHANGED Pool!poolVars
    BY <2>1, <2>3, QuietPool
  <2> QED BY <2>4
<1> QED BY <1>1, <1>2, <1>3, <1>4, <1>5, <1>6, <1>7, <1>8
        DEF WNext, RunThread, EndThread, TaskThread, ClientDone

(* The workload manager, seen by its client, is a TaskPool: each submitted *)
(* task is run once, on the first free worker of a resource with room for  *)
(* it, and the pool is closed only when no task is left.  No hypothesis on *)
(* the tasks, the resources or the order of the calls.                     *)
THEOREM ManagerIsTaskPool == WSpec => IsTaskPool
<1>1. WInit => Pool!Init
  <2> SUFFICES ASSUME WInit PROVE Pool!Init
    OBVIOUS
  <2>1. \A u \in Tasks : Stage(u) = "new" /\ Place(u) = <<NoResource, 0>>
    BY DEF WInit, Init, Stage, Place
  <2>2. ~(runPc # "off" \/ endPc # "off")
    BY DEF WInit
  <2> QED BY <2>1, <2>2 DEF Pool!Init, Pool!Nothing
<1>2. WInit => Lifetimes
  BY DEF WInit, Lifetimes
<1>3. WInv /\ Lifetimes /\ [WNext]_vars => Lifetimes'
  BY LifetimesStep
<1>4. WInv /\ WInv' /\ Accounts /\ Lifetimes /\ [WNext]_vars => [Pool!Next]_(Pool!poolVars)
  BY PoolStep
<1> QED BY <1>1, <1>2, <1>3, <1>4, AccountsCorrect, PTL DEF WSpec, IsTaskPool, Pool!Spec
=============================================================================
