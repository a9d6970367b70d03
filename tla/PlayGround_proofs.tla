-------------------------- MODULE PlayGround_proofs ---------------------------
(***************************************************************************)
(* The cores that homogeneous pools share, for any number of tasks, pools  *)
(* and cores: proofs about PlayGround, on one machine and with pools that  *)
(* differ by the width of their workers.  Otherwise release looks for a    *)
(* worker on the wrong machine (PlayGround.cxx:212) or in the wrong pool   *)
(* (Executor.cxx:1332), and both properties are false.                     *)
(***************************************************************************)
EXTENDS PlayGround, FunctionTheorems, FiniteSetTheorems, TLAPS

(* One machine, and a width that tells the pool: the filter groups by      *)
(* width, and release takes the first machine with enough workers.         *)
Plain ==
  /\ NbMachines = 1
  /\ \A c, d \in Containers : Width[c] = Width[d] => c = d

(* The chunk of a worker, on the only machine.                             *)
Cell(i, w) == Chunk(1, i, w)

NbCells(w) == NbWorkers(1, w)

LEMMA NoOffset ==
  ASSUME NEW w
  PROVE  Offset(1, w) = 0
<1> DEFINE body(h) == [s \in SUBSET {} |-> IF s = {} THEN 0
                         ELSE LET x == CHOOSE x \in s : TRUE
                              IN  NbWorkers(x, w) + h[s \ {x}]]
           k == CHOOSE h : h = body(h)
<1>1. 1..(1 - 1) = {}
  OBVIOUS
<1>2. Offset(1, w) = k[{}]
  BY <1>1 DEF Offset, MapThenSumSet, MapThenFoldSet
<1>3. k = body(k)
  <2> DEFINE h == [s \in SUBSET {} |-> 0]
  <2>1. h = body(h)
    OBVIOUS
  <2> HIDE DEF h, body
  <2> QED BY <2>1
<1>4. k[{}] = 0
  <2> HIDE DEF k
  <2> QED BY <1>3
<1> QED BY <1>2, <1>4

LEMMA CellsType ==
  ASSUME Plain, NEW w \in Nat \ {0}
  PROVE  NbCells(w) \in Int
<1>1. NbCores[1] \in Nat
  BY PlayGroundAssumption DEF Plain, Machines
<1>2. \A n \in Nat, v \in Nat \ {0} : n \div v \in Int
  OBVIOUS
<1> QED BY <1>1, <1>2 DEF NbCells, NbWorkers

LEMMA FreeIdsAre ==
  ASSUME Plain, NEW w \in Nat \ {0}
  PROVE  FreeIds(w) = {i \in 0..(NbCells(w) - 1) : Cell(i, w) \intersect occupied = {}}
<1>1. Machines = {1}
  BY DEF Plain, Machines
<1>2. FreeIds(w) = {Offset(1, w) + i : i \in FreeChunks(1, w)}
  BY <1>1 DEF FreeIds
<1>3. \A i \in 0..(NbCells(w) - 1) : 0 + i = i
  BY CellsType
<1>4. FreeChunks(1, w) = {i \in 0..(NbCells(w) - 1) : Cell(i, w) \intersect occupied = {}}
  BY DEF FreeChunks, NbCells, Cell
<1> HIDE DEF NbCells, Cell
<1> QED BY <1>2, <1>3, <1>4, NoOffset

LEMMA CoresOfAre ==
  ASSUME Plain, NEW w \in Nat \ {0}, NEW i \in 0..(NbCells(w) - 1)
  PROVE  CoresOf(i, w) = Cell(i, w)
<1>1. Machines = {1}
  BY DEF Plain, Machines
<1>2. 0 + NbWorkers(1, w) - 1 = NbCells(w) - 1 /\ i - 0 = i
  BY CellsType DEF NbCells
<1>3. {r \in Machines : i \in Offset(r, w)..(Offset(r, w) + NbWorkers(r, w) - 1)} = {1}
  BY <1>1, <1>2, NoOffset
<1>4. CoresOf(i, w) = Chunk(1, i - Offset(1, w), w)
  BY <1>3 DEF CoresOf
<1> QED BY <1>2, <1>4, NoOffset DEF Cell

(* The chunks of one width do not overlap, and none is empty.              *)
LEMMA CellsDiffer ==
  ASSUME NEW w \in Nat \ {0}, NEW i \in Nat, NEW j \in Nat, i # j
  PROVE  Cell(i, w) \intersect Cell(j, w) = {}
<1>1. \A a, b \in Nat : a < b => a * w + w <= b * w
  <2> SUFFICES ASSUME NEW a \in Nat, NEW b \in Nat, a < b PROVE a * w + w <= b * w
    OBVIOUS
  <2>1. (a + 1) * w <= b * w
    OBVIOUS
  <2> QED BY <2>1
<1>2. i * w \in Nat /\ j * w \in Nat
  OBVIOUS
<1>3. \A x \in (i * w)..(i * w + w - 1) : x \notin (j * w)..(j * w + w - 1)
  <2>1. CASE i < j
    BY <1>1, <1>2, <2>1
  <2>2. CASE j < i
    BY <1>1, <1>2, <2>2
  <2> QED BY <2>1, <2>2
<1> QED BY <1>3 DEF Cell, Chunk

LEMMA CellNotEmpty ==
  ASSUME NEW w \in Nat \ {0}, NEW i \in Nat
  PROVE  Cell(i, w) # {}
<1>1. i * w \in (i * w)..(i * w + w - 1)
  <2>1. i * w \in Nat
    OBVIOUS
  <2> QED BY <2>1
<1>2. <<1, i * w>> \in Cell(i, w)
  BY <1>1 DEF Cell, Chunk
<1> QED BY <1>2

(* Of n free chunks or more, exactly n have fewer than n below: so many    *)
(* tasks, and no more, are given one.                                      *)
LEMMA FirstAreFew ==
  ASSUME NEW F \in SUBSET Int, IsFiniteSet(F), NEW n \in Nat
  PROVE  LET first == {i \in F : Cardinality({j \in F : j < i}) < n}
         IN  IsFiniteSet(first) /\ Cardinality(first) <= n
<1> DEFINE Below(i) == {j \in F : j < i}
           first == {i \in F : Cardinality(Below(i)) < n}
           rank == [i \in first |-> Cardinality(Below(i))]
<1>1. \A i \in F : IsFiniteSet(Below(i)) /\ Cardinality(Below(i)) \in Nat
  <2> TAKE i \in F
  <2>1. Below(i) \subseteq F
    OBVIOUS
  <2> HIDE DEF Below
  <2> QED BY <2>1, FS_Subset, FS_CardinalityType
<1>2. ASSUME NEW i \in F, NEW j \in F, i < j
      PROVE  Cardinality(Below(i)) < Cardinality(Below(j))
  <2>1. Below(i) \union {i} \subseteq Below(j) /\ i \notin Below(i)
    <3>1. i \in Int /\ j \in Int /\ \A k \in F : k \in Int
      OBVIOUS
    <3>2. \A k \in F : k < i => k < j
      BY <1>2, <3>1
    <3>3. ~(i < i)
      BY <3>1
    <3> QED BY <1>2, <3>2, <3>3
  <2> HIDE DEF Below
  <2>2. /\ IsFiniteSet(Below(i) \union {i})
        /\ Cardinality(Below(i) \union {i}) = Cardinality(Below(i)) + 1
    BY <1>1, <2>1, FS_AddElement
  <2>3. Cardinality(Below(i) \union {i}) <= Cardinality(Below(j))
    BY <1>1, <2>1, FS_Subset
  <2> QED BY <1>1, <2>2, <2>3
<1>3. IsFiniteSet(first)
  BY FS_Subset
<1>4. IsFiniteSet(0..(n - 1)) /\ Cardinality(0..(n - 1)) = n
  <2>1. 0 \in Int /\ n - 1 \in Int /\ (n - 1) - 0 + 1 = n /\ (0 > n - 1 <=> n = 0)
    OBVIOUS
  <2> QED BY <2>1, FS_Interval
<1>5. rank \in Injection(first, 0..(n - 1))
  <2>1. \A i \in first : Cardinality(Below(i)) \in 0..(n - 1)
    BY <1>1
  <2>2. \A i, j \in first : i # j => Cardinality(Below(i)) # Cardinality(Below(j))
    <3> SUFFICES ASSUME NEW i \in first, NEW j \in first, i < j
                 PROVE  Cardinality(Below(i)) # Cardinality(Below(j))
      OBVIOUS
    <3>1. i \in F /\ j \in F
      OBVIOUS
    <3> HIDE DEF Below
    <3> QED BY <1>1, <1>2, <3>1
  <2> HIDE DEF Below
  <2> QED BY <2>1, <2>2 DEF Injection, IsInjective
<1> HIDE DEF rank
<1>6. Cardinality(first) <= n
  BY <1>4, <1>5, FS_Injection
<1> QED BY <1>3, <1>6

-----------------------------------------------------------------------------

CellOf(c, e) == Cell(e[2], Width[c])

(* A working task has one worker, of its own pool; the workers have the    *)
(* occupied cores to themselves.                                           *)
PlayGroundInv ==
  /\ working \in [Containers -> SUBSET (Tasks \X Nat)]
  /\ ready \subseteq Tasks
  /\ thrown = FALSE
  /\ \A c \in Containers : \A e \in working[c] :
       /\ ContainerOf[e[1]] = c /\ e[1] \notin ready
       /\ e[2] \in 0..(NbCells(Width[c]) - 1)
       /\ CellOf(c, e) \subseteq occupied
  /\ \A c \in Containers : \A e, f \in working[c] : e[1] = f[1] => e = f
  /\ \A x \in occupied : \E c \in Containers : \E e \in working[c] : x \in CellOf(c, e)
  /\ \A c, d \in Containers : \A e \in working[c], f \in working[d] :
       c # d \/ e # f => CellOf(c, e) \intersect CellOf(d, f) = {}

LEMMA PlayGroundInit == Init => PlayGroundInv
BY DEF Init, PlayGroundInv

(* A group is given the first free workers: none of them is in use, and    *)
(* each of them goes to one task of the group.                             *)
LEMMA AllocateGives ==
  ASSUME Plain, PlayGroundInv, NEW group \in SUBSET ready, NEW via \in Containers,
         Allocate(group, via)
  PROVE  \E chosen, ids, f :
           /\ chosen \in SUBSET group /\ f \in [chosen -> ids]
           /\ ids \subseteq FreeIds(Width[via])
           /\ \A t, u \in chosen : f[t] = f[u] => t = u
           /\ \A id \in ids : \E t \in chosen : f[t] = id
           /\ ready' = ready \ chosen /\ UNCHANGED thrown
           /\ working' = [working EXCEPT ![via] = @ \union {<<t, f[t]>> : t \in chosen}]
           /\ occupied' = occupied \union UNION {CoresOf(id, Width[via]) : id \in ids}
<1> DEFINE w == Width[via]
           n == IF Cardinality(group) < NumberOfFreePlace(w)
                  THEN Cardinality(group) ELSE NumberOfFreePlace(w)
           ids == FirstFree(w, n)
<1>1. w \in Nat \ {0}
  BY PlayGroundAssumption
<1> HIDE DEF w, n
<1>2. /\ FreeIds(w) = {i \in 0..(NbCells(w) - 1) : Cell(i, w) \intersect occupied = {}}
      /\ NbCells(w) \in Int
  BY <1>1, FreeIdsAre, CellsType
<1>3. FreeIds(w) \in SUBSET Int /\ IsFiniteSet(FreeIds(w))
  <2>1. IsFiniteSet(0..(NbCells(w) - 1))
    BY <1>2, FS_Interval
  <2>2. FreeIds(w) \subseteq 0..(NbCells(w) - 1)
    BY <1>2
  <2> QED BY <1>2, <2>1, <2>2, FS_Subset
<1>4. ids = {i \in FreeIds(w) : Cardinality({j \in FreeIds(w) : j < i}) < n}
  BY DEF FirstFree
<1> HIDE DEF ids
<1>5. ids \subseteq FreeIds(w) /\ IsFiniteSet(ids)
  <2>1. ids \subseteq FreeIds(w)
    BY <1>4
  <2> QED BY <1>3, <2>1, FS_Subset
<1>6. ids \intersect Busy(via) = {}
  <2> SUFFICES ASSUME NEW e \in working[via], e[2] \in ids PROVE FALSE
    BY DEF Busy
  <2>1. Cell(e[2], w) \subseteq occupied
    BY DEF PlayGroundInv, CellOf, w
  <2>2. e[2] \in Nat /\ Cell(e[2], w) \intersect occupied = {}
    BY <1>2, <1>5
  <2>3. Cell(e[2], w) # {}
    BY <1>1, <2>2, CellNotEmpty
  <2> QED BY <2>1, <2>2, <2>3
<1>7. PICK chosen, f :
        /\ chosen \in SUBSET group /\ f \in OneToOne(chosen, ids)
        /\ Cardinality(chosen) = n
        /\ ready' = ready \ chosen /\ UNCHANGED thrown
        /\ working' = [working EXCEPT ![via] = @ \union {<<t, f[t]>> : t \in chosen}]
        /\ occupied' = occupied \union UNION {CoresOf(id, w) : id \in ids}
  BY <1>6 DEF Allocate, w, n, ids
<1>8. f \in [chosen -> ids] /\ \A t, u \in chosen : f[t] = f[u] => t = u
  BY <1>7 DEF OneToOne
<1>9. f \in Injection(chosen, ids)
  BY <1>8 DEF Injection, IsInjective
<1>10. n \in Nat /\ n <= Cardinality(ids) /\ Cardinality(ids) \in Nat
       /\ (Cardinality(chosen) = Cardinality(ids) <=> f \in Surjection(chosen, ids))
  <2>1. IsFiniteSet(chosen) /\ Cardinality(chosen) <= Cardinality(ids)
        /\ (Cardinality(chosen) = Cardinality(ids) <=> f \in Surjection(chosen, ids))
    BY <1>5, <1>9, FS_Injection
  <2> QED BY <1>5, <1>7, <2>1, FS_CardinalityType
<1>11. Cardinality(ids) <= n
  BY <1>3, <1>4, <1>10, FirstAreFew
<1>12. f \in Surjection(chosen, ids)
  BY <1>7, <1>10, <1>11
<1>13. \A id \in ids : \E t \in chosen : f[t] = id
  BY <1>12 DEF Surjection
<1> QED BY <1>5, <1>7, <1>8, <1>13 DEF w

LEMMA AllocateKeeps ==
  ASSUME Plain, PlayGroundInv, NEW group \in SUBSET ready, NEW via \in Containers,
         Allocate(group, via)
  PROVE  PlayGroundInv'
<1> DEFINE w == Width[via]
<1>1. w \in Nat \ {0}
  BY PlayGroundAssumption
<1>2. PICK chosen, ids, f :
        /\ chosen \in SUBSET group /\ f \in [chosen -> ids]
        /\ ids \subseteq FreeIds(w)
        /\ \A t, u \in chosen : f[t] = f[u] => t = u
        /\ \A id \in ids : \E t \in chosen : f[t] = id
        /\ ready' = ready \ chosen /\ UNCHANGED thrown
        /\ working' = [working EXCEPT ![via] = @ \union {<<t, f[t]>> : t \in chosen}]
        /\ occupied' = occupied \union UNION {CoresOf(id, w) : id \in ids}
  BY AllocateGives
<1>3. \A id \in ids : /\ id \in 0..(NbCells(w) - 1) /\ id \in Nat
                      /\ Cell(id, w) \intersect occupied = {} /\ CoresOf(id, w) = Cell(id, w)
  <2>1. \A id \in ids : id \in 0..(NbCells(w) - 1) /\ Cell(id, w) \intersect occupied = {}
    BY <1>1, <1>2, FreeIdsAre
  <2>2. \A id \in ids : CoresOf(id, w) = Cell(id, w)
    BY <1>1, <2>1, CoresOfAre
  <2> QED BY <2>1, <2>2
<1>4. \A t \in group : t \in Tasks /\ t \in ready /\ ContainerOf[t] = via
  <2>1. \A t \in group : Width[ContainerOf[t]] = w
    BY DEF Allocate
  <2>2. \A t \in group : t \in Tasks /\ t \in ready /\ ContainerOf[t] \in Containers
    BY PlayGroundAssumption DEF PlayGroundInv
  <2> QED BY <2>1, <2>2 DEF Plain
<1> DEFINE new == {<<t, f[t]>> : t \in chosen}
<1>5. \A t \in chosen : t \in group /\ f[t] \in ids
  BY <1>2
<1>6. \A e \in new : /\ e \in Tasks \X Nat /\ e[1] \in chosen /\ e[2] \in ids
                     /\ e[2] = f[e[1]]
  BY <1>3, <1>4, <1>5
<1>7. \A c \in Containers : working'[c] = IF c = via THEN working[c] \union new ELSE working[c]
  <2>1. working \in [Containers -> SUBSET (Tasks \X Nat)]
    BY DEF PlayGroundInv
  <2>2. working' = [working EXCEPT ![via] = @ \union new]
    BY <1>2
  <2> HIDE DEF new
  <2> QED BY <2>1, <2>2
<1>8. \A x : x \in occupied' <=> x \in occupied \/ \E e \in new : x \in CellOf(via, e)
  <2>1. \A x : x \in occupied' <=> x \in occupied \/ \E id \in ids : x \in Cell(id, w)
    BY <1>2, <1>3
  <2>2. \A id \in ids : \E e \in new : e[2] = id
    <3> TAKE id \in ids
    <3>1. PICK t \in chosen : f[t] = id
      BY <1>2
    <3>2. <<t, f[t]>> \in new /\ <<t, f[t]>>[2] = id
      BY <3>1
    <3> HIDE DEF new
    <3> QED BY <3>2
  <2>3. \A e \in new : CellOf(via, e) = Cell(e[2], w)
    BY DEF CellOf
  <2> HIDE DEF new, w
  <2> QED BY <1>6, <2>1, <2>2, <2>3
<1>9. \A e \in new : CellOf(via, e) \intersect occupied = {}
  BY <1>3, <1>6 DEF CellOf
<1>10. \A e, g \in new : e # g => CellOf(via, e) \intersect CellOf(via, g) = {}
  <2> SUFFICES ASSUME NEW e \in new, NEW g \in new, e # g
               PROVE  CellOf(via, e) \intersect CellOf(via, g) = {}
    OBVIOUS
  <2>1. e[2] # g[2] /\ e[2] \in Nat /\ g[2] \in Nat
    BY <1>2, <1>3, <1>6
  <2> HIDE DEF new
  <2> QED BY <1>1, <2>1, CellsDiffer DEF CellOf
<1>11. \A e \in new : CellOf(via, e) \subseteq occupied'
  BY <1>8
<1> HIDE DEF new, w
<1>12. working' \in [Containers -> SUBSET (Tasks \X Nat)]
  BY <1>2, <1>6, <1>7 DEF PlayGroundInv
<1>13. ready' \subseteq Tasks /\ thrown' = FALSE
  BY <1>2 DEF PlayGroundInv
<1>14. ASSUME NEW c \in Containers, NEW e \in working'[c]
       PROVE  /\ ContainerOf[e[1]] = c /\ e[1] \notin ready'
              /\ e[2] \in 0..(NbCells(Width[c]) - 1)
              /\ CellOf(c, e) \subseteq occupied'
  <2>1. CASE e \in working[c]
    BY <1>2, <1>8, <2>1 DEF PlayGroundInv
  <2>2. CASE c = via /\ e \in new
    BY <1>2, <1>3, <1>4, <1>6, <1>11, <2>2 DEF w
  <2> QED BY <1>7, <2>1, <2>2
<1>15. ASSUME NEW c \in Containers, NEW e \in working'[c], NEW g \in working'[c], e[1] = g[1]
       PROVE  e = g
  <2>1. \A h \in new : h[1] \in ready /\ h = <<h[1], f[h[1]]>>
    <3> TAKE h \in new
    <3>1. PICK t \in chosen : h = <<t, f[t]>>
      BY DEF new
    <3>2. t \in ready
      BY <1>4, <1>5
    <3> QED BY <3>1, <3>2
  <2>2. \A h \in working[c] : h[1] \notin ready
    BY DEF PlayGroundInv
  <2>3. CASE e \in working[c] /\ g \in working[c]
    BY <1>15, <2>3 DEF PlayGroundInv
  <2>4. CASE e \in new /\ g \in new
    BY <1>15, <2>1, <2>4
  <2> QED BY <1>7, <1>15, <2>1, <2>2, <2>3, <2>4
<1>16. ASSUME NEW x \in occupied'
       PROVE  \E c \in Containers : \E e \in working'[c] : x \in CellOf(c, e)
  <2>1. CASE x \in occupied
    <3>1. PICK c \in Containers : \E e \in working[c] : x \in CellOf(c, e)
      BY <2>1 DEF PlayGroundInv
    <3> QED BY <1>7, <3>1
  <2>2. CASE \E e \in new : x \in CellOf(via, e)
    BY <1>7, <2>2
  <2> QED BY <1>8, <2>1, <2>2
<1>17. ASSUME NEW c \in Containers, NEW d \in Containers,
              NEW e \in working'[c], NEW g \in working'[d], c # d \/ e # g
       PROVE  CellOf(c, e) \intersect CellOf(d, g) = {}
  <2>1. CASE e \in working[c] /\ g \in working[d]
    BY <1>17, <2>1 DEF PlayGroundInv
  <2>2. CASE e \in working[c] /\ d = via /\ g \in new
    <3>1. CellOf(c, e) \subseteq occupied
      BY <2>2 DEF PlayGroundInv
    <3> QED BY <1>9, <2>2, <3>1
  <2>3. CASE g \in working[d] /\ c = via /\ e \in new
    <3>1. CellOf(d, g) \subseteq occupied
      BY <2>3 DEF PlayGroundInv
    <3> QED BY <1>9, <2>3, <3>1
  <2>4. CASE c = via /\ d = via /\ e \in new /\ g \in new
    BY <1>10, <1>17, <2>4
  <2> QED BY <1>7, <2>1, <2>2, <2>3, <2>4
<1>18. \A c \in Containers : \A e : CellOf(c, e)' = CellOf(c, e)
  BY DEF CellOf, Cell, Chunk
<1>19. \A c \in Containers : NbCells(Width[c])' = NbCells(Width[c])
  BY DEF NbCells, NbWorkers
<1> QED BY <1>12, <1>13, <1>14, <1>15, <1>16, <1>17, <1>18, <1>19 DEF PlayGroundInv

(* The worker of a task is found on the only machine, with its cores.      *)
LEMMA ReleaseGives ==
  ASSUME Plain, PlayGroundInv, NEW t \in Tasks, Release(t)
  PROVE  \E entry \in working[ContainerOf[t]] :
           /\ entry[1] = t /\ UNCHANGED <<ready, thrown>>
           /\ working' = [working EXCEPT ![ContainerOf[t]] = @ \ {entry}]
           /\ occupied' = occupied \ CellOf(ContainerOf[t], entry)
<1> DEFINE c == ContainerOf[t]
           w == Width[c]
           entries == {entry \in working[c] : entry[1] = t}
<1>1. c \in Containers /\ w \in Nat \ {0}
  BY PlayGroundAssumption
<1>2. entries # {}
  <2>1. PICK d \in Containers : \E entry \in working[d] : entry[1] = t
    BY DEF Release
  <2>2. d = c
    BY <2>1 DEF PlayGroundInv
  <2> QED BY <2>1, <2>2
<1>3. PICK entry \in entries : ReleaseChunk(entry[2], w)
  BY <1>2 DEF Release
<1>4. /\ working' = [working EXCEPT ![c] = @ \ entries]
      /\ UNCHANGED ready
  BY <1>2 DEF Release
<1>5. entry \in working[c] /\ entry[1] = t
  OBVIOUS
<1>6. entries = {entry}
  BY <1>1, <1>5 DEF PlayGroundInv
<1>7. /\ entry[2] \in 0..(NbCells(w) - 1) /\ CellOf(c, entry) \subseteq occupied
  BY <1>1, <1>5 DEF PlayGroundInv
<1> DEFINE found == {r \in Machines : entry[2] < NbWorkers(r, w)}
<1>8. found = {1}
  <2>1. Machines = {1}
    BY DEF Plain, Machines
  <2>2. entry[2] < NbWorkers(1, w)
    BY <1>1, <1>7, CellsType DEF NbCells
  <2> QED BY <2>1, <2>2
<1>9. Min(found) = 1
  BY <1>8 DEF Min
<1>10. occupied' = occupied \ CellOf(c, entry) /\ UNCHANGED thrown
  <2>1. Chunk(Min(found), entry[2], w) = CellOf(c, entry)
    BY <1>9 DEF CellOf, Cell
  <2>2. found # {}
    BY <1>8
  <2>3. Chunk(Min(found), entry[2], w) \subseteq occupied
    BY <1>7, <2>1
  <2>4. occupied' = occupied \ Chunk(Min(found), entry[2], w) /\ UNCHANGED thrown
    BY <1>3, <2>2, <2>3 DEF ReleaseChunk
  <2> QED BY <2>1, <2>4
<1> QED BY <1>4, <1>5, <1>6, <1>10

LEMMA ReleaseKeeps ==
  ASSUME Plain, PlayGroundInv, NEW t \in Tasks, Release(t)
  PROVE  PlayGroundInv'
<1> DEFINE via == ContainerOf[t]
<1>1. via \in Containers
  BY PlayGroundAssumption
<1>2. PICK entry \in working[via] :
        /\ entry[1] = t /\ UNCHANGED <<ready, thrown>>
        /\ working' = [working EXCEPT ![via] = @ \ {entry}]
        /\ occupied' = occupied \ CellOf(via, entry)
  BY ReleaseGives
<1> HIDE DEF via
<1>3. \A c \in Containers : working'[c] = IF c = via THEN working[c] \ {entry} ELSE working[c]
  BY <1>2 DEF PlayGroundInv
<1>4. working' \in [Containers -> SUBSET (Tasks \X Nat)]
  BY <1>2, <1>3 DEF PlayGroundInv
<1>5. \A c \in Containers : \A e \in working'[c] : e \in working[c] /\ (c # via \/ e # entry)
  BY <1>3
<1>6. ready' \subseteq Tasks /\ thrown' = FALSE
  BY <1>2 DEF PlayGroundInv
<1>7. ASSUME NEW c \in Containers, NEW e \in working'[c]
      PROVE  /\ ContainerOf[e[1]] = c /\ e[1] \notin ready'
             /\ e[2] \in 0..(NbCells(Width[c]) - 1)
             /\ CellOf(c, e) \subseteq occupied'
  <2>1. /\ ContainerOf[e[1]] = c /\ e[1] \notin ready'
        /\ e[2] \in 0..(NbCells(Width[c]) - 1)
        /\ CellOf(c, e) \subseteq occupied
    BY <1>2, <1>5 DEF PlayGroundInv
  <2>2. CellOf(c, e) \intersect CellOf(via, entry) = {}
    BY <1>1, <1>5 DEF PlayGroundInv
  <2> QED BY <1>2, <2>1, <2>2
<1>8. \A c \in Containers : \A e, f \in working'[c] : e[1] = f[1] => e = f
  BY <1>5 DEF PlayGroundInv
<1>9. ASSUME NEW x \in occupied'
      PROVE  \E c \in Containers : \E e \in working'[c] : x \in CellOf(c, e)
  <2>1. x \in occupied /\ x \notin CellOf(via, entry)
    BY <1>2
  <2>2. PICK c \in Containers : \E e \in working[c] : x \in CellOf(c, e)
    BY <2>1 DEF PlayGroundInv
  <2>3. PICK e \in working[c] : x \in CellOf(c, e)
    BY <2>2
  <2>4. c # via \/ e # entry
    BY <2>1, <2>3
  <2>5. e \in working'[c]
    BY <1>3, <2>4
  <2> QED BY <2>3, <2>5
<1>10. \A c, d \in Containers : \A e \in working'[c], f \in working'[d] :
         c # d \/ e # f => CellOf(c, e) \intersect CellOf(d, f) = {}
  BY <1>5 DEF PlayGroundInv
<1>11. \A c \in Containers : \A e : CellOf(c, e)' = CellOf(c, e)
  BY DEF CellOf, Cell, Chunk
<1>12. \A c \in Containers : NbCells(Width[c])' = NbCells(Width[c])
  BY DEF NbCells, NbWorkers
<1> QED BY <1>4, <1>6, <1>7, <1>8, <1>9, <1>10, <1>11, <1>12 DEF PlayGroundInv

LEMMA PlayGroundInvariant ==
  ASSUME Plain
  PROVE  Spec => []PlayGroundInv
<1>1. Init => PlayGroundInv
  BY PlayGroundInit
<1>2. PlayGroundInv /\ [Next]_pgVars => PlayGroundInv'
  <2> SUFFICES ASSUME PlayGroundInv, [Next]_pgVars PROVE PlayGroundInv'
    OBVIOUS
  <2>1. CASE Next
    BY <2>1, AllocateKeeps, ReleaseKeeps DEF Next
  <2>2. CASE UNCHANGED pgVars
    BY <2>2 DEF pgVars, PlayGroundInv, CellOf, Cell, Chunk, NbCells, NbWorkers
  <2> QED BY <2>1, <2>2
<1> QED BY <1>1, <1>2, PTL DEF Spec

(* The cores of the workers in use are the occupied ones, and no core is   *)
(* of two workers, whatever the widths of the pools and the order in which *)
(* tasks end.                                                              *)
THEOREM CoresAreOfWorkers ==
  ASSUME Plain
  PROVE  Spec => []CoresOfWorkingTasks
<1>1. PlayGroundInv => CoresOfWorkingTasks
  <2> SUFFICES ASSUME PlayGroundInv PROVE CoresOfWorkingTasks
    OBVIOUS
  <2>1. \A c \in Containers : \A e \in working[c] :
          <<c, e>> \in Workers /\ CoresOfWorker(<<c, e>>) = CellOf(c, e)
    <3> TAKE c \in Containers
    <3> TAKE e \in working[c]
    <3>1. Width[c] \in Nat \ {0} /\ e[2] \in 0..(NbCells(Width[c]) - 1)
      BY PlayGroundAssumption DEF PlayGroundInv
    <3>2. CoresOf(e[2], Width[c]) = CellOf(c, e)
      BY <3>1, CoresOfAre DEF CellOf
    <3> QED BY <3>2 DEF CoresOfWorker, Workers
  <2>2. \A k \in Workers : \E c \in Containers : \E e \in working[c] : k = <<c, e>>
    BY DEF Workers
  <2>3. occupied = UNION {CoresOfWorker(k) : k \in Workers}
    <3>1. \A x \in occupied : \E k \in Workers : x \in CoresOfWorker(k)
      <4> TAKE x \in occupied
      <4>1. PICK c \in Containers : \E e \in working[c] : x \in CellOf(c, e)
        BY DEF PlayGroundInv
      <4>2. PICK e \in working[c] : x \in CellOf(c, e)
        BY <4>1
      <4> QED BY <2>1, <4>2
    <3>2. \A k \in Workers : CoresOfWorker(k) \subseteq occupied
      <4> TAKE k \in Workers
      <4>1. PICK c \in Containers : \E e \in working[c] : k = <<c, e>>
        BY <2>2
      <4> QED BY <2>1, <4>1 DEF PlayGroundInv
    <3> QED BY <3>1, <3>2
  <2>4. ASSUME NEW k \in Workers, NEW l \in Workers, k # l
        PROVE  CoresOfWorker(k) \intersect CoresOfWorker(l) = {}
    <3>1. PICK c \in Containers : \E e \in working[c] : k = <<c, e>>
      BY <2>2
    <3>2. PICK e \in working[c] : k = <<c, e>>
      BY <3>1
    <3>3. PICK d \in Containers : \E f \in working[d] : l = <<d, f>>
      BY <2>2
    <3>4. PICK f \in working[d] : l = <<d, f>>
      BY <3>3
    <3>5. c # d \/ e # f
      BY <2>4, <3>2, <3>4
    <3>6. CellOf(c, e) \intersect CellOf(d, f) = {}
      BY <3>5 DEF PlayGroundInv
    <3> QED BY <2>1, <3>2, <3>4, <3>6
  <2> QED BY <2>3, <2>4 DEF CoresOfWorkingTasks
<1> QED BY <1>1, PlayGroundInvariant, PTL

(* Neither the table of workers nor the playground meets a worker or a     *)
(* core it did not expect.                                                 *)
THEOREM NothingThrows ==
  ASSUME Plain
  PROVE  Spec => []NeverThrows
<1>1. PlayGroundInv => NeverThrows
  BY DEF PlayGroundInv, NeverThrows
<1> QED BY <1>1, PlayGroundInvariant, PTL
=============================================================================
