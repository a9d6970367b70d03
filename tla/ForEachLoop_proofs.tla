------------------------- MODULE ForEachLoop_proofs -------------------------
(***************************************************************************)
(* Every result of a ForEachLoop reaches the rank of its sample, over all  *)
(* its runs, for any number of samples, branches and runs.                 *)
(***************************************************************************)
EXTENDS ForEachLoop, FiniteSetTheorems, TLAPS

-----------------------------------------------------------------------------
(* The ranks in a set of integers: At(S, l) is the inverse of Pos(S, q).   *)

Pos(S, q) == Cardinality({x \in S : x < q})

LEMMA PosType ==
  ASSUME NEW S, IsFiniteSet(S), NEW q
  PROVE  /\ IsFiniteSet({x \in S : x < q})
         /\ Pos(S, q) \in Nat
<1> DEFINE L == {x \in S : x < q}
<1>1. L \subseteq S
  OBVIOUS
<1> HIDE DEF L
<1>2. IsFiniteSet(L)
  BY <1>1, FS_Subset
<1>3. Cardinality(L) \in Nat
  BY <1>2, FS_CardinalityType
<1> QED
  BY <1>2, <1>3 DEF L, Pos

LEMMA PosIncreases ==
  ASSUME NEW S \in SUBSET Int, IsFiniteSet(S), NEW p \in S, NEW q \in S, p < q
  PROVE  Pos(S, p) < Pos(S, q)
<1> DEFINE P == {x \in S : x < p}
           Q == {x \in S : x < q}
<1>1. /\ IsFiniteSet(P) /\ Cardinality(P) \in Nat
      /\ IsFiniteSet(Q) /\ Cardinality(Q) \in Nat
  BY PosType DEF Pos
<1>2. P \subseteq Q \ {p} /\ p \in Q
  <2>1. \A x \in S : x \in Int
    OBVIOUS
  <2>2. ASSUME NEW x \in P PROVE x \in Q \ {p}
    BY <2>1, <2>2
  <2> QED
    BY <2>2
<1>3. Pos(S, p) = Cardinality(P) /\ Pos(S, q) = Cardinality(Q)
  BY DEF Pos
<1> HIDE DEF P, Q
<1>4. IsFiniteSet(Q \ {p}) /\ Cardinality(Q \ {p}) = Cardinality(Q) - 1
  BY <1>1, <1>2, FS_RemoveElement
<1>5. Cardinality(P) <= Cardinality(Q \ {p})
  BY <1>2, <1>4, FS_Subset
<1> QED
  BY <1>1, <1>3, <1>4, <1>5

LEMMA PosInjective ==
  ASSUME NEW S \in SUBSET Int, IsFiniteSet(S), NEW p \in S, NEW q \in S,
         Pos(S, p) = Pos(S, q)
  PROVE  p = q
<1>1. Pos(S, p) \in Nat
  BY PosType
<1>2. ~(p < q)
  BY <1>1, PosIncreases
<1>3. ~(q < p)
  BY <1>1, PosIncreases
<1>4. p \in Int /\ q \in Int
  OBVIOUS
<1> QED
  BY <1>2, <1>3, <1>4

LEMMA PosBound ==
  ASSUME NEW S \in SUBSET Int, IsFiniteSet(S), NEW q \in S
  PROVE  Pos(S, q) \in 0 .. Cardinality(S) - 1
<1> DEFINE Q == {x \in S : x < q}
<1>1. Q \subseteq S \ {q}
  OBVIOUS
<1>2. Pos(S, q) = Cardinality(Q) /\ Pos(S, q) \in Nat
  BY PosType DEF Pos
<1> HIDE DEF Q
<1>3. IsFiniteSet(S \ {q}) /\ Cardinality(S \ {q}) = Cardinality(S) - 1
  BY FS_RemoveElement
<1>4. Cardinality(Q) <= Cardinality(S \ {q})
  BY <1>1, <1>3, FS_Subset
<1>5. Cardinality(S) \in Nat
  BY FS_CardinalityType
<1> QED
  BY <1>2, <1>3, <1>4, <1>5

LEMMA AtPos ==
  ASSUME NEW S \in SUBSET Int, IsFiniteSet(S), NEW q \in S
  PROVE  At(S, Pos(S, q)) = q
<1>1. \A r \in S : Pos(S, r) = Pos(S, q) => r = q
  BY PosInjective
<1>2. At(S, Pos(S, q)) = CHOOSE r \in S : Pos(S, r) = Pos(S, q)
  BY DEF At, Pos
<1> QED
  BY <1>1, <1>2

(* Every place below the size of S is that of an element: an injection of  *)
(* S into one place less would be one too many.                            *)
LEMMA AtPlace ==
  ASSUME NEW S \in SUBSET Int, IsFiniteSet(S), NEW l \in 0 .. Cardinality(S) - 1
  PROVE  At(S, l) \in S /\ Pos(S, At(S, l)) = l
<1> DEFINE n == Cardinality(S)
           T == (0 .. n - 1) \ {l}
           f == [q \in S |-> Pos(S, q)]
<1>1. n \in Nat
  BY FS_CardinalityType
<1>2. IsFiniteSet(0 .. n - 1) /\ Cardinality(0 .. n - 1) = n
  BY <1>1, FS_Interval
<1>3. IsFiniteSet(T) /\ Cardinality(T) = n - 1
  BY <1>2, FS_RemoveElement
<1>4. \E r \in S : Pos(S, r) = l
  <2> SUFFICES ASSUME \A r \in S : Pos(S, r) # l PROVE FALSE
    OBVIOUS
  <2>1. \A r \in S : Pos(S, r) \in 0 .. n - 1
    BY PosBound
  <2>2. f \in [S -> T]
    BY <2>1
  <2>3. \A p, q \in S : f[p] = f[q] => p = q
    BY PosInjective
  <2>4. f \in Injection(S, T)
    BY <2>2, <2>3 DEF Injection, IsInjective
  <2> HIDE DEF f, T, n
  <2>5. Cardinality(S) <= Cardinality(T)
    BY <1>3, <2>4, FS_Injection
  <2> QED
    BY <1>1, <1>3, <2>5 DEF n
<1>5. At(S, l) = CHOOSE r \in S : Pos(S, r) = l
  BY DEF At, Pos
<1> QED
  BY <1>4, <1>5

-----------------------------------------------------------------------------
(* The samples left to do, numbered 0, 1... in a run.                      *)

LEMMA RanksAreFinite ==
  /\ IsFiniteSet(Ranks) /\ Cardinality(Ranks) = Size
  /\ Ranks \subseteq Int /\ NoValue \notin Ranks
<1>1. IsFiniteSet(0 .. Size - 1) /\ Cardinality(0 .. Size - 1) = Size
  BY FS_Interval, ForEachAssumption
<1> QED
  BY <1>1, ForEachAssumption DEF Ranks, NoValue

LEMMA ToDoIsFinite ==
  ASSUME passed.ids \subseteq Ranks
  PROVE  /\ ToDo \in SUBSET Int /\ IsFiniteSet(ToDo)
         /\ Cardinality(ToDo) = NumberToDo /\ NumberToDo \in Nat
         /\ passed.ids \in SUBSET Int /\ IsFiniteSet(passed.ids)
<1>1. IsFiniteSet(Ranks \ passed.ids)
      /\ Cardinality(Ranks \ passed.ids)
           = Cardinality(Ranks) - Cardinality(Ranks \intersect passed.ids)
  BY RanksAreFinite, FS_Difference
<1>2. Ranks \intersect passed.ids = passed.ids
  OBVIOUS
<1>3. IsFiniteSet(passed.ids)
  BY RanksAreFinite, FS_Subset
<1>4. Cardinality(Ranks \ passed.ids) \in Nat
  BY <1>1, FS_CardinalityType
<1> QED
  BY <1>1, <1>2, <1>3, <1>4, RanksAreFinite DEF ToDo, NumberToDo

(* toAbsId gives distinct samples that are left to do, and reaches each.   *)
LEMMA ToAbsIdLaw ==
  ASSUME passed.ids \subseteq Ranks
  PROVE  /\ \A l \in 0 .. NumberToDo - 1 : ToAbsId(l) \in ToDo
         /\ \A l, m \in 0 .. NumberToDo - 1 : ToAbsId(l) = ToAbsId(m) => l = m
         /\ \A r \in ToDo : \E l \in 0 .. NumberToDo - 1 : ToAbsId(l) = r
<1>1. /\ ToDo \in SUBSET Int /\ IsFiniteSet(ToDo)
      /\ Cardinality(ToDo) = NumberToDo
  BY ToDoIsFinite
<1>2. \A l \in 0 .. NumberToDo - 1 :
        At(ToDo, l) \in ToDo /\ Pos(ToDo, At(ToDo, l)) = l
  BY <1>1, AtPlace
<1>3. \A r \in ToDo : Pos(ToDo, r) \in 0 .. NumberToDo - 1 /\ At(ToDo, Pos(ToDo, r)) = r
  BY <1>1, PosBound, AtPos
<1>4. \A l, m \in 0 .. NumberToDo - 1 : ToAbsId(l) = ToAbsId(m) => l = m
  <2> SUFFICES ASSUME NEW l \in 0 .. NumberToDo - 1, NEW m \in 0 .. NumberToDo - 1,
                      At(ToDo, l) = At(ToDo, m)
               PROVE  l = m
    BY DEF ToAbsId
  <2> QED
    BY <1>2
<1> QED
  BY <1>2, <1>3, <1>4 DEF ToAbsId

-----------------------------------------------------------------------------
(* The inductive invariant                                                 *)

IdType == Nat \union {NotRunning}
ResultType == Ranks \union {NoValue}

Types ==
  /\ branches \in Nat
  /\ stage \in [1..branches -> Stages] /\ node \in [1..branches -> NodeStates]
  /\ ids \in [1..branches -> IdType]
  /\ given \in [1..branches -> Ranks]
  /\ current \in Nat /\ errors \in Nat
  /\ vals \in [Ranks -> ResultType] /\ output \in [Ranks -> ResultType]

(* What an earlier run has passed: the result of each of its samples.      *)
PassedInOrder ==
  /\ passed.ids \in SUBSET Ranks
  /\ DOMAIN passed.outputs = 0 .. Cardinality(passed.ids) - 1
  /\ \A j \in DOMAIN passed.outputs : passed.outputs[j] = At(passed.ids, j)

(* A loop that has not begun has no branch; one with a fake node has none  *)
(* whose node was begun.                                                   *)
NotBegun ==
  /\ loop = "READY" => branches = 0
  /\ special # "none" => \A b \in 1..branches : node[b] = "TOLOAD" /\ stage[b] = FirstStage

(* The ids of this run are dealt in order, each to a branch at work.       *)
Dealt ==
  /\ current <= NumberToDo
  /\ \A b \in 1..branches : ids[b] # NotRunning => ids[b] < current
  /\ \A b \in 1..branches :
       stage[b] # "finalize" /\ node[b] \notin {"DONE", "ERROR"} => ids[b] # NotRunning

(* A sample not dealt yet has no result; one that was dealt has it, or is  *)
(* with its branch, or has failed.                                         *)
Covered ==
  branches > 0 =>
    /\ \A r \in passed.ids : vals[r] # NoValue
    /\ \A l \in current .. NumberToDo - 1 : vals[ToAbsId(l)] = NoValue
    /\ \A l \in 0 .. current - 1 :
         \/ errors # 0
         \/ vals[ToAbsId(l)] # NoValue
         \/ \E b \in 1..branches : ids[b] = l

Complete == \A r \in Ranks : output[r] = r

(* The finalize nodes start once the output is complete.                   *)
Output ==
  /\ (\E b \in 1..branches : stage[b] = "finalize") => Complete
  /\ OutputComplete

IInv ==
  /\ Types /\ PassedInOrder /\ NotBegun /\ Dealt /\ Covered /\ Output
  /\ BranchKnowsItsSample /\ SamplesApart /\ ResultAtItsRank

LEMMA InitHolds == Init => IInv
<1> SUFFICES ASSUME Init PROVE IInv
  OBVIOUS
<1>1. /\ branches = 0 /\ loop = "READY" /\ special = "none"
      /\ stage = NoBranch /\ node = NoBranch /\ ids = NoBranch /\ given = NoBranch
      /\ current = 0 /\ errors = 0 /\ vals = NoResults /\ output = NoResults
      /\ passed = NoPassed
  BY DEF Init
<1>2. 1..branches = {}
  BY <1>1
<1>3. NoBranch \in [{} -> Stages] /\ NoBranch \in [{} -> NodeStates]
      /\ NoBranch \in [{} -> IdType] /\ NoBranch \in [{} -> Ranks]
  BY DEF NoBranch
<1>4. NoResults \in [Ranks -> ResultType]
  BY DEF NoResults, ResultType
<1>5. Types
  BY <1>1, <1>2, <1>3, <1>4 DEF Types
<1>6. PassedInOrder
  BY <1>1, FS_EmptySet DEF PassedInOrder, NoPassed
<1>7. current <= NumberToDo
  BY <1>1, <1>6, ToDoIsFinite DEF PassedInOrder
<1>8. ResultAtItsRank
  BY <1>1 DEF ResultAtItsRank, NoResults
<1> QED
  BY <1>1, <1>2, <1>5, <1>6, <1>7, <1>8
  DEF IInv, NotBegun, Dealt, Covered, Output, OutputComplete, BranchKnowsItsSample, SamplesApart

(* The results that are passed are put back at their ranks.                *)
LEMMA AssignLaw ==
  ASSUME PassedInOrder
  PROVE  /\ AssignAlreadyDone \in [Ranks -> ResultType]
         /\ \A r \in Ranks : AssignAlreadyDone[r] = IF r \in passed.ids THEN r ELSE NoValue
<1>1. passed.ids \in SUBSET Int /\ IsFiniteSet(passed.ids) /\ passed.ids \subseteq Ranks
  BY ToDoIsFinite DEF PassedInOrder
<1>2. ASSUME NEW r \in passed.ids
      PROVE  passed.outputs[CHOOSE j \in DOMAIN passed.outputs : ToAbsIdNot(j) = r] = r
  <2>1. Pos(passed.ids, r) \in DOMAIN passed.outputs /\ ToAbsIdNot(Pos(passed.ids, r)) = r
    BY <1>1, PosBound, AtPos DEF PassedInOrder, ToAbsIdNot
  <2> DEFINE j == CHOOSE k \in DOMAIN passed.outputs : ToAbsIdNot(k) = r
  <2>2. j \in DOMAIN passed.outputs /\ ToAbsIdNot(j) = r
    BY <2>1
  <2> QED
    BY <2>2 DEF PassedInOrder, ToAbsIdNot
<1> QED
  BY <1>1, <1>2 DEF AssignAlreadyDone, ResultType

-----------------------------------------------------------------------------
(* Steps that begin a run                                                  *)

(* getPassedResults returns the results in the order of their samples.     *)
LEMMA PassedResultsLaw ==
  ASSUME vals \in [Ranks -> ResultType], ResultAtItsRank, passed' = PassedResults
  PROVE  PassedInOrder'
<1>1. SetItems \in SUBSET Ranks /\ SetItems \in SUBSET Int /\ IsFiniteSet(SetItems)
  BY RanksAreFinite, FS_Subset DEF SetItems
<1>2. \A j \in 0 .. Cardinality(SetItems) - 1 : vals[At(SetItems, j)] = At(SetItems, j)
  BY <1>1, AtPlace DEF SetItems, ResultAtItsRank
<1>3. /\ passed'.ids = SetItems
      /\ passed'.outputs = [j \in 0 .. Cardinality(SetItems) - 1 |-> vals[At(SetItems, j)]]
  BY DEF PassedResults
<1> QED
  BY <1>1, <1>2, <1>3 DEF PassedInOrder

LEMMA NoPassedLaw == passed' = NoPassed => PassedInOrder'
BY FS_EmptySet DEF PassedInOrder, NoPassed

LEMMA RelaunchKeeps == ASSUME IInv, Relaunch PROVE IInv'
<1>1. PassedInOrder'
  <2>1. CASE HasBranches
    BY <2>1, PassedResultsLaw DEF IInv, Types, Relaunch
  <2>2. CASE ~HasBranches
    BY <2>2, NoPassedLaw DEF Relaunch
  <2> QED
    BY <2>1, <2>2
<1>2. /\ branches' = 0 /\ loop' = "READY"
      /\ stage' = NoBranch /\ node' = NoBranch /\ ids' = NoBranch /\ given' = NoBranch
      /\ current' = 0 /\ errors' = 0 /\ vals' = NoResults /\ output' = NoResults
  BY DEF Relaunch, Fresh
<1>3. 1..branches' = {}
  BY <1>2
<1>4. NoBranch \in [{} -> Stages] /\ NoBranch \in [{} -> NodeStates]
      /\ NoBranch \in [{} -> IdType] /\ NoBranch \in [{} -> Ranks]
  BY DEF NoBranch
<1>5. NoResults \in [Ranks -> ResultType]
  BY DEF NoResults, ResultType
<1>6. Types'
  BY <1>2, <1>3, <1>4, <1>5 DEF Types
<1>7. (current <= NumberToDo)'
  <2>1. passed'.ids \in SUBSET Ranks
    BY <1>1 DEF PassedInOrder
  <2>2. IsFiniteSet(passed'.ids) /\ Cardinality(passed'.ids) <= Size
    BY <2>1, RanksAreFinite, FS_Subset
  <2>3. Cardinality(passed'.ids) \in Nat
    BY <2>2, FS_CardinalityType
  <2> QED
    BY <1>2, <2>2, <2>3, ForEachAssumption DEF NumberToDo
<1>8. ResultAtItsRank'
  BY <1>2 DEF ResultAtItsRank, NoResults
<1> QED
  BY <1>1, <1>2, <1>3, <1>6, <1>7, <1>8
  DEF IInv, NotBegun, Dealt, Covered, Output, OutputComplete, BranchKnowsItsSample, SamplesApart

LEMMA BeginBranchesKeeps ==
  ASSUME IInv, loop = "READY", NEW n \in Nat \ {0}, n <= NumberToDo, BeginBranches(n)
  PROVE  IInv'
<1> USE DEF NotRunning
<1>1. /\ passed' = passed /\ branches' = n /\ current' = n /\ errors' = errors
      /\ output' = output /\ vals' = AssignAlreadyDone
      /\ loop' = "ACTIVATED"
      /\ stage' = [b \in 1..n |-> FirstStage] /\ node' = [b \in 1..n |-> "TOLOAD"]
      /\ ids' = [b \in 1..n |-> b - 1] /\ given' = [b \in 1..n |-> ToAbsId(b - 1)]
  BY DEF BeginBranches, Given
<1>2. NumberToDo' = NumberToDo /\ ToDo' = ToDo /\ \A l : ToAbsId(l)' = ToAbsId(l)
  BY <1>1 DEF NumberToDo, ToDo, ToAbsId
<1>3. /\ \A l \in 0 .. NumberToDo - 1 : ToAbsId(l) \in ToDo
      /\ \A l, m \in 0 .. NumberToDo - 1 : ToAbsId(l) = ToAbsId(m) => l = m
      /\ NumberToDo \in Nat
  BY ToAbsIdLaw, ToDoIsFinite DEF IInv, PassedInOrder
<1>4. /\ vals' \in [Ranks -> ResultType]
      /\ \A r \in Ranks : vals'[r] = IF r \in passed.ids THEN r ELSE NoValue
  BY <1>1, AssignLaw DEF IInv
<1>5. \A l \in 0 .. NumberToDo - 1 : ToAbsId(l) \in Ranks /\ vals'[ToAbsId(l)] = NoValue
  BY <1>3, <1>4 DEF ToDo
<1>6. Types'
  <2>1. \A b \in 1..n : b - 1 \in 0 .. NumberToDo - 1
    BY <1>3
  <2>2. FirstStage \in Stages
    BY DEF FirstStage, Stages
  <2> QED
    BY <1>1, <1>4, <1>5, <2>1, <2>2 DEF IInv, Types, IdType, NodeStates
<1>7. PassedInOrder'
  BY <1>1 DEF IInv, PassedInOrder
<1>8. NotBegun'
  BY <1>1 DEF NotBegun
<1>9. Dealt'
  BY <1>1, <1>2, <1>3 DEF Dealt
<1>10. Covered'
  <2>1. \A r \in passed.ids : vals'[r] # NoValue
    BY <1>4, RanksAreFinite DEF IInv, PassedInOrder
  <2>2. \A l \in 0 .. n - 1 : l + 1 \in 1..n /\ ids'[l + 1] = l
    BY <1>1
  <2>3. \A l \in n .. NumberToDo - 1 : vals'[ToAbsId(l)] = NoValue
    BY <1>5
  <2> QED
    BY <1>1, <1>2, <2>1, <2>2, <2>3 DEF Covered
<1>11. Output'
  BY <1>1 DEF Output, OutputComplete, FirstStage
<1>12. BranchKnowsItsSample'
  BY <1>1, <1>2 DEF BranchKnowsItsSample
<1>13. SamplesApart'
  <2> SUFFICES ASSUME NEW b \in 1..n, NEW c \in 1..n
               PROVE  /\ b # c => ids'[b] # ids'[c]
                      /\ vals'[ToAbsId(ids'[b])] = NoValue
    BY <1>1, <1>2 DEF SamplesApart
  <2>1. ids'[b] = b - 1 /\ ids'[c] = c - 1 /\ b - 1 \in 0 .. NumberToDo - 1
    BY <1>1, <1>3
  <2> QED
    BY <1>5, <2>1
<1>14. ResultAtItsRank'
  BY <1>4 DEF ResultAtItsRank
<1> QED
  BY <1>6, <1>7, <1>8, <1>9, <1>10, <1>11, <1>12, <1>13, <1>14 DEF IInv

LEMMA BeginKeeps == ASSUME IInv, Begin PROVE IInv'
<1>1. ASSUME NEW kind \in {"null", "broken"}, BeginSpecial(kind) PROVE IInv'
  <2>1. branches = 0
    BY DEF Begin, IInv, NotBegun
  <2>2. 1..branches = {} /\ 1..branches' = {}
    BY <1>1, <2>1 DEF BeginSpecial
  <2>3. Types' /\ PassedInOrder' /\ ResultAtItsRank'
    BY <1>1 DEF BeginSpecial, IInv, Types, PassedInOrder, ResultAtItsRank
  <2>4. Dealt'
    BY <1>1, <2>2 DEF BeginSpecial, IInv, Dealt, NumberToDo
  <2> QED
    BY <1>1, <2>1, <2>2, <2>3, <2>4
    DEF BeginSpecial, IInv, NotBegun, Covered, Output, OutputComplete, BranchKnowsItsSample,
        SamplesApart
<1>2. ASSUME NEW n \in BranchCounts, n > 0, NumberToDo # 0,
             BeginBranches(Smaller(n, NumberToDo))
      PROVE  IInv'
  <2>1. NumberToDo \in Nat
    BY ToDoIsFinite DEF IInv, PassedInOrder
  <2>2. n \in Int
    BY ForEachAssumption
  <2>3. /\ Smaller(n, NumberToDo) \in Nat \ {0}
        /\ Smaller(n, NumberToDo) <= NumberToDo
    BY <1>2, <2>1, <2>2 DEF Smaller
  <2> QED
    BY <1>2, <2>3, BeginBranchesKeeps DEF Begin
<1> QED
  BY <1>1, <1>2 DEF Begin

-----------------------------------------------------------------------------
(* Steps that leave the samples where they are                             *)

(* What the conjuncts read of the loop, but for its state and its nodes.   *)
LEMMA SameSamples ==
  ASSUME UNCHANGED <<passed, branches, ids, given, current, errors, vals>>
  PROVE  /\ PassedInOrder => PassedInOrder'
         /\ NumberToDo' = NumberToDo /\ ToDo' = ToDo /\ \A l : ToAbsId(l)' = ToAbsId(l)
         /\ Covered => Covered'
         /\ BranchKnowsItsSample => BranchKnowsItsSample'
         /\ ResultAtItsRank => ResultAtItsRank'
<1>1. NumberToDo' = NumberToDo /\ ToDo' = ToDo /\ \A l : ToAbsId(l)' = ToAbsId(l)
  BY DEF NumberToDo, ToDo, ToAbsId
<1> QED
  BY <1>1 DEF PassedInOrder, Covered, BranchKnowsItsSample, ResultAtItsRank

LEMMA RunSpecialKeeps == ASSUME IInv, RunSpecial PROVE IInv'
<1>1. /\ UNCHANGED <<passed, branches, ids, given, current, errors, vals, stage, node>>
      /\ output' \in {output, vals}
      /\ special # "none" /\ special' = "spent" /\ loop' # "READY"
  BY DEF RunSpecial
<1>2. Types' /\ NotBegun'
  BY <1>1 DEF IInv, Types, NotBegun, FirstStage
<1>3. Dealt' /\ SamplesApart'
  BY <1>1, SameSamples DEF IInv, Dealt, SamplesApart
<1>4. Output'
  BY <1>1 DEF IInv, NotBegun, FirstStage, Output, OutputComplete
<1> QED
  BY <1>1, <1>2, <1>3, <1>4, SameSamples DEF IInv

(* A branch whose node is neither begun nor ended goes on with the same    *)
(* sample.                                                                 *)
LEMMA NodeMovesKeeps ==
  ASSUME IInv, NEW b \in 1..branches, NEW s \in Stages, NEW k \in NodeStates,
         UNCHANGED <<passed, branches, special, ids, given, current, errors, vals, output>>,
         stage' = [stage EXCEPT ![b] = s], node' = [node EXCEPT ![b] = k],
         s = stage[b] \/ (stage[b] = "init" /\ s = "work"),
         special = "none" \/ node[b] # "TOLOAD",
         node[b] \notin {"DONE", "ERROR"},
         loop' \in {loop, "ACTIVATED", "FAILED"} \/ (loop' = "DONE" /\ stage[b] = "finalize")
  PROVE  IInv'
<1>1. branches \in Nat /\ branches' = branches /\ branches # 0
  <2>1. branches \in Nat
    BY DEF IInv, Types
  <2> QED
    BY <2>1
<1>2. special = "none" /\ loop # "READY"
  BY <1>1 DEF IInv, NotBegun
<1>3. Types'
  BY DEF IInv, Types
<1>4. NotBegun'
  BY <1>2 DEF NotBegun
<1>5. \A c \in 1..branches :
        /\ stage'[c] = IF c = b THEN s ELSE stage[c]
        /\ node'[c] = IF c = b THEN k ELSE node[c]
  BY DEF IInv, Types
<1>6. Dealt'
  BY <1>1, <1>5, SameSamples DEF IInv, Dealt
<1>7. SamplesApart'
  BY <1>1, <1>5, SameSamples DEF IInv, SamplesApart
<1>8. Output'
  <2>1. (\E c \in 1..branches : stage'[c] = "finalize") => Complete
    BY <1>5 DEF IInv, Output
  <2>2. loop' = "DONE" => Complete
    BY <1>2 DEF IInv, Output, OutputComplete, Complete
  <2> QED
    BY <1>1, <2>1, <2>2 DEF Output, OutputComplete, Complete
<1> QED
  BY <1>3, <1>4, <1>6, <1>7, <1>8, SameSamples DEF IInv

LEMMA NodeStepsKeep ==
  ASSUME IInv, NEW b \in 1..branches,
         Select(b) \/ Start(b) \/ InitFinished(b) \/ FinalizeFinished(b) \/ Failed(b)
  PROVE  IInv'
<1>1. stage[b] \in Stages /\ stage = [stage EXCEPT ![b] = stage[b]]
  BY DEF IInv, Types
<1>2. CASE Select(b)
  BY <1>1, <1>2, NodeMovesKeeps DEF Select, NodeStates
<1>3. CASE Start(b)
  BY <1>1, <1>3, NodeMovesKeeps DEF Start, NodeStates
<1>4. CASE InitFinished(b)
  BY <1>4, NodeMovesKeeps DEF InitFinished, NodeStates, Stages
<1>5. CASE FinalizeFinished(b)
  BY <1>1, <1>5, NodeMovesKeeps DEF FinalizeFinished, NodeStates
<1>6. CASE Failed(b)
  BY <1>1, <1>6, NodeMovesKeeps DEF Failed, NodeStates
<1> QED
  BY <1>2, <1>3, <1>4, <1>5, <1>6

-----------------------------------------------------------------------------
(* A branch whose sample is over                                           *)

(* What the end of the sample of b brings: its result, or a failure.       *)
Outcome(b, state, failedNow, valsNow) ==
  /\ valsNow \in [Ranks -> ResultType]
  /\ failedNow \in Nat /\ (errors # 0 => failedNow # 0)
  /\ \/ /\ state = "DONE"
        /\ valsNow = [vals EXCEPT ![ToAbsId(ids[b])] = ToAbsId(ids[b])]
     \/ state = "ERROR" /\ failedNow # 0 /\ valsNow = vals

(* The results of the other samples are where they were.                   *)
LEMMA OutcomeLaw ==
  ASSUME IInv, NEW b \in 1..branches, node[b] = "ACTIVATED", stage[b] = "work",
         NEW state, NEW failedNow, NEW valsNow, Outcome(b, state, failedNow, valsNow)
  PROVE  /\ ids[b] \in 0 .. current - 1 /\ current \in 0 .. NumberToDo
         /\ special = "none" /\ loop # "READY" /\ branches # 0
         /\ \A r \in Ranks : valsNow[r] \in {r, NoValue}
         /\ \A r \in passed.ids : valsNow[r] # NoValue
         /\ \A l \in current .. NumberToDo - 1 : valsNow[ToAbsId(l)] = NoValue
         /\ \A c \in 1..branches : c # b /\ ids[c] # NotRunning =>
              valsNow[ToAbsId(ids[c])] = vals[ToAbsId(ids[c])]
         /\ state # "DONE" => valsNow[ToAbsId(ids[b])] = NoValue
         /\ \A l \in 0 .. current - 1 :
              \/ failedNow # 0
              \/ valsNow[ToAbsId(l)] # NoValue
              \/ \E c \in 1..branches : c # b /\ ids[c] = l
<1> DEFINE a == ToAbsId(ids[b])
<1>1. /\ branches \in Nat /\ branches # 0 /\ current \in Nat
      /\ \A c \in 1..branches : ids[c] \in Nat \union {NotRunning}
      /\ vals \in [Ranks -> ResultType] /\ passed.ids \subseteq Ranks
  <2>1. branches \in Nat /\ current \in Nat /\ vals \in [Ranks -> ResultType]
    BY DEF IInv, Types
  <2>2. branches # 0
    BY <2>1
  <2>3. \A c \in 1..branches : ids[c] \in Nat \union {NotRunning}
    BY DEF IInv, Types, IdType
  <2> QED
    BY <2>1, <2>2, <2>3 DEF IInv, PassedInOrder
<1>2. NumberToDo \in Nat /\ current <= NumberToDo
  BY <1>1, ToDoIsFinite DEF IInv, Dealt
<1>3. ids[b] # NotRunning
  BY DEF IInv, Dealt
<1>4. ids[b] \in 0 .. current - 1 /\ ids[b] \in 0 .. NumberToDo - 1
  <2>1. ids[b] < current
    BY <1>3 DEF IInv, Dealt
  <2> QED
    BY <1>1, <1>2, <1>3, <2>1
<1>5. special = "none" /\ loop # "READY"
  BY <1>1 DEF IInv, NotBegun
<1>6. /\ \A l \in 0 .. NumberToDo - 1 : ToAbsId(l) \in Ranks \ passed.ids
      /\ \A l \in 0 .. NumberToDo - 1 : ToAbsId(l) = a => l = ids[b]
  BY <1>1, <1>4, ToAbsIdLaw DEF ToDo
<1>7. a \in Ranks /\ a \notin passed.ids /\ a # NoValue
  BY <1>4, <1>6, RanksAreFinite
<1> HIDE DEF a
<1>8. /\ \A r \in Ranks : r # a => valsNow[r] = vals[r]
      /\ valsNow[a] \in {a, vals[a]}
      /\ state # "DONE" => failedNow # 0 /\ valsNow = vals
      /\ state = "DONE" => valsNow[a] = a
      /\ errors # 0 => failedNow # 0
  BY <1>1, <1>7 DEF Outcome, a
<1>9. \A r \in Ranks : valsNow[r] \in {r, NoValue}
  BY <1>7, <1>8 DEF IInv, ResultAtItsRank
<1>10. \A r \in passed.ids : valsNow[r] # NoValue
  BY <1>1, <1>7, <1>8 DEF IInv, Covered
<1>11. \A l \in current .. NumberToDo - 1 : valsNow[ToAbsId(l)] = NoValue
  <2> SUFFICES ASSUME NEW l \in current .. NumberToDo - 1 PROVE valsNow[ToAbsId(l)] = NoValue
    OBVIOUS
  <2>1. l \in 0 .. NumberToDo - 1 /\ l # ids[b]
    BY <1>1, <1>2, <1>4
  <2>2. ToAbsId(l) \in Ranks /\ ToAbsId(l) # a
    BY <1>6, <2>1
  <2>3. vals[ToAbsId(l)] = NoValue
    BY <1>1 DEF IInv, Covered
  <2> QED
    BY <1>8, <2>2, <2>3
<1>12. \A c \in 1..branches : c # b /\ ids[c] # NotRunning =>
         valsNow[ToAbsId(ids[c])] = vals[ToAbsId(ids[c])]
  <2> SUFFICES ASSUME NEW c \in 1..branches, c # b, ids[c] # NotRunning
               PROVE  valsNow[ToAbsId(ids[c])] = vals[ToAbsId(ids[c])]
    OBVIOUS
  <2>1. ids[c] # ids[b] /\ ids[c] < current
    BY DEF IInv, SamplesApart, Dealt
  <2>2. ids[c] \in 0 .. NumberToDo - 1
    BY <1>1, <1>2, <2>1
  <2>3. ToAbsId(ids[c]) \in Ranks /\ ToAbsId(ids[c]) # a
    BY <1>6, <2>1, <2>2
  <2> QED
    BY <1>8, <2>3
<1>13. state # "DONE" => valsNow[a] = NoValue
  BY <1>3, <1>8 DEF IInv, SamplesApart, a
<1>14. \A l \in 0 .. current - 1 :
         \/ failedNow # 0
         \/ valsNow[ToAbsId(l)] # NoValue
         \/ \E c \in 1..branches : c # b /\ ids[c] = l
  <2> SUFFICES ASSUME NEW l \in 0 .. current - 1
               PROVE  \/ failedNow # 0
                      \/ valsNow[ToAbsId(l)] # NoValue
                      \/ \E c \in 1..branches : c # b /\ ids[c] = l
    OBVIOUS
  <2>1. CASE l = ids[b]
    BY <1>7, <1>8, <2>1 DEF a
  <2>2. CASE l # ids[b]
    <3>1. l \in 0 .. NumberToDo - 1
      BY <1>1, <1>2
    <3>2. ToAbsId(l) \in Ranks /\ ToAbsId(l) # a
      BY <1>6, <2>2, <3>1
    <3>3. errors # 0 \/ vals[ToAbsId(l)] # NoValue \/ \E c \in 1..branches : ids[c] = l
      BY <1>1 DEF IInv, Covered
    <3> QED
      BY <1>8, <2>2, <3>2, <3>3
  <2> QED
    BY <2>1, <2>2
<1> QED
  BY <1>1, <1>2, <1>4, <1>5, <1>9, <1>10, <1>11, <1>12, <1>13, <1>14 DEF a

(* The last samples: the branch rests, and the last one ends the loop or   *)
(* starts the finalize nodes.                                              *)
LEMMA NoMoreKeeps ==
  ASSUME IInv, NEW b \in 1..branches, node[b] = "ACTIVATED", stage[b] = "work",
         NEW state \in {"DONE", "ERROR"}, NEW failedNow, NEW valsNow,
         Outcome(b, state, failedNow, valsNow), WorkOver(b, state, failedNow, valsNow), NoMore
  PROVE  IInv'
<1> DEFINE nodes == [node EXCEPT ![b] = state]
<1>1. /\ UNCHANGED <<passed, branches, special, given, current>>
      /\ errors' = failedNow /\ vals' = valsNow /\ ids' = [ids EXCEPT ![b] = NotRunning]
      /\ \/ IsFinished(ids') /\ EndSamples(nodes, failedNow, valsNow)
         \/ ~IsFinished(ids') /\ node' = nodes /\ UNCHANGED <<loop, stage, output>>
      /\ current = NumberToDo
  BY DEF WorkOver, NoMore
<1>2. /\ special = "none" /\ loop # "READY" /\ branches # 0
      /\ \A r \in Ranks : valsNow[r] \in {r, NoValue}
      /\ \A r \in passed.ids : valsNow[r] # NoValue
      /\ \A l \in current .. NumberToDo - 1 : valsNow[ToAbsId(l)] = NoValue
      /\ \A c \in 1..branches : c # b /\ ids[c] # NotRunning =>
           valsNow[ToAbsId(ids[c])] = vals[ToAbsId(ids[c])]
      /\ \A l \in 0 .. current - 1 :
           \/ failedNow # 0
           \/ valsNow[ToAbsId(l)] # NoValue
           \/ \E c \in 1..branches : c # b /\ ids[c] = l
  BY OutcomeLaw
<1>3. NumberToDo' = NumberToDo /\ ToDo' = ToDo /\ \A l : ToAbsId(l)' = ToAbsId(l)
  BY <1>1 DEF NumberToDo, ToDo, ToAbsId
<1>4. \A c \in 1..branches : ids'[c] = IF c = b THEN NotRunning ELSE ids[c]
  BY <1>1 DEF IInv, Types
<1>5. /\ nodes \in [1..branches -> NodeStates]
      /\ \A c \in 1..branches : nodes[c] = IF c = b THEN state ELSE node[c]
  BY DEF IInv, Types, NodeStates
<1>6. valsNow \in [Ranks -> ResultType] /\ failedNow \in Nat
  BY DEF Outcome
<1> HIDE DEF nodes
<1>7. /\ node' = nodes /\ stage' = stage
      \/ /\ IsFinished(ids') /\ failedNow = 0 /\ output' = valsNow
         /\ stage' = [c \in 1..branches |-> "finalize"]
         /\ node' = [c \in 1..branches |-> "TOLOAD"]
  BY <1>1 DEF EndSamples
<1>8. output' \in {output, valsNow} /\ loop' \in {loop, "FAILED", "DONE"}
  BY <1>1 DEF EndSamples
<1>9. Types'
  <2>1. stage' \in [1..branches -> Stages] /\ node' \in [1..branches -> NodeStates]
    <3>1. CASE node' = nodes /\ stage' = stage
      BY <1>5, <3>1 DEF IInv, Types
    <3>2. CASE /\ stage' = [c \in 1..branches |-> "finalize"]
               /\ node' = [c \in 1..branches |-> "TOLOAD"]
      BY <3>2 DEF Stages, NodeStates
    <3> QED
      BY <1>7, <3>1, <3>2
  <2>2. ids' \in [1..branches -> IdType]
    BY <1>1 DEF IInv, Types, IdType
  <2>3. output' \in [Ranks -> ResultType]
    BY <1>6, <1>8 DEF IInv, Types
  <2> QED
    BY <1>1, <1>6, <2>1, <2>2, <2>3 DEF IInv, Types
<1>10. PassedInOrder'
  BY <1>1 DEF IInv, PassedInOrder
<1>11. NotBegun'
  BY <1>1, <1>2, <1>8 DEF NotBegun
<1>12. Dealt'
  <2>1. \A c \in 1..branches :
          stage'[c] # "finalize" /\ node'[c] \notin {"DONE", "ERROR"} => ids'[c] # NotRunning
    <3>1. CASE node' = nodes /\ stage' = stage
      BY <1>4, <1>5, <3>1 DEF IInv, Dealt
    <3>2. CASE stage' = [c \in 1..branches |-> "finalize"]
      BY <3>2
    <3> QED
      BY <1>7, <3>1, <3>2
  <2> QED
    BY <1>1, <1>3, <1>4, <2>1 DEF IInv, Dealt
<1>13. Covered'
  <2>1. \A c \in 1..branches : c # b => ids'[c] = ids[c]
    BY <1>4
  <2> QED
    BY <1>1, <1>2, <1>3, <2>1 DEF Covered
<1>14. Output'
  <2>1. ASSUME IsFinished(ids'), failedNow = 0 PROVE \A r \in Ranks : valsNow[r] = r
    <3> SUFFICES ASSUME NEW r \in Ranks PROVE valsNow[r] # NoValue
      BY <1>2
    <3>1. CASE r \in passed.ids
      BY <1>2, <3>1
    <3>2. CASE r \in ToDo
      <4>1. PICK l \in 0 .. NumberToDo - 1 : ToAbsId(l) = r
        BY <3>2, ToAbsIdLaw DEF IInv, PassedInOrder
      <4>2. \A c \in 1..branches : ids'[c] = NotRunning
        BY <1>1, <2>1 DEF IsFinished
      <4>3. \A c \in 1..branches : c # b => ids[c] # l
        BY <1>4, <4>2 DEF NotRunning
      <4> QED
        BY <1>1, <1>2, <2>1, <4>1, <4>3
    <3> QED
      BY <3>1, <3>2 DEF ToDo
  <2>2. CASE IsFinished(ids') /\ EndSamples(nodes, failedNow, valsNow)
    <3>1. CASE failedNow = 0
      <4>1. output' = valsNow
        BY <2>2, <3>1 DEF EndSamples
      <4> QED
        BY <2>1, <2>2, <3>1, <4>1 DEF Output, OutputComplete, Complete
    <3>2. CASE failedNow # 0
      <4>1. loop' = "FAILED" /\ UNCHANGED <<stage, output>>
        BY <2>2, <3>2 DEF EndSamples
      <4> QED
        BY <1>1, <4>1 DEF IInv, Output, OutputComplete, Complete
    <3> QED
      BY <3>1, <3>2
  <2>3. CASE UNCHANGED <<loop, stage, output>>
    BY <1>1, <2>3 DEF IInv, Output, OutputComplete, Complete
  <2> QED
    BY <1>1, <2>2, <2>3
<1>15. BranchKnowsItsSample'
  BY <1>1, <1>3, <1>4 DEF IInv, BranchKnowsItsSample
<1>16. SamplesApart'
  <2> SUFFICES ASSUME NEW c \in 1..branches, NEW e \in 1..branches, ids'[c] # NotRunning
               PROVE  /\ c # e => ids'[c] # ids'[e]
                      /\ node'[c] # "DONE" => valsNow[ToAbsId(ids'[c])] = NoValue
    BY <1>1, <1>3 DEF SamplesApart
  <2>1. c # b /\ ids'[c] = ids[c] /\ ids[c] # NotRunning
    BY <1>4
  <2>2. c # e => ids'[c] # ids'[e]
    BY <1>4, <2>1 DEF IInv, SamplesApart
  <2>3. node' = nodes
    BY <1>1, <1>7 DEF IsFinished
  <2> QED
    BY <1>2, <1>5, <2>1, <2>2, <2>3 DEF IInv, SamplesApart
<1>17. ResultAtItsRank'
  BY <1>1, <1>2 DEF ResultAtItsRank
<1> QED
  BY <1>9, <1>10, <1>11, <1>12, <1>13, <1>14, <1>15, <1>16, <1>17 DEF IInv

(* Otherwise the branch takes the next sample, or stops in a loop that has *)
(* failed.                                                                 *)
LEMMA MoreKeeps ==
  ASSUME IInv, NEW b \in 1..branches, node[b] = "ACTIVATED", stage[b] = "work",
         NEW state \in {"DONE", "ERROR"}, NEW failedNow, NEW valsNow,
         Outcome(b, state, failedNow, valsNow), WorkOver(b, state, failedNow, valsNow), ~NoMore
  PROVE  IInv'
<1>1. /\ UNCHANGED <<passed, branches, special, loop, stage, output>>
      /\ errors' = failedNow /\ vals' = valsNow
      /\ \/ /\ ids' = [ids EXCEPT ![b] = current]
            /\ given' = [given EXCEPT ![b] = ToAbsId(current)]
            /\ node' = [node EXCEPT ![b] = "TOLOAD"] /\ current' = current + 1
         \/ node' = [node EXCEPT ![b] = state] /\ UNCHANGED <<ids, given, current>>
  BY DEF WorkOver, Given
<1>2. /\ ids[b] \in 0 .. current - 1 /\ current \in 0 .. NumberToDo
      /\ special = "none" /\ loop # "READY"
      /\ \A r \in Ranks : valsNow[r] \in {r, NoValue}
      /\ \A r \in passed.ids : valsNow[r] # NoValue
      /\ \A l \in current .. NumberToDo - 1 : valsNow[ToAbsId(l)] = NoValue
      /\ \A c \in 1..branches : c # b /\ ids[c] # NotRunning =>
           valsNow[ToAbsId(ids[c])] = vals[ToAbsId(ids[c])]
      /\ state # "DONE" => valsNow[ToAbsId(ids[b])] = NoValue
      /\ \A l \in 0 .. current - 1 :
           \/ failedNow # 0
           \/ valsNow[ToAbsId(l)] # NoValue
           \/ \E c \in 1..branches : c # b /\ ids[c] = l
  BY OutcomeLaw
<1>3. NumberToDo' = NumberToDo /\ ToDo' = ToDo /\ \A l : ToAbsId(l)' = ToAbsId(l)
  BY <1>1 DEF NumberToDo, ToDo, ToAbsId
<1>4. NumberToDo \in Nat /\ current \in 0 .. NumberToDo - 1 /\ ToAbsId(current) \in Ranks
  <2>1. NumberToDo \in Nat
    BY ToDoIsFinite DEF IInv, PassedInOrder
  <2>2. current \in 0 .. NumberToDo - 1
    BY <1>2, <2>1 DEF NoMore
  <2>3. ToAbsId(current) \in ToDo
    BY <2>2, ToAbsIdLaw DEF IInv, PassedInOrder
  <2> QED
    BY <2>1, <2>2, <2>3 DEF ToDo
<1>5. valsNow \in [Ranks -> ResultType] /\ failedNow \in Nat
  BY DEF Outcome
<1>6. \A c \in 1..branches : ids[c] # NotRunning => ids[c] \in 0 .. current - 1
  BY DEF IInv, Types, IdType, Dealt
<1>7. PassedInOrder' /\ NotBegun' /\ ResultAtItsRank'
  BY <1>1, <1>2 DEF IInv, PassedInOrder, NotBegun, ResultAtItsRank
<1>8. Output'
  BY <1>1 DEF IInv, Output, OutputComplete, Complete
<1>9. CASE /\ ids' = [ids EXCEPT ![b] = current]
           /\ given' = [given EXCEPT ![b] = ToAbsId(current)]
           /\ node' = [node EXCEPT ![b] = "TOLOAD"] /\ current' = current + 1
  <2>1. \A c \in 1..branches :
          /\ ids'[c] = IF c = b THEN current ELSE ids[c]
          /\ given'[c] = IF c = b THEN ToAbsId(current) ELSE given[c]
          /\ node'[c] = IF c = b THEN "TOLOAD" ELSE node[c]
    BY <1>9 DEF IInv, Types
  <2>2. Types'
    BY <1>1, <1>4, <1>5, <1>9 DEF IInv, Types, IdType, NodeStates
  <2>3. Dealt'
    <3>1. \A c \in 1..branches : ids'[c] # NotRunning => ids'[c] < current + 1
      BY <1>4, <1>6, <2>1
    <3>2. \A c \in 1..branches :
            stage'[c] # "finalize" /\ node'[c] \notin {"DONE", "ERROR"} => ids'[c] # NotRunning
      BY <1>1, <1>4, <2>1 DEF IInv, Dealt, NotRunning
    <3> QED
      BY <1>1, <1>3, <1>4, <1>9, <3>1, <3>2 DEF Dealt
  <2>4. Covered'
    <3>1. \A l \in 0 .. current :
            failedNow # 0 \/ valsNow[ToAbsId(l)] # NoValue \/ \E c \in 1..branches : ids'[c] = l
      <4> SUFFICES ASSUME NEW l \in 0 .. current
                   PROVE  \/ failedNow # 0
                          \/ valsNow[ToAbsId(l)] # NoValue
                          \/ \E c \in 1..branches : ids'[c] = l
        OBVIOUS
      <4>1. CASE l = current
        BY <2>1, <4>1
      <4>2. CASE l # current
        <5>1. l \in 0 .. current - 1
          BY <1>4, <4>2
        <5> QED
          BY <1>2, <2>1, <5>1
      <4> QED
        BY <4>1, <4>2
    <3>2. \A l \in current + 1 .. NumberToDo - 1 : valsNow[ToAbsId(l)] = NoValue
      <4>1. \A l \in current + 1 .. NumberToDo - 1 : l \in current .. NumberToDo - 1
        BY <1>4
      <4> QED
        BY <1>2, <4>1
    <3>3. (current + 1) - 1 = current
      BY <1>4
    <3> QED
      BY <1>1, <1>2, <1>3, <1>9, <3>1, <3>2, <3>3 DEF Covered
  <2>5. BranchKnowsItsSample'
    BY <1>1, <1>3, <2>1 DEF IInv, BranchKnowsItsSample
  <2>6. SamplesApart'
    <3> SUFFICES ASSUME NEW c \in 1..branches, NEW e \in 1..branches, ids'[c] # NotRunning
                 PROVE  /\ c # e => ids'[c] # ids'[e]
                        /\ node'[c] # "DONE" => valsNow[ToAbsId(ids'[c])] = NoValue
      BY <1>1, <1>3 DEF SamplesApart
    <3>1. c # e => ids'[c] # ids'[e]
      <4>1. \A x \in 1..branches : ids[x] # current
        BY <1>4, <1>6 DEF NotRunning
      <4> QED
        BY <2>1, <4>1 DEF IInv, SamplesApart
    <3>2. valsNow[ToAbsId(current)] = NoValue
      BY <1>2, <1>4
    <3>3. c # b => (node'[c] # "DONE" => valsNow[ToAbsId(ids'[c])] = NoValue)
      BY <1>2, <2>1 DEF IInv, SamplesApart
    <3> QED
      BY <2>1, <3>1, <3>2, <3>3
  <2> QED
    BY <1>7, <1>8, <2>2, <2>3, <2>4, <2>5, <2>6 DEF IInv
<1>10. CASE node' = [node EXCEPT ![b] = state] /\ UNCHANGED <<ids, given, current>>
  <2>1. \A c \in 1..branches : node'[c] = IF c = b THEN state ELSE node[c]
    BY <1>10 DEF IInv, Types
  <2>2. Types'
    BY <1>1, <1>5, <1>10 DEF IInv, Types, NodeStates
  <2>3. Dealt'
    BY <1>1, <1>3, <1>10, <2>1 DEF IInv, Dealt
  <2>4. Covered'
    BY <1>1, <1>2, <1>3, <1>10 DEF Covered
  <2>5. BranchKnowsItsSample'
    BY <1>1, <1>3, <1>10 DEF IInv, BranchKnowsItsSample
  <2>6. SamplesApart'
    BY <1>1, <1>2, <1>3, <1>10, <2>1 DEF IInv, SamplesApart
  <2> QED
    BY <1>7, <1>8, <2>2, <2>3, <2>4, <2>5, <2>6 DEF IInv
<1> QED
  BY <1>1, <1>9, <1>10

(* WorkFinished and WorkFailed give the branch such an outcome.            *)
LEMMA WorkOutcome ==
  ASSUME IInv, NEW b \in 1..branches, WorkFinished(b) \/ WorkFailed(b)
  PROVE  \E state \in {"DONE", "ERROR"}, failedNow \in Nat,
           valsNow \in [Ranks -> ResultType] :
           Outcome(b, state, failedNow, valsNow) /\ WorkOver(b, state, failedNow, valsNow)
<1>1. node[b] = "ACTIVATED" /\ stage[b] = "work"
  BY DEF WorkFinished, WorkFailed
<1>2. vals \in [Ranks -> ResultType] /\ errors \in Nat
  BY DEF IInv, Types
<1>3. CASE WorkFinished(b)
  <2>1. ids[b] # NotRunning
    BY <1>1 DEF IInv, Dealt
  <2>2. given[b] = ToAbsId(ids[b]) /\ given[b] \in Ranks
    BY <2>1 DEF IInv, BranchKnowsItsSample, Types
  <2>3. Outcome(b, "DONE", errors, Stored(b))
    BY <1>2, <2>2 DEF Outcome, Stored, ResultType
  <2>4. WorkOver(b, "DONE", errors, Stored(b))
    BY <1>3 DEF WorkFinished
  <2>5. Stored(b) \in [Ranks -> ResultType]
    BY <2>3 DEF Outcome
  <2> QED
    BY <1>2, <2>3, <2>4, <2>5
<1>4. CASE WorkFailed(b)
  <2>1. errors + 1 \in Nat /\ errors + 1 # 0
    BY <1>2
  <2>2. Outcome(b, "ERROR", errors + 1, vals)
    BY <1>2, <2>1 DEF Outcome
  <2>3. WorkOver(b, "ERROR", errors + 1, vals)
    BY <1>4 DEF WorkFailed
  <2> QED
    BY <1>2, <2>1, <2>2, <2>3
<1> QED
  BY <1>3, <1>4

LEMMA WorkKeeps ==
  ASSUME IInv, NEW b \in 1..branches, WorkFinished(b) \/ WorkFailed(b)
  PROVE  IInv'
<1>1. node[b] = "ACTIVATED" /\ stage[b] = "work"
  BY DEF WorkFinished, WorkFailed
<1>2. PICK state \in {"DONE", "ERROR"}, failedNow \in Nat,
           valsNow \in [Ranks -> ResultType] :
        Outcome(b, state, failedNow, valsNow) /\ WorkOver(b, state, failedNow, valsNow)
  BY WorkOutcome
<1>3. CASE NoMore
  BY <1>1, <1>2, <1>3, NoMoreKeeps
<1>4. CASE ~NoMore
  BY <1>1, <1>2, <1>4, MoreKeeps
<1> QED
  BY <1>3, <1>4

-----------------------------------------------------------------------------

LEMMA NextKeeps == ASSUME IInv, [Next]_vars PROVE IInv'
<1>1. CASE Begin
  BY <1>1, BeginKeeps
<1>2. CASE RunSpecial
  BY <1>2, RunSpecialKeeps
<1>3. CASE Relaunch
  BY <1>3, RelaunchKeeps
<1>4. ASSUME NEW b \in 1..branches,
             Select(b) \/ Start(b) \/ InitFinished(b) \/ FinalizeFinished(b) \/ Failed(b)
      PROVE  IInv'
  BY <1>4, NodeStepsKeep
<1>5. ASSUME NEW b \in 1..branches, WorkFinished(b) \/ WorkFailed(b) PROVE IInv'
  BY <1>5, WorkKeeps
<1>6. CASE UNCHANGED vars
  <2>1. /\ UNCHANGED <<passed, branches, special, ids, given, current, errors, vals, output>>
        /\ UNCHANGED <<loop, stage, node>>
    BY <1>6 DEF vars, runVars
  <2>2. Types' /\ NotBegun' /\ Output'
    BY <2>1 DEF IInv, Types, NotBegun, Output, OutputComplete, Complete
  <2>3. Dealt' /\ SamplesApart'
    BY <2>1, SameSamples DEF IInv, Dealt, SamplesApart
  <2> QED
    BY <2>1, <2>2, <2>3, SameSamples DEF IInv
<1> QED
  BY <1>1, <1>2, <1>3, <1>4, <1>5, <1>6 DEF Next, Advance

(* A branch computes the sample it stores, two branches never have the     *)
(* same one, a result is at the rank of its sample and what leaves the     *)
(* loop is complete, over any number of runs that begin with the results   *)
(* of the one before (ForEachLoop.cxx:404, 424, 785, 842, 1189).           *)
THEOREM ResultsAreKept == Spec => []SamplesKept
<1>1. IInv => SamplesKept
  BY DEF IInv, SamplesKept, Output
<1>2. IInv /\ [Next]_vars => IInv'
  BY NextKeeps
<1> QED
  BY InitHolds, <1>1, <1>2, PTL DEF Spec

-----------------------------------------------------------------------------
(* The loop is what module Samples promises                                *)

(* The samples the branches have, with a result or not.                    *)
InCharge == {ToAbsId(ids[b]) : b \in {c \in 1..branches : ids[c] # NotRunning}}

LEMMA EvaluatingIs ==
  Evaluating = InCharge \ SetItems /\ Evaluating' = InCharge' \ SetItems'
BY DEF Evaluating, InCharge

LEMMA EvaluatingType == IInv => Evaluating \in SUBSET Ranks
<1>1. IInv => \A b \in 1..branches : ids[b] # NotRunning => ToAbsId(ids[b]) \in Ranks
  BY DEF IInv, BranchKnowsItsSample, Types
<1> QED
  BY <1>1 DEF Evaluating

(* The branch that had the sample a finishes or drops it.                  *)
LEMMA SampleOver ==
  ASSUME NEW a \in Ranks, a \in Evaluating, NEW taken \in SUBSET Ranks,
         taken \intersect (ResultIds \union Evaluating) = {},
         ResultIds' = ResultIds \/ ResultIds' = ResultIds \union {a},
         Evaluating' = (Evaluating \ {a}) \union taken
  PROVE  Promised!Next
<1>1. CASE ResultIds' = ResultIds
  <2>1. Promised!Step({}, {a}, taken)
    BY <1>1 DEF Promised!Step
  <2> QED
    BY <2>1 DEF Promised!Next
<1>2. CASE ResultIds' = ResultIds \union {a}
  <2>1. Promised!Step({a}, {}, taken)
    BY <1>2 DEF Promised!Step
  <2> QED
    BY <2>1 DEF Promised!Next
<1> QED
  BY <1>1, <1>2

LEMMA BeginMaps ==
  ASSUME IInv, Begin PROVE Promised!Next \/ UNCHANGED <<ResultIds, Evaluating>>
<1>1. branches = 0 /\ 1..branches = {}
  <2>1. branches = 0
    BY DEF Begin, IInv, NotBegun
  <2> QED
    BY <2>1
<1>2. Evaluating = {} /\ ResultIds = passed.ids
  BY <1>1 DEF Evaluating, ResultIds, HasBranches
<1>3. ASSUME NEW kind, BeginSpecial(kind) PROVE UNCHANGED <<ResultIds, Evaluating>>
  BY <1>3 DEF BeginSpecial, ResultIds, Evaluating, HasBranches, SetItems, ToAbsId, ToDo
<1>4. ASSUME NEW n \in Nat \ {0}, n <= NumberToDo, BeginBranches(n) PROVE Promised!Next
  <2>1. IInv'
    BY <1>4, BeginBranchesKeeps DEF Begin
  <2>2. branches' = n /\ branches' > 0 /\ passed' = passed /\ vals' = AssignAlreadyDone
    BY <1>4 DEF BeginBranches
  <2>3. SetItems' = passed.ids
    <3>1. \A r \in Ranks : vals'[r] = IF r \in passed.ids THEN r ELSE NoValue
      BY <2>2, AssignLaw DEF IInv
    <3> QED
      BY <3>1, RanksAreFinite DEF SetItems, IInv, PassedInOrder
  <2>4. ResultIds' = ResultIds
    BY <1>2, <2>2, <2>3 DEF ResultIds, HasBranches
  <2>5. Evaluating' \in SUBSET Ranks
    BY <2>1, RanksAreFinite DEF IInv, BranchKnowsItsSample, Types, Evaluating
  <2>6. Evaluating' \intersect ResultIds = {}
    BY <1>2, <2>3 DEF Evaluating
  <2>7. Promised!Step({}, {}, Evaluating')
    BY <1>2, <2>4, <2>6 DEF Promised!Step
  <2> QED
    BY <2>5, <2>7 DEF Promised!Next
<1>5. ASSUME NEW n \in BranchCounts, n > 0, NumberToDo # 0,
             BeginBranches(Smaller(n, NumberToDo))
      PROVE  Promised!Next
  <2>1. NumberToDo \in Nat
    BY ToDoIsFinite DEF IInv, PassedInOrder
  <2>2. n \in Int
    BY ForEachAssumption
  <2>3. /\ Smaller(n, NumberToDo) \in Nat \ {0}
        /\ Smaller(n, NumberToDo) <= NumberToDo
    BY <1>5, <2>1, <2>2 DEF Smaller
  <2> QED
    BY <1>4, <1>5, <2>3
<1> QED
  BY <1>3, <1>5 DEF Begin

LEMMA RelaunchMaps ==
  ASSUME Patient, IInv, Relaunch PROVE Promised!Next
<1>1. branches' = 0 /\ 1..branches' = {}
  BY DEF Relaunch, Fresh
<1>2. Evaluating' = {} /\ ResultIds' = passed'.ids
  BY <1>1 DEF Evaluating, ResultIds, HasBranches
<1>3. ResultIds' = ResultIds
  BY <1>2 DEF Relaunch, PassedResults, NoPassed, ResultIds
<1>4. Promised!Step({}, Evaluating, {})
  BY <1>2, <1>3 DEF Promised!Step
<1> QED
  BY <1>4, EvaluatingType DEF Promised!Next

LEMMA WorkMaps ==
  ASSUME IInv, NEW b \in 1..branches, node[b] = "ACTIVATED", stage[b] = "work",
         NEW state \in {"DONE", "ERROR"}, NEW failedNow, NEW valsNow,
         Outcome(b, state, failedNow, valsNow), WorkOver(b, state, failedNow, valsNow)
  PROVE  Promised!Next \/ UNCHANGED <<ResultIds, Evaluating>>
<1> DEFINE a == ToAbsId(ids[b])
           next == ToAbsId(current)
<1>1. UNCHANGED <<passed, branches>> /\ vals' = valsNow
  BY DEF WorkOver
<1>2. \A l : ToAbsId(l)' = ToAbsId(l)
  BY <1>1 DEF ToDo, ToAbsId
<1>3. branches \in Nat /\ branches # 0 /\ ids[b] \in 0 .. current - 1 /\ current \in 0 .. NumberToDo
  BY OutcomeLaw DEF IInv, Types
<1>4. NumberToDo \in Nat /\ passed.ids \subseteq Ranks
  BY ToDoIsFinite DEF IInv, PassedInOrder
<1>5. \A c \in 1..branches : ids[c] # NotRunning => ids[c] \in 0 .. current - 1
  BY DEF IInv, Types, IdType, Dealt
<1>6. ids[b] # NotRunning
  BY <1>3 DEF NotRunning
<1>7. a \in Ranks /\ vals[a] = NoValue
  BY <1>6 DEF IInv, SamplesApart, BranchKnowsItsSample, Types
<1>8. \A c \in 1..branches : c # b /\ ids[c] # NotRunning => ToAbsId(ids[c]) # a
  <2> SUFFICES ASSUME NEW c \in 1..branches, c # b, ids[c] # NotRunning PROVE ToAbsId(ids[c]) # a
    OBVIOUS
  <2>1. ids[c] # ids[b]
    BY DEF IInv, SamplesApart
  <2>2. ids[c] \in 0 .. NumberToDo - 1 /\ ids[b] \in 0 .. NumberToDo - 1
    BY <1>3, <1>4, <1>5
  <2> QED
    BY <1>4, <2>1, <2>2, ToAbsIdLaw
<1>9. ResultIds = SetItems /\ ResultIds' = SetItems'
  BY <1>1, <1>3 DEF ResultIds, HasBranches
<1>10. a \in InCharge /\ a \notin SetItems /\ a \in Evaluating
  BY <1>6, <1>7, EvaluatingIs DEF InCharge, SetItems
<1>11. /\ state = "DONE" => SetItems' = SetItems \union {a}
       /\ state = "ERROR" => SetItems' = SetItems
  <2>1. state = "DONE" => valsNow = [vals EXCEPT ![a] = a]
    BY DEF Outcome
  <2>2. state = "ERROR" => valsNow = vals
    BY DEF Outcome
  <2>3. vals \in [Ranks -> ResultType]
    BY DEF IInv, Types
  <2> HIDE DEF a
  <2> QED
    BY <1>1, <1>7, <2>1, <2>2, <2>3, RanksAreFinite DEF SetItems
<1>12. ResultIds' = ResultIds \/ ResultIds' = ResultIds \union {a}
  BY <1>9, <1>11
<1>13. ASSUME ids' = [ids EXCEPT ![b] = NotRunning]
       PROVE  Promised!Next
  <2>1. \A c \in 1..branches : ids'[c] = IF c = b THEN NotRunning ELSE ids[c]
    BY <1>13 DEF IInv, Types
  <2>2. InCharge' = InCharge \ {a}
    BY <1>1, <1>2, <1>8, <2>1 DEF InCharge
  <2>3. Evaluating' = Evaluating \ {a}
    BY <1>11, <2>2, EvaluatingIs
  <2>4. {} \in SUBSET Ranks /\ Evaluating' = (Evaluating \ {a}) \union {}
    BY <2>3
  <2>5. {} \intersect (ResultIds \union Evaluating) = {}
    OBVIOUS
  <2> HIDE DEF a
  <2> QED
    BY <1>7, <1>10, <1>12, <2>4, <2>5, SampleOver
<1>14. ASSUME ids' = [ids EXCEPT ![b] = current], ~NoMore
       PROVE  Promised!Next
  <2>1. \A c \in 1..branches : ids'[c] = IF c = b THEN current ELSE ids[c]
    BY <1>14 DEF IInv, Types
  <2>2. current \in 0 .. NumberToDo - 1 /\ current # NotRunning
    BY <1>3, <1>4, <1>14 DEF NoMore, NotRunning
  <2>3. next \in Ranks /\ next # a /\ vals[next] = NoValue
    <3>1. next \in Ranks
      BY <1>4, <2>2, ToAbsIdLaw DEF ToDo
    <3>2. ids[b] \in 0 .. NumberToDo - 1 /\ ids[b] # current
      BY <1>3, <1>4
    <3>3. next # a
      BY <1>4, <2>2, <3>2, ToAbsIdLaw
    <3>4. current \in current .. NumberToDo - 1
      BY <2>2
    <3>5. vals[next] = NoValue
      BY <1>3, <3>4 DEF IInv, Covered
    <3> QED
      BY <3>1, <3>3, <3>5
  <2>4. next \notin InCharge
    <3> SUFFICES ASSUME NEW c \in 1..branches, ids[c] # NotRunning, ToAbsId(ids[c]) = next
                 PROVE  FALSE
      BY DEF InCharge
    <3>1. ids[c] \in 0 .. NumberToDo - 1 /\ ids[c] # current
      BY <1>3, <1>4, <1>5
    <3> QED
      BY <1>4, <2>2, <3>1, ToAbsIdLaw
  <2>5. InCharge' = (InCharge \ {a}) \union {next}
    BY <1>1, <1>2, <1>8, <2>1, <2>2 DEF InCharge
  <2>6. next \notin SetItems /\ next \notin SetItems'
    BY <1>11, <2>3 DEF SetItems
  <2> HIDE DEF a, next
  <2>7. Evaluating' = (Evaluating \ {a}) \union {next}
    BY <1>11, <2>3, <2>5, <2>6, EvaluatingIs
  <2>8. next \notin Evaluating
    BY <2>4, EvaluatingIs
  <2>9. {next} \in SUBSET Ranks /\ {next} \intersect (ResultIds \union Evaluating) = {}
    BY <1>9, <2>3, <2>6, <2>8
  <2> QED
    BY <1>7, <1>10, <1>12, <2>7, <2>9, SampleOver
<1>15. ASSUME UNCHANGED ids
       PROVE  Promised!Next \/ UNCHANGED <<ResultIds, Evaluating>>
  <2>1. InCharge' = InCharge
    BY <1>1, <1>2, <1>15 DEF InCharge
  <2> HIDE DEF a
  <2>2. CASE state = "DONE"
    <3>1. {} \in SUBSET Ranks /\ Evaluating' = (Evaluating \ {a}) \union {}
      BY <1>11, <2>1, <2>2, EvaluatingIs
    <3>2. {} \intersect (ResultIds \union Evaluating) = {}
      OBVIOUS
    <3> QED
      BY <1>7, <1>10, <1>12, <3>1, <3>2, SampleOver
  <2>3. CASE state = "ERROR"
    BY <1>9, <1>11, <2>1, <2>3, EvaluatingIs
  <2> QED
    BY <2>2, <2>3
<1> QED
  BY <1>13, <1>14, <1>15 DEF WorkOver

LEMMA NextMaps ==
  ASSUME Patient, IInv, [Next]_vars
  PROVE  Promised!Next \/ UNCHANGED <<ResultIds, Evaluating>>
<1>1. ASSUME UNCHANGED <<passed, branches, ids, vals>>
      PROVE  UNCHANGED <<ResultIds, Evaluating>>
  BY <1>1 DEF ResultIds, Evaluating, HasBranches, SetItems, ToAbsId, ToDo
<1>2. CASE Begin
  BY <1>2, BeginMaps
<1>3. CASE Relaunch
  BY <1>3, RelaunchMaps
<1>4. CASE RunSpecial
  BY <1>1, <1>4 DEF RunSpecial
<1>5. ASSUME NEW b \in 1..branches,
             Select(b) \/ Start(b) \/ InitFinished(b) \/ FinalizeFinished(b) \/ Failed(b)
      PROVE  UNCHANGED <<ResultIds, Evaluating>>
  BY <1>1, <1>5 DEF Select, Start, InitFinished, FinalizeFinished, Failed
<1>6. ASSUME NEW b \in 1..branches, WorkFinished(b) \/ WorkFailed(b)
      PROVE  Promised!Next \/ UNCHANGED <<ResultIds, Evaluating>>
  <2>1. PICK state \in {"DONE", "ERROR"}, failedNow \in Nat,
           valsNow \in [Ranks -> ResultType] :
          Outcome(b, state, failedNow, valsNow) /\ WorkOver(b, state, failedNow, valsNow)
    BY <1>6, WorkOutcome
  <2>2. node[b] = "ACTIVATED" /\ stage[b] = "work"
    BY <1>6 DEF WorkFinished, WorkFailed
  <2> QED
    BY <2>1, <2>2, WorkMaps
<1>7. CASE UNCHANGED vars
  BY <1>1, <1>7 DEF vars, runVars
<1> QED
  BY <1>2, <1>3, <1>4, <1>5, <1>6, <1>7 DEF Next, Advance

(* A sample is with one branch at a time, its result is never lost and is  *)
(* never computed again, over all the runs, as long as the results of a    *)
(* run are only asked for once it has branches (ForEachLoop.cxx:1189).     *)
THEOREM LoopIsSamples == Patient => (Spec => IsSamples)
<1> SUFFICES ASSUME Patient PROVE Spec => IsSamples
  OBVIOUS
<1>1. Init => Promised!Init
  <2> SUFFICES ASSUME Init PROVE Promised!Init
    OBVIOUS
  <2>1. branches = 0 /\ 1..branches = {} /\ passed.ids = {}
    BY DEF Init, NoPassed
  <2> QED
    BY <2>1 DEF Promised!Init, ResultIds, Evaluating, HasBranches
<1>2. IInv /\ [Next]_vars => [Promised!Next]_<<ResultIds, Evaluating>>
  BY NextMaps
<1>3. IInv /\ [Next]_vars => IInv'
  BY NextKeeps
<1> QED
  BY InitHolds, <1>1, <1>2, <1>3, PTL DEF Spec, IsSamples, Promised!Spec

=============================================================================
