------------------------ MODULE OptimizerLoop_proofs ------------------------
(***************************************************************************)
(* A sample in use is that of one branch, none waits while a branch is     *)
(* idle and nothing has failed, and the algorithm is over when the loop    *)
(* has ended: for any number of branches, samples and runs, whatever the   *)
(* algorithm answers.                                                      *)
(***************************************************************************)
EXTENDS OptimizerLoop, AlternateThread, FiniteSetTheorems, TLAPS

-----------------------------------------------------------------------------
(* The places of the elements of a finite set in a strict order R.         *)

Place(R, S, x) == Cardinality({y \in S : <<y, x>> \in R})

StrictOrder(R, S) ==
  /\ \A x \in S : <<x, x>> \notin R
  /\ \A x, y, z \in S : <<x, y>> \in R /\ <<y, z>> \in R => <<x, z>> \in R
  /\ \A x, y \in S : x = y \/ <<x, y>> \in R \/ <<y, x>> \in R

(* Places count from zero up to the size of the set.                       *)
LEMMA PlaceBound ==
  ASSUME NEW R, NEW S, IsFiniteSet(S), StrictOrder(R, S), NEW x \in S
  PROVE  Place(R, S, x) \in 0 .. Cardinality(S) - 1
<1> DEFINE L == {y \in S : <<y, x>> \in R}
<1>1. L \subseteq S \ {x}
  BY DEF StrictOrder
<1>2. Place(R, S, x) = Cardinality(L)
  BY DEF Place
<1> HIDE DEF L
<1>3. IsFiniteSet(S \ {x}) /\ Cardinality(S \ {x}) = Cardinality(S) - 1
  BY FS_RemoveElement
<1>4. IsFiniteSet(L) /\ Cardinality(L) <= Cardinality(S \ {x})
  BY <1>1, <1>3, FS_Subset
<1>5. Cardinality(L) \in Nat /\ Cardinality(S) \in Nat
  BY <1>4, FS_CardinalityType
<1> QED
  BY <1>2, <1>3, <1>4, <1>5

LEMMA PlaceIncreases ==
  ASSUME NEW R, NEW S, IsFiniteSet(S), StrictOrder(R, S),
         NEW x \in S, NEW y \in S, <<x, y>> \in R
  PROVE  Place(R, S, x) < Place(R, S, y)
<1> DEFINE L == {z \in S : <<z, x>> \in R}
           M == {z \in S : <<z, y>> \in R}
<1>1. L \subseteq M \ {x} /\ x \in M /\ M \subseteq S
  BY DEF StrictOrder
<1>2. Place(R, S, x) = Cardinality(L) /\ Place(R, S, y) = Cardinality(M)
  BY DEF Place
<1> HIDE DEF L, M
<1>3. IsFiniteSet(M)
  BY <1>1, FS_Subset
<1>4. IsFiniteSet(M \ {x}) /\ Cardinality(M \ {x}) = Cardinality(M) - 1
  BY <1>1, <1>3, FS_RemoveElement
<1>5. IsFiniteSet(L) /\ Cardinality(L) <= Cardinality(M \ {x})
  BY <1>1, <1>4, FS_Subset
<1>6. Cardinality(L) \in Nat /\ Cardinality(M) \in Nat
  BY <1>3, <1>5, FS_CardinalityType
<1> QED
  BY <1>2, <1>4, <1>5, <1>6

LEMMA PlaceInjective ==
  ASSUME NEW R, NEW S, IsFiniteSet(S), StrictOrder(R, S),
         NEW x \in S, NEW y \in S, Place(R, S, x) = Place(R, S, y)
  PROVE  x = y
<1>1. Place(R, S, x) \in Int /\ Place(R, S, y) \in Int
  BY PlaceBound
<1>2. <<x, y>> \notin R
  BY <1>1, PlaceIncreases
<1>3. <<y, x>> \notin R
  BY <1>1, PlaceIncreases
<1> QED
  BY <1>2, <1>3 DEF StrictOrder

(* Every place below the size of the set is taken: else the set would      *)
(* inject into one place less than it has elements.                        *)
LEMMA PlaceTaken ==
  ASSUME NEW R, NEW S, IsFiniteSet(S), StrictOrder(R, S),
         NEW l \in 0 .. Cardinality(S) - 1
  PROVE  \E x \in S : Place(R, S, x) = l
<1> SUFFICES ASSUME \A x \in S : Place(R, S, x) # l PROVE FALSE
  OBVIOUS
<1> DEFINE n == Cardinality(S)
           T == (0 .. n - 1) \ {l}
           f == [x \in S |-> Place(R, S, x)]
<1>1. n \in Nat
  BY FS_CardinalityType
<1>2. IsFiniteSet(0 .. n - 1) /\ Cardinality(0 .. n - 1) = n
  BY <1>1, FS_Interval
<1>3. IsFiniteSet(T) /\ Cardinality(T) = n - 1
  BY <1>2, FS_RemoveElement
<1>4. f \in [S -> T]
  BY PlaceBound
<1>5. \A x, y \in S : f[x] = f[y] => x = y
  BY PlaceInjective
<1>6. f \in Injection(S, T)
  BY <1>4, <1>5 DEF Injection, IsInjective
<1> HIDE DEF f, T, n
<1>7. Cardinality(S) <= Cardinality(T)
  BY <1>3, <1>6, FS_Injection
<1> QED
  BY <1>1, <1>3, <1>7 DEF n

-----------------------------------------------------------------------------
(* launchMaxOfSamples: which branch takes which sample.                    *)

IdleOf(n, is) == {b \in 1..n : Idle(b, is)}
ByNumber == {e \in Int \X Int : e[1] < e[2]}
ByPriority == {e \in (1..MaxSamples) \X (1..MaxSamples) : Before(e[1], e[2])}

LEMMA BranchesAreOrdered ==
  ASSUME NEW n \in Nat, NEW is
  PROVE  /\ IsFiniteSet(IdleOf(n, is)) /\ StrictOrder(ByNumber, IdleOf(n, is))
         /\ \A b \in 1..n : RankOfBranch(b, is) = Place(ByNumber, IdleOf(n, is), b)
<1>1. IsFiniteSet(1..n)
  BY FS_Interval
<1>2. IdleOf(n, is) \subseteq 1..n
  BY DEF IdleOf
<1>3. \A x, y \in Int : <<x, y>> \in ByNumber <=> x < y
  BY DEF ByNumber
<1>4. ASSUME NEW b \in 1..n
      PROVE  {c \in 1..(b - 1) : Idle(c, is)} = {c \in IdleOf(n, is) : <<c, b>> \in ByNumber}
  BY <1>3 DEF IdleOf
<1>5. StrictOrder(ByNumber, IdleOf(n, is))
  <2>1. \A x \in IdleOf(n, is) : x \in Int
    BY <1>2
  <2> QED
    BY <1>3, <2>1 DEF StrictOrder
<1> QED
  BY <1>1, <1>2, <1>4, <1>5, FS_Subset DEF RankOfBranch, Place

LEMMA SamplesAreOrdered ==
  ASSUME NEW p, DOMAIN p \subseteq 1..MaxSamples
  PROVE  /\ IsFiniteSet(LaunchableOf(p)) /\ StrictOrder(ByPriority, LaunchableOf(p))
         /\ \A s \in LaunchableOf(p) :
              RankOfSample(s, p) = Place(ByPriority, LaunchableOf(p), s)
<1>1. IsFiniteSet(1..MaxSamples)
  BY FS_Interval, OptimizerAssumption
<1>2. LaunchableOf(p) \subseteq 1..MaxSamples
  BY DEF LaunchableOf
<1>3. \A s, t \in 1..MaxSamples : <<s, t>> \in ByPriority <=> Before(s, t)
  BY DEF ByPriority
<1>4. \A s \in 1..MaxSamples : s \in Int /\ Priority(s) \in Int
  BY OptimizerAssumption
<1>5. ASSUME NEW s \in LaunchableOf(p)
      PROVE  {t \in LaunchableOf(p) : Before(t, s)}
               = {t \in LaunchableOf(p) : <<t, s>> \in ByPriority}
  BY <1>2, <1>3
<1>6. StrictOrder(ByPriority, LaunchableOf(p))
  BY <1>2, <1>3, <1>4 DEF StrictOrder, Before
<1> QED
  BY <1>1, <1>2, <1>5, <1>6, FS_Subset DEF RankOfSample, Place

(* A branch takes one sample at most, a sample goes to one branch at most, *)
(* and no sample is left or no branch is.                                  *)
LEMMA TakesMatches ==
  ASSUME NEW n \in Nat, NEW is, NEW p, DOMAIN p \subseteq 1..MaxSamples
  PROVE  /\ \A b \in 1..n : \A s, t \in Takes(b, is, p) : s = t
         /\ \A b, c \in 1..n : \A s \in Takes(b, is, p) : s \in Takes(c, is, p) => b = c
         /\ \/ \A s \in LaunchableOf(p) : \E b \in 1..n : s \in Takes(b, is, p)
            \/ \A b \in 1..n : Idle(b, is) => Takes(b, is, p) # {}
<1> DEFINE B == IdleOf(n, is)
           L == LaunchableOf(p)
<1>1. /\ IsFiniteSet(B) /\ StrictOrder(ByNumber, B)
      /\ \A b \in 1..n : RankOfBranch(b, is) = Place(ByNumber, B, b)
  BY BranchesAreOrdered
<1>2. /\ IsFiniteSet(L) /\ StrictOrder(ByPriority, L)
      /\ \A s \in L : RankOfSample(s, p) = Place(ByPriority, L, s)
  BY SamplesAreOrdered
<1>3. \A b \in 1..n : Idle(b, is) <=> b \in B
  BY DEF IdleOf
<1>4. \A b \in 1..n : \A s : s \in Takes(b, is, p) <=>
         s \in L /\ b \in B /\ Place(ByPriority, L, s) = Place(ByNumber, B, b)
  BY <1>1, <1>2, <1>3 DEF Takes
<1>5. B \subseteq 1..n
  BY DEF IdleOf
<1> HIDE DEF B, L
<1>6. \A b \in 1..n : \A s, t \in Takes(b, is, p) : s = t
  BY <1>2, <1>4, PlaceInjective
<1>7. \A b, c \in 1..n : \A s \in Takes(b, is, p) : s \in Takes(c, is, p) => b = c
  BY <1>1, <1>4, PlaceInjective
<1>8. Cardinality(B) \in Nat /\ Cardinality(L) \in Nat
  BY <1>1, <1>2, FS_CardinalityType
<1>9. CASE Cardinality(L) <= Cardinality(B)
  <2> SUFFICES ASSUME NEW s \in L PROVE \E b \in 1..n : s \in Takes(b, is, p)
    BY <1>6, <1>7 DEF L
  <2>1. Place(ByPriority, L, s) \in 0 .. Cardinality(L) - 1
    BY <1>2, PlaceBound
  <2>2. Place(ByPriority, L, s) \in 0 .. Cardinality(B) - 1
    BY <1>8, <1>9, <2>1
  <2>3. PICK b \in B : Place(ByNumber, B, b) = Place(ByPriority, L, s)
    BY <1>1, <2>2, PlaceTaken
  <2> QED
    BY <1>4, <1>5, <2>3
<1>10. CASE Cardinality(B) <= Cardinality(L)
  <2> SUFFICES ASSUME NEW b \in 1..n, b \in B PROVE Takes(b, is, p) # {}
    BY <1>3, <1>6, <1>7
  <2>1. Place(ByNumber, B, b) \in 0 .. Cardinality(B) - 1
    BY <1>1, PlaceBound
  <2>2. Place(ByNumber, B, b) \in 0 .. Cardinality(L) - 1
    BY <1>8, <1>10, <2>1
  <2>3. PICK s \in L : Place(ByPriority, L, s) = Place(ByNumber, B, b)
    BY <1>2, <2>2, PlaceTaken
  <2> QED
    BY <1>4, <2>3
<1> QED
  BY <1>6, <1>7, <1>8, <1>9, <1>10 DEF L

SampleStates == {"launchable", "inuse", "computed"}
NodeStates == {"READY", "TOLOAD", "SELECTED", "ACTIVATED", "DONE", "ERROR"}

(* A pool of samples that are among the k first.                           *)
PoolType(p, k) ==
  /\ p = [s \in DOMAIN p |-> p[s]]
  /\ DOMAIN p \subseteq 1..k
  /\ \A s \in DOMAIN p : p[s] \in SampleStates

(* The state of n branches when k samples have been pushed.                *)
BranchType(n, k, is, upd, stages, nodes) ==
  /\ is \in [1..n -> -1..k]
  /\ upd \in [1..n -> BOOLEAN]
  /\ stages \in [1..n -> {"init", "work", "finalize"}]
  /\ nodes \in [1..n -> NodeStates]

(* The step that a branch makes when the idle branches take samples.       *)
Kept(b, is, stages, nodes) ==
  ids'[b] = is[b] /\ stage'[b] = stages[b] /\ node'[b] = nodes[b]

Given(b, is, p) ==
  /\ Idle(b, is) /\ ids'[b] \in LaunchableOf(p) /\ pool'[ids'[b]] = "inuse"
  /\ stage'[b] \in {"init", "work"} /\ node'[b] = "TOLOAD"

(* What launchMaxOfSamples does, without the ranks.                        *)
LEMMA LaunchEffect ==
  ASSUME NEW n \in Nat, NEW k \in 0..MaxSamples, NEW is, NEW p, NEW upd,
         NEW stages, NEW nodes, initializing \in Int,
         PoolType(p, k), BranchType(n, k, is, upd, stages, nodes),
         LaunchMaxOfSamples(n, is, p, upd, stages, nodes)
  PROVE  /\ PoolType(pool', k) /\ DOMAIN pool' = DOMAIN p
         /\ BranchType(n, k, ids', initUpdated', stage', node')
         /\ initializing' \in Int
         /\ \A b \in 1..n : Kept(b, is, stages, nodes) \/ Given(b, is, p)
         /\ \A b, c \in 1..n : Given(b, is, p) /\ Given(c, is, p) /\ ids'[b] = ids'[c] => b = c
         /\ \A s \in DOMAIN p :
              \/ pool'[s] = p[s]
              \/ /\ s \in LaunchableOf(p) /\ pool'[s] = "inuse"
                 /\ \E b \in 1..n : ids'[b] = s /\ Given(b, is, p)
         /\ LaunchableOf(pool') = {} \/ \A b \in 1..n : ~Idle(b, ids')
<1> DEFINE Taker == {b \in 1..n : Takes(b, is, p) # {}}
           Sample(b) == CHOOSE s \in Takes(b, is, p) : TRUE
           First == {b \in Taker : HasInit /\ ~upd[b]}
           Taken == {Sample(b) : b \in Taker}
<1>1. /\ ids' = [b \in 1..n |-> IF b \in Taker THEN Sample(b) ELSE is[b]]
      /\ pool' = [s \in DOMAIN p |-> IF s \in Taken THEN "inuse" ELSE p[s]]
      /\ initUpdated' = [b \in 1..n |-> upd[b] \/ b \in First]
      /\ initializing' = initializing + Cardinality(First)
      /\ stage' = [b \in 1..n |-> IF b \in First THEN "init"
                                  ELSE IF b \in Taker THEN "work" ELSE stages[b]]
      /\ node' = [b \in 1..n |-> IF b \in Taker THEN "TOLOAD" ELSE nodes[b]]
  BY DEF LaunchMaxOfSamples, Marked
<1>2. DOMAIN p \subseteq 1..MaxSamples /\ DOMAIN p \subseteq 1..k
  BY OptimizerAssumption DEF PoolType
<1>3. /\ \A b \in 1..n : \A s, t \in Takes(b, is, p) : s = t
      /\ \A b, c \in 1..n : \A s \in Takes(b, is, p) : s \in Takes(c, is, p) => b = c
      /\ \/ \A s \in LaunchableOf(p) : \E b \in 1..n : s \in Takes(b, is, p)
         \/ \A b \in 1..n : Idle(b, is) => Takes(b, is, p) # {}
  BY <1>2, TakesMatches
<1>4. \A b \in 1..n : \A s \in Takes(b, is, p) : s \in LaunchableOf(p) /\ Idle(b, is)
  BY DEF Takes
<1>5. \A b \in Taker : Sample(b) \in Takes(b, is, p)
  OBVIOUS
<1>6. IsFiniteSet(First)
  <2>1. IsFiniteSet(1..n) /\ First \subseteq 1..n
    BY FS_Interval
  <2> QED
    BY <2>1, FS_Subset
<1>7. Taker \subseteq 1..n /\ First \subseteq Taker
  OBVIOUS
<1>8. \A b \in 1..n : b \notin Taker => Takes(b, is, p) = {}
  OBVIOUS
<1>9. \A s : s \in Taken <=> \E b \in Taker : s = Sample(b)
  OBVIOUS
<1> HIDE DEF Taker, Sample, First, Taken
<1>10. Cardinality(First) \in Nat
  BY <1>6, FS_CardinalityType
<1>11. \A s \in LaunchableOf(p) : s \in DOMAIN p /\ p[s] = "launchable"
  BY DEF LaunchableOf
<1>12. ASSUME NEW b \in Taker PROVE Given(b, is, p)
  <2>1. ids'[b] = Sample(b) /\ Sample(b) \in Taken /\ Sample(b) \in LaunchableOf(p)
    BY <1>1, <1>4, <1>5, <1>7, <1>9
  <2>2. pool'[Sample(b)] = "inuse"
    BY <1>1, <1>11, <2>1
  <2>3. stage'[b] \in {"init", "work"} /\ node'[b] = "TOLOAD"
    BY <1>1, <1>7
  <2> QED
    BY <1>4, <1>5, <1>7, <2>1, <2>2, <2>3 DEF Given
<1>13. ASSUME NEW b \in 1..n, b \notin Taker PROVE Kept(b, is, stages, nodes)
  BY <1>1, <1>7, <1>13 DEF Kept
<1>14. \A b \in 1..n : Given(b, is, p) => b \in Taker
  <2> SUFFICES ASSUME NEW b \in 1..n, Given(b, is, p), b \notin Taker PROVE FALSE
    OBVIOUS
  <2>1. ids'[b] = is[b] /\ is[b] \in {-1, 0} /\ ids'[b] \in DOMAIN p
    BY <1>1, <1>11 DEF Given, Idle, NotRunning, NotInitialized
  <2> QED
    BY <1>2, <2>1
<1>15. PoolType(pool', k) /\ DOMAIN pool' = DOMAIN p
  BY <1>1, <1>2 DEF PoolType, SampleStates
<1>16. BranchType(n, k, ids', initUpdated', stage', node')
  <2>1. ASSUME NEW b \in Taker PROVE Sample(b) \in -1..k
    BY <1>2, <1>4, <1>5, <1>7, <1>11
  <2>2. ids' \in [1..n -> -1..k]
    BY <1>1, <2>1 DEF BranchType
  <2>3. initUpdated' \in [1..n -> BOOLEAN]
    BY <1>1
  <2>4. stage' \in [1..n -> {"init", "work", "finalize"}]
    BY <1>1 DEF BranchType
  <2>5. node' \in [1..n -> NodeStates]
    BY <1>1 DEF BranchType, NodeStates
  <2> QED
    BY <2>2, <2>3, <2>4, <2>5 DEF BranchType
<1>17. ASSUME NEW b \in 1..n, NEW c \in 1..n,
              Given(b, is, p), Given(c, is, p), ids'[b] = ids'[c]
       PROVE  b = c
  BY <1>1, <1>3, <1>5, <1>14, <1>17
<1>18. ASSUME NEW s \in DOMAIN p, pool'[s] # p[s]
       PROVE  /\ s \in LaunchableOf(p) /\ pool'[s] = "inuse"
              /\ \E b \in 1..n : ids'[b] = s /\ Given(b, is, p)
  <2>1. s \in Taken /\ pool'[s] = "inuse"
    BY <1>1, <1>18
  <2>2. PICK b \in Taker : s = Sample(b)
    BY <1>9, <2>1
  <2> QED
    BY <1>1, <1>4, <1>5, <1>7, <1>12, <2>1, <2>2
<1>19. LaunchableOf(pool') = {} \/ \A b \in 1..n : ~Idle(b, ids')
  <2>1. CASE \A s \in LaunchableOf(p) : \E b \in 1..n : s \in Takes(b, is, p)
    <3> SUFFICES ASSUME NEW s \in LaunchableOf(pool') PROVE FALSE
      OBVIOUS
    <3>1. s \in DOMAIN p /\ s \notin Taken /\ s \in LaunchableOf(p)
      BY <1>1 DEF LaunchableOf
    <3>2. PICK b \in 1..n : s \in Takes(b, is, p)
      BY <2>1, <3>1
    <3> QED
      BY <1>3, <1>5, <1>8, <1>9, <3>1, <3>2
  <2>2. CASE \A b \in 1..n : Idle(b, is) => Takes(b, is, p) # {}
    <3> SUFFICES ASSUME NEW b \in 1..n, Idle(b, ids') PROVE FALSE
      OBVIOUS
    <3>1. CASE b \in Taker
      <4>1. ids'[b] \in DOMAIN p /\ ids'[b] \in {-1, 0}
        BY <1>11, <1>12, <3>1 DEF Given, Idle, NotRunning, NotInitialized
      <4> QED
        BY <1>2, <4>1
    <3>2. CASE b \notin Taker
      BY <1>8, <1>13, <2>2, <3>2 DEF Kept, Idle
    <3> QED
      BY <3>1, <3>2
  <2> QED
    BY <1>3, <2>1, <2>2
<1> QED
  BY <1>1, <1>10, <1>12, <1>13, <1>15, <1>16, <1>17, <1>18, <1>19

-----------------------------------------------------------------------------
(* The inductive invariant.                                                *)

TypeOK ==
  /\ runs \in Nat
  /\ async \in BOOLEAN
  /\ loop \in {"READY", "TOACTIVATE", "ACTIVATED"} \union Ended
  /\ branches \in Nat
  /\ special \in {"none", "normal", "error"}
  /\ pushed \in 0..MaxSamples
  /\ PoolType(pool, pushed)
  /\ alg \in {"over", "started", "returned"}
  /\ BranchType(branches, pushed, ids, initUpdated, stage, node)
  /\ initializing \in Int /\ unfinished \in Int
  /\ converged \in BOOLEAN
  /\ broken \in BOOLEAN

(* The sample of a branch is its own; one in use in the pool p is that of  *)
(* a branch, one that waits is not.                                        *)
Tied(n, is, p) ==
  /\ \A s \in DOMAIN p : p[s] = "inuse" => \E b \in 1..n : is[b] = s
  /\ \A b, c \in 1..n : is[b] > 0 /\ is[b] = is[c] => b = c
  /\ \A s \in LaunchableOf(p) : \A b \in 1..n : is[b] # s

(* The sample of a branch is in the pool, in use.                          *)
Found(n, is, p) ==
  \A b \in 1..n : is[b] > 0 => is[b] \in DOMAIN p /\ p[is[b]] = "inuse"

Busy(n, is, p) == LaunchableOf(p) = {} \/ \A b \in 1..n : ~Idle(b, is)

(* A node of a branch that is not the finalize node has a sample.          *)
AtWork(n, is, stages, nodes) ==
  \A b \in 1..n :
    nodes[b] \in {"TOLOAD", "SELECTED", "ACTIVATED"} /\ stages[b] # "finalize" => is[b] > 0

Matched ==
  /\ Tied(branches, ids, pool)
  /\ ~converged /\ ~broken => Found(branches, ids, pool)
  /\ special = "none" /\ ~broken => Busy(branches, ids, pool)
  /\ AtWork(branches, ids, stage, node)

(* No branch has a sample, and there is none.                              *)
Nothing == IsFullyLazy(ids) /\ pool = EmptyPool

Phases ==
  /\ loop = "READY" => ~converged /\ ~broken /\ branches = 0
  /\ special # "none" => branches = 0
  /\ loop = "FAILED" => broken
  /\ converged => pool = EmptyPool
  /\ loop = "DONE" /\ branches > 0 => Nothing
  /\ \A b \in 1..branches : stage[b] = "finalize" => Nothing

(* While a branch has a sample, the algorithm is there to hear of it.      *)
Heard ==
  /\ \A b \in 1..branches : ids[b] > 0 => alg = "started" \/ broken \/ converged
  /\ broken /\ branches > 0 => alg = "over"
  /\ \A b \in 1..branches : stage[b] = "finalize" => alg = "over"

OptimizerInv == TypeOK /\ Matched /\ Phases /\ Heard /\ AlgorithmReleased

-----------------------------------------------------------------------------

LEMMA EmptyPoolFacts ==
  /\ DOMAIN EmptyPool = {} /\ LaunchableOf(EmptyPool) = {}
  /\ \A k \in Nat : PoolType(EmptyPool, k)
  /\ \A p : PoolType(p, 0) => p = EmptyPool
  /\ \A n, is : Busy(n, is, EmptyPool)
<1>1. DOMAIN EmptyPool = {}
  BY DEF EmptyPool
<1>2. \A k \in Nat : PoolType(EmptyPool, k)
  BY DEF EmptyPool, PoolType
<1>3. ASSUME NEW p, PoolType(p, 0) PROVE p = EmptyPool
  <2>1. DOMAIN p = {} /\ p = [s \in DOMAIN p |-> p[s]]
    BY <1>3 DEF PoolType
  <2> QED
    BY <2>1 DEF EmptyPool
<1>4. LaunchableOf(EmptyPool) = {}
  BY <1>1 DEF LaunchableOf
<1> QED
  BY <1>1, <1>2, <1>3, <1>4 DEF Busy

(* Idle branches that take samples leave the branches and the pool         *)
(* matched, and no sample waits for a branch that is idle.                 *)
LEMMA LaunchMatches ==
  ASSUME NEW n \in Nat, NEW k \in 0..MaxSamples, NEW is, NEW p, NEW upd,
         NEW stages, NEW nodes, initializing \in Int,
         PoolType(p, k), BranchType(n, k, is, upd, stages, nodes),
         Tied(n, is, p), AtWork(n, is, stages, nodes),
         LaunchMaxOfSamples(n, is, p, upd, stages, nodes)
  PROVE  /\ Tied(n, ids', pool') /\ Busy(n, ids', pool')
         /\ Found(n, is, p) => Found(n, ids', pool')
         /\ AtWork(n, ids', stage', node')
<1>1. /\ PoolType(pool', k) /\ DOMAIN pool' = DOMAIN p
      /\ BranchType(n, k, ids', initUpdated', stage', node')
      /\ \A b \in 1..n : Kept(b, is, stages, nodes) \/ Given(b, is, p)
      /\ \A b, c \in 1..n : Given(b, is, p) /\ Given(c, is, p) /\ ids'[b] = ids'[c] => b = c
      /\ \A s \in DOMAIN p :
           \/ pool'[s] = p[s]
           \/ /\ s \in LaunchableOf(p) /\ pool'[s] = "inuse"
              /\ \E b \in 1..n : ids'[b] = s /\ Given(b, is, p)
      /\ Busy(n, ids', pool')
  BY LaunchEffect DEF Busy
<1>2. \A s \in LaunchableOf(p) : s \in DOMAIN p /\ p[s] = "launchable" /\ s > 0
  BY DEF LaunchableOf, PoolType
<1>3. \A b \in 1..n : Kept(b, is, stages, nodes) => ids'[b] = is[b]
  BY DEF Kept
<1>4. \A b \in 1..n : Given(b, is, p) =>
         is[b] \in {-1, 0} /\ ids'[b] \in LaunchableOf(p) /\ pool'[ids'[b]] = "inuse"
  BY DEF Given, Idle, NotRunning, NotInitialized
<1>5. \A s \in DOMAIN p : p[s] = "inuse" => s > 0
  BY DEF PoolType
<1>6. ASSUME NEW s \in DOMAIN pool', pool'[s] = "inuse"
      PROVE  \E b \in 1..n : ids'[b] = s
  <2>1. CASE p[s] = "inuse"
    <3>1. PICK b \in 1..n : is[b] = s
      BY <1>1, <2>1 DEF Tied
    <3>2. ~Given(b, is, p)
      BY <1>1, <1>4, <1>5, <2>1, <3>1
    <3> QED
      BY <1>1, <1>3, <3>1, <3>2
  <2> QED
    BY <1>1, <1>6, <2>1
<1>7. ASSUME NEW b \in 1..n, NEW c \in 1..n, ids'[b] > 0, ids'[b] = ids'[c]
      PROVE  b = c
  <2>1. CASE Kept(b, is, stages, nodes) /\ Kept(c, is, stages, nodes)
    BY <1>3, <1>7, <2>1 DEF Tied
  <2>2. CASE Given(b, is, p) /\ Kept(c, is, stages, nodes)
    BY <1>3, <1>4, <1>7, <2>2 DEF Tied
  <2>3. CASE Kept(b, is, stages, nodes) /\ Given(c, is, p)
    BY <1>3, <1>4, <1>7, <2>3 DEF Tied
  <2> QED
    BY <1>1, <1>7, <2>1, <2>2, <2>3
<1>8. ASSUME NEW s \in LaunchableOf(pool'), NEW b \in 1..n PROVE ids'[b] # s
  <2>1. s \in LaunchableOf(p) /\ pool'[s] = "launchable"
    BY <1>1 DEF LaunchableOf
  <2>2. CASE Kept(b, is, stages, nodes)
    BY <1>3, <2>1, <2>2 DEF Tied
  <2>3. CASE Given(b, is, p)
    BY <1>4, <2>1, <2>3
  <2> QED
    BY <1>1, <2>2, <2>3
<1>9. ASSUME Found(n, is, p), NEW b \in 1..n, ids'[b] > 0
      PROVE  ids'[b] \in DOMAIN pool' /\ pool'[ids'[b]] = "inuse"
  <2>1. CASE Kept(b, is, stages, nodes)
    <3>1. ids'[b] \in DOMAIN p /\ p[ids'[b]] = "inuse"
      BY <1>3, <1>9, <2>1 DEF Found
    <3> QED
      BY <1>1, <3>1
  <2>2. CASE Given(b, is, p)
    BY <1>1, <1>2, <1>4, <2>2
  <2> QED
    BY <1>1, <2>1, <2>2
<1>10. ASSUME NEW b \in 1..n, stage'[b] # "finalize",
              node'[b] \in {"TOLOAD", "SELECTED", "ACTIVATED"}
       PROVE  ids'[b] > 0
  <2>1. CASE Kept(b, is, stages, nodes)
    BY <1>10, <2>1 DEF Kept, AtWork
  <2>2. CASE Given(b, is, p)
    BY <1>2, <1>4, <2>2
  <2> QED
    BY <1>1, <2>1, <2>2
<1> QED
  BY <1>1, <1>6, <1>7, <1>8, <1>9, <1>10 DEF Tied, Found, AtWork

-----------------------------------------------------------------------------
(* The steps.                                                              *)

LEMMA InitHolds == Init => OptimizerInv
<1> SUFFICES ASSUME Init PROVE OptimizerInv
  OBVIOUS
<1>1. BranchType(0, 0, NoBranch, NoBranch, NoBranch, NoBranch)
  BY DEF BranchType, NoBranch
<1>2. PoolType(EmptyPool, 0) /\ DOMAIN EmptyPool = {}
  BY EmptyPoolFacts
<1>3. TypeOK
  <2>1. converged \in BOOLEAN /\ broken \in BOOLEAN
    BY DEF Init
  <2>2. PoolType(pool, pushed) /\ BranchType(branches, pushed, ids, initUpdated, stage, node)
    BY <1>1, <1>2 DEF Init
  <2> QED
    BY <2>1, <2>2, OptimizerAssumption DEF Init, TypeOK
<1>4. Matched
  BY <1>2, EmptyPoolFacts DEF Init, Matched, Tied, Found, AtWork
<1>5. Phases /\ Heard /\ AlgorithmReleased
  BY DEF Init, Phases, Heard, AlgorithmReleased, Ended
<1> QED
  BY <1>3, <1>4, <1>5 DEF OptimizerInv

(* A step that moves one node on, with its sample and the pool as they     *)
(* were.                                                                   *)
LEMMA QuietStep ==
  ASSUME OptimizerInv,
         UNCHANGED <<runs, async, branches, special, poolVars, ids, initUpdated, broken, converged>>,
         NEW b \in 1..branches,
         NEW x \in NodeStates, node' = [node EXCEPT ![b] = x],
         x \in {"TOLOAD", "SELECTED", "ACTIVATED"} => ids[b] > 0 \/ stage[b] = "finalize",
         stage' = stage \/ (stage' = [stage EXCEPT ![b] = "work"] /\ ids[b] > 0),
         initializing' \in Int, unfinished' \in Int,
         \/ loop' = loop
         \/ loop' = "ACTIVATED"
         \/ loop' = "ERROR" /\ alg = "over"
         \/ loop' = "DONE" /\ alg = "over" /\ Nothing
  PROVE  OptimizerInv'
<1>1. TypeOK /\ Matched /\ Phases /\ Heard /\ AlgorithmReleased
  BY DEF OptimizerInv
<1>2. BranchType(branches, pushed, ids, initUpdated, stage', node')
  BY <1>1 DEF TypeOK, BranchType, NodeStates
<1>3. TypeOK'
  BY <1>1, <1>2 DEF TypeOK, poolVars, Ended
<1>4. AtWork(branches, ids, stage', node')
  BY <1>1 DEF Matched, AtWork, TypeOK, BranchType
<1>5. Matched'
  BY <1>1, <1>4 DEF Matched, poolVars
<1>6. \A c \in 1..branches : stage'[c] = "finalize" => stage[c] = "finalize"
  BY <1>1 DEF TypeOK, BranchType
<1>7. Nothing' <=> Nothing
  BY DEF Nothing, IsFullyLazy, Idle, poolVars
<1>8. Phases'
  BY <1>1, <1>6, <1>7 DEF Phases, poolVars
<1>9. Heard'
  BY <1>1, <1>6 DEF Heard, poolVars
<1>10. AlgorithmReleased'
  BY <1>1 DEF AlgorithmReleased, poolVars, Ended
<1> QED
  BY <1>3, <1>5, <1>8, <1>9, <1>10 DEF OptimizerInv

(* A branch at its init node or its node has a sample, so no branch is at  *)
(* its finalize node and the loop is not done.                             *)
LEMMA RunningHasSample ==
  ASSUME OptimizerInv, NEW b \in 1..branches,
         node[b] = "ACTIVATED", stage[b] # "finalize"
  PROVE  /\ ids[b] > 0 /\ ids[b] \in 1..pushed /\ b \in Int
         /\ ~IsFullyLazy(ids) /\ ~Nothing
         /\ \A c \in 1..branches : stage[c] # "finalize"
         /\ loop \notin {"READY", "DONE"} /\ special = "none" /\ branches > 0
<1>1. ids[b] > 0 /\ branches > 0
  BY DEF OptimizerInv, Matched, AtWork, TypeOK
<1>2. ids[b] \in 1..pushed
  BY <1>1 DEF OptimizerInv, TypeOK, BranchType
<1>3. ~IsFullyLazy(ids)
  BY <1>1, <1>2 DEF IsFullyLazy, Idle, NotRunning, NotInitialized
<1> QED
  BY <1>1, <1>2, <1>3 DEF OptimizerInv, Phases, Nothing

LEMMA SelectStep ==
  ASSUME OptimizerInv, NEW b \in 1..branches, Select(b) PROVE OptimizerInv'
<1>1. ids[b] > 0 \/ stage[b] = "finalize"
  BY DEF OptimizerInv, Matched, AtWork, Select
<1>2. initializing \in Int /\ unfinished \in Int /\ "SELECTED" \in NodeStates
  BY DEF OptimizerInv, TypeOK, NodeStates
<1> QED
  BY <1>1, <1>2, QuietStep DEF Select

LEMMA StartStep ==
  ASSUME OptimizerInv, NEW b \in 1..branches, Start(b) PROVE OptimizerInv'
<1>1. ids[b] > 0 \/ stage[b] = "finalize"
  BY DEF OptimizerInv, Matched, AtWork, Start
<1>2. initializing \in Int /\ unfinished \in Int /\ "ACTIVATED" \in NodeStates
  BY DEF OptimizerInv, TypeOK, NodeStates
<1> QED
  BY <1>1, <1>2, QuietStep DEF Start

LEMMA IgnoredStep ==
  ASSUME OptimizerInv, NEW b \in 1..branches, Ignored(b),
         UNCHANGED <<runs, async, branches, special>>
  PROVE  OptimizerInv'
<1>1. initializing \in Int /\ unfinished \in Int /\ "DONE" \in NodeStates
  BY DEF OptimizerInv, TypeOK, NodeStates
<1> QED
  BY <1>1, QuietStep DEF Ignored

LEMMA InitFinishedStep ==
  ASSUME OptimizerInv, NEW b \in 1..branches, InitFinished(b) PROVE OptimizerInv'
<1>1. CASE Ignored(b)
  BY <1>1, IgnoredStep DEF InitFinished
<1>2. CASE ~Ignored(b)
  <2>1. ids[b] > 0
    BY RunningHasSample DEF InitFinished
  <2>2. initializing \in Int /\ unfinished \in Int /\ "TOLOAD" \in NodeStates
    BY DEF OptimizerInv, TypeOK, NodeStates
  <2>3. initializing' \in Int
    BY <1>2, <2>2 DEF InitFinished
  <2> QED
    BY <1>2, <2>1, <2>2, <2>3, QuietStep DEF InitFinished
<1> QED
  BY <1>1, <1>2

LEMMA FinalizeFinishedStep ==
  ASSUME OptimizerInv, NEW b \in 1..branches, FinalizeFinished(b) PROVE OptimizerInv'
<1>1. CASE Ignored(b)
  BY <1>1, IgnoredStep DEF FinalizeFinished
<1>2. CASE ~Ignored(b)
  <2>1. Nothing /\ alg = "over"
    BY DEF FinalizeFinished, OptimizerInv, Phases, Heard
  <2>2. initializing \in Int /\ unfinished \in Int /\ "DONE" \in NodeStates
    BY DEF OptimizerInv, TypeOK, NodeStates
  <2>3. unfinished' \in Int
    BY <1>2, <2>2 DEF FinalizeFinished
  <2> QED
    BY <1>2, <2>1, <2>2, <2>3, QuietStep DEF FinalizeFinished
<1> QED
  BY <1>1, <1>2

LEMMA NodeFailedStep ==
  ASSUME OptimizerInv, NEW b \in 1..branches, NodeFailed(b) PROVE OptimizerInv'
<1>1. TypeOK /\ Matched /\ Phases /\ Heard
  BY DEF OptimizerInv
<1>2. BranchType(branches, pushed, ids, initUpdated, stage, node')
  BY <1>1 DEF TypeOK, BranchType, NodeStates, NodeFailed
<1>3. PoolType(EmptyPool, pushed)
  BY <1>1, EmptyPoolFacts DEF TypeOK
<1>4. TypeOK'
  BY <1>1, <1>2, <1>3 DEF TypeOK, NodeFailed, Ended
<1>5. AtWork(branches, ids, stage, node')
  BY <1>1 DEF Matched, AtWork, TypeOK, BranchType, NodeFailed
<1>6. Tied(branches, ids, EmptyPool) /\ Busy(branches, ids, EmptyPool)
  BY <1>1, EmptyPoolFacts DEF Matched, Tied
<1>7. Matched'
  BY <1>5, <1>6 DEF Matched, NodeFailed
<1>8. IsFullyLazy(ids)' <=> IsFullyLazy(ids)
  BY DEF IsFullyLazy, Idle, NodeFailed
<1>9. Phases'
  BY <1>1, <1>8 DEF Phases, NodeFailed, Nothing
<1>10. Heard' /\ AlgorithmReleased'
  BY <1>1 DEF Heard, NodeFailed, AlgorithmReleased
<1> QED
  BY <1>4, <1>7, <1>9, <1>10 DEF OptimizerInv

LEMMA ConvergeStep ==
  ASSUME OptimizerInv, NEW b \in 1..branches, node[b] = "ACTIVATED", stage[b] = "work",
         NEW algNow \in {"over", "started", "returned"}, alg = "over" => algNow = "over",
         Converge(b, algNow), pushed' \in pushed..MaxSamples,
         UNCHANGED <<runs, async, branches, special>>
  PROVE  OptimizerInv'
<1> DEFINE is == [ids EXCEPT ![b] = NotRunning]
           nodes == [node EXCEPT ![b] = "DONE"]
<1>1. TypeOK /\ Matched /\ Phases /\ Heard /\ AlgorithmReleased
  BY DEF OptimizerInv
<1>2. /\ ids[b] > 0 /\ ids[b] \in 1..pushed /\ b \in Int
      /\ ~IsFullyLazy(ids) /\ ~Nothing
      /\ \A c \in 1..branches : stage[c] # "finalize"
      /\ loop \notin {"READY", "DONE"} /\ special = "none" /\ branches > 0
  BY RunningHasSample
<1>3. /\ pushed' \in 0..MaxSamples /\ PoolType(EmptyPool, pushed')
      /\ ids \in [1..branches -> -1..pushed']
      /\ stage \in [1..branches -> {"init", "work", "finalize"}]
      /\ node \in [1..branches -> NodeStates]
      /\ initUpdated \in [1..branches -> BOOLEAN]
  <2>1. pushed' \in 0..MaxSamples
    BY <1>1 DEF TypeOK
  <2>2. PoolType(EmptyPool, pushed')
    BY <2>1, EmptyPoolFacts
  <2>3. ids \in [1..branches -> -1..pushed']
    BY <1>1 DEF TypeOK, BranchType
  <2> QED
    BY <1>1, <2>1, <2>2, <2>3 DEF TypeOK, BranchType
<1>4. is \in [1..branches -> -1..pushed'] /\ nodes \in [1..branches -> NodeStates]
  BY <1>3 DEF NotRunning, NodeStates
<1>5. \A c \in 1..branches :
        /\ c # b => is[c] = ids[c] /\ nodes[c] = node[c]
        /\ is[b] = -1 /\ nodes[b] = "DONE"
  BY <1>3 DEF NotRunning
<1> HIDE DEF is, nodes
<1>6. /\ ids' = is /\ pool' = EmptyPool
      /\ broken' = broken /\ initUpdated' = initUpdated /\ initializing' = initializing
  BY DEF Converge, is
<1>7. Tied(branches, is, EmptyPool) /\ Busy(branches, is, EmptyPool)
  BY <1>1, <1>5, EmptyPoolFacts DEF Matched, Tied
<1>8. CASE IsFullyLazy(is) /\ Finalize(is, nodes, algNow) /\ UNCHANGED converged
  <2> DEFINE begun == {c \in 1..branches : is[c] = NotRunning}
  <2>1. /\ alg' = "over"
        /\ \/ /\ loop' = "DONE" /\ node' = nodes /\ stage' = stage /\ unfinished' = unfinished
           \/ /\ stage' = [c \in 1..branches |-> IF c \in begun THEN "finalize" ELSE stage[c]]
              /\ node' = [c \in 1..branches |-> IF c \in begun THEN "TOLOAD" ELSE nodes[c]]
              /\ unfinished' = Cardinality(begun)
              /\ loop' = loop
    BY <1>8 DEF Finalize, Finished
  <2>2. IsFiniteSet(begun)
    <3>1. IsFiniteSet(1..branches)
      BY <1>1, FS_Interval DEF TypeOK
    <3> QED
      BY <3>1, FS_Subset
  <2>3. \A c \in 1..branches : c \notin begun => is[c] = 0
    BY <1>8 DEF IsFullyLazy, Idle, NotInitialized
  <2>4. b \in begun /\ begun \subseteq 1..branches
    BY <1>5 DEF NotRunning
  <2> HIDE DEF begun
  <2>5. unfinished' \in Int
    BY <1>1, <2>1, <2>2, FS_CardinalityType DEF TypeOK
  <2>6. stage' \in [1..branches -> {"init", "work", "finalize"}]
    BY <1>3, <2>1
  <2>7. node' \in [1..branches -> NodeStates]
    BY <1>4, <2>1 DEF NodeStates
  <2>8. BranchType(branches, pushed', ids', initUpdated', stage', node')
    BY <1>3, <1>4, <1>6, <2>6, <2>7 DEF BranchType
  <2>9. TypeOK'
    BY <1>1, <1>3, <1>6, <1>8, <2>1, <2>5, <2>8 DEF TypeOK, Ended
  <2>10. AtWork(branches, ids', stage', node')
    <3> SUFFICES ASSUME NEW c \in 1..branches, stage'[c] # "finalize",
                        node'[c] \in {"TOLOAD", "SELECTED", "ACTIVATED"}
                 PROVE  ids'[c] > 0
      BY DEF AtWork
    <3>1. c # b /\ node'[c] = node[c] /\ stage'[c] = stage[c]
      BY <1>2, <1>5, <2>1, <2>4
    <3> QED
      BY <1>1, <1>5, <1>6, <3>1 DEF Matched, AtWork
  <2>11. Matched'
    <3>1. Found(branches, is, EmptyPool)
      BY <1>8 DEF Found, IsFullyLazy, Idle, NotRunning, NotInitialized
    <3> QED
      BY <1>6, <1>7, <2>10, <3>1 DEF Matched
  <2>12. IsFullyLazy(ids)'
    BY <1>6, <1>8 DEF IsFullyLazy, Idle
  <2>13. Phases'
    BY <1>1, <1>2, <1>6, <1>8, <2>1, <2>12 DEF Phases, Nothing
  <2>14. Heard' /\ AlgorithmReleased'
    <3>1. \A c \in 1..branches : ~(ids'[c] > 0)
      BY <1>6, <1>8 DEF IsFullyLazy, Idle, NotRunning, NotInitialized
    <3> QED
      BY <2>1, <3>1 DEF Heard, AlgorithmReleased
  <2> QED
    BY <2>9, <2>11, <2>13, <2>14 DEF OptimizerInv
<1>9. CASE /\ ~IsFullyLazy(is)
           /\ converged' = TRUE /\ node' = nodes /\ alg' = algNow
           /\ UNCHANGED <<loop, stage, unfinished>>
  <2>1. BranchType(branches, pushed', ids', initUpdated', stage', node')
    BY <1>3, <1>4, <1>6, <1>9 DEF BranchType
  <2>2. TypeOK'
    BY <1>1, <1>3, <1>6, <1>9, <2>1 DEF TypeOK
  <2>3. AtWork(branches, is, stage, nodes)
    BY <1>1, <1>5 DEF Matched, AtWork
  <2>4. Matched'
    BY <1>6, <1>7, <1>9, <2>3 DEF Matched
  <2>5. Phases'
    BY <1>1, <1>2, <1>6, <1>9 DEF Phases
  <2>6. Heard' /\ AlgorithmReleased'
    BY <1>1, <1>2, <1>6, <1>9 DEF Heard, AlgorithmReleased
  <2> QED
    BY <2>2, <2>4, <2>5, <2>6 DEF OptimizerInv
<1> QED
  BY <1>8, <1>9 DEF Converge, is, nodes

(* The sample of the branch b has its result: what is left of the pool     *)
(* when the algorithm has pushed k more.                                   *)
LEMMA LeftInPool ==
  ASSUME OptimizerInv, NEW b \in 1..branches, ids[b] > 0, ids[b] \in Samples,
         NEW k \in Nat, pushed + k <= MaxSamples
  PROVE  LET p == [pool EXCEPT ![ids[b]] = "computed"]
             is == [ids EXCEPT ![b] = NotRunning]
             after == Without(Pushed(p, k), ids[b])
         IN  /\ PoolType(after, pushed + k) /\ Tied(branches, is, after)
             /\ Found(branches, ids, pool) => Found(branches, is, after)
<1> DEFINE p == [pool EXCEPT ![ids[b]] = "computed"]
           is == [ids EXCEPT ![b] = NotRunning]
           after == Without(Pushed(p, k), ids[b])
           New == pushed + 1 .. pushed + k
<1>1. TypeOK /\ Tied(branches, ids, pool)
  BY DEF OptimizerInv, Matched
<1>2. /\ pushed \in Nat /\ PoolType(pool, pushed)
      /\ ids \in [1..branches -> -1..pushed]
  BY <1>1, OptimizerAssumption DEF TypeOK, BranchType
<1>3. /\ is[b] = -1
      /\ \A c \in 1..branches : c # b => is[c] = ids[c]
  BY <1>2 DEF NotRunning
<1>4. /\ DOMAIN p = Samples
      /\ \A s \in Samples : s # ids[b] => p[s] = pool[s]
  BY DEF Samples
<1>5. /\ DOMAIN after = (Samples \union New) \ {ids[b]}
      /\ \A s \in DOMAIN after : after[s] = IF s \in Samples THEN pool[s] ELSE "launchable"
  BY <1>4 DEF Without, Pushed
<1>6. after = [s \in DOMAIN after |-> after[s]]
  BY DEF Without
<1> HIDE DEF p, is, after
<1>7. PoolType(after, pushed + k)
  <2>1. \A s \in Samples : s \in 1..pushed /\ pool[s] \in SampleStates
    BY <1>2 DEF PoolType, Samples
  <2>2. DOMAIN after \subseteq 1..(pushed + k)
    BY <1>2, <1>5, <2>1
  <2>3. \A s \in DOMAIN after : after[s] \in SampleStates
    BY <1>5, <2>1 DEF SampleStates
  <2> QED
    BY <1>6, <2>2, <2>3 DEF PoolType
<1>8. ASSUME NEW s \in DOMAIN after, after[s] = "inuse"
      PROVE  \E c \in 1..branches : is[c] = s
  <2>1. s \in Samples /\ pool[s] = "inuse" /\ s # ids[b]
    BY <1>5, <1>8
  <2>2. PICK c \in 1..branches : ids[c] = s
    BY <1>1, <2>1 DEF Tied, Samples
  <2> QED
    BY <1>3, <2>1, <2>2
<1>9. ASSUME NEW c \in 1..branches, NEW d \in 1..branches, is[c] > 0, is[c] = is[d]
      PROVE  c = d
  BY <1>1, <1>3, <1>9 DEF Tied
<1>10. ASSUME NEW s \in LaunchableOf(after), NEW c \in 1..branches PROVE is[c] # s
  <2>1. s \in DOMAIN after /\ after[s] = "launchable"
    BY DEF LaunchableOf
  <2>2. CASE s \in Samples
    <3>1. s \in LaunchableOf(pool) /\ s \in 1..pushed
      BY <1>2, <1>5, <2>1, <2>2 DEF LaunchableOf, PoolType, Samples
    <3>2. ids[c] # s
      BY <1>1, <3>1 DEF Tied
    <3> QED
      BY <1>3, <3>1, <3>2
  <2>3. CASE s \in New
    BY <1>2, <1>3, <2>3
  <2> QED
    BY <1>5, <2>1, <2>2, <2>3
<1>11. ASSUME Found(branches, ids, pool), NEW c \in 1..branches, is[c] > 0
       PROVE  is[c] \in DOMAIN after /\ after[is[c]] = "inuse"
  <2>1. c # b /\ is[c] = ids[c]
    BY <1>3, <1>11
  <2>2. ids[c] # ids[b]
    BY <1>1, <1>11, <2>1 DEF Tied
  <2>3. ids[c] \in Samples /\ pool[ids[c]] = "inuse"
    BY <1>11, <2>1 DEF Found, Samples
  <2> QED
    BY <1>5, <2>1, <2>2, <2>3
<1>12. Tied(branches, is, after)
  BY <1>8, <1>9, <1>10 DEF Tied
<1>13. Found(branches, ids, pool) => Found(branches, is, after)
  BY <1>11 DEF Found
<1> QED
  BY <1>7, <1>12, <1>13 DEF p, is, after

LEMMA ContinueStep ==
  ASSUME OptimizerInv, NEW b \in 1..branches, node[b] = "ACTIVATED", stage[b] = "work",
         ids[b] \in Samples, ~converged, NEW k \in Nat, pushed + k <= MaxSamples,
         pushed' = pushed + k,
         Continue(b, Without(Pushed([pool EXCEPT ![ids[b]] = "computed"], k), ids[b])),
         UNCHANGED <<runs, async, branches, special>>
  PROVE  OptimizerInv'
<1> DEFINE is == [ids EXCEPT ![b] = NotRunning]
           nodes == [node EXCEPT ![b] = "DONE"]
           after == Without(Pushed([pool EXCEPT ![ids[b]] = "computed"], k), ids[b])
           stuck == LaunchableOf(after) = {} /\ IsFullyLazy(is)
<1>1. TypeOK /\ Matched /\ Phases /\ Heard /\ AlgorithmReleased
  BY DEF OptimizerInv
<1>2. /\ ids[b] > 0 /\ ids[b] \in 1..pushed /\ b \in Int
      /\ ~IsFullyLazy(ids) /\ ~Nothing
      /\ \A c \in 1..branches : stage[c] # "finalize"
      /\ loop \notin {"READY", "DONE"} /\ special = "none" /\ branches > 0
  BY RunningHasSample
<1>3. /\ PoolType(after, pushed + k) /\ Tied(branches, is, after)
      /\ Found(branches, ids, pool) => Found(branches, is, after)
  BY <1>2, LeftInPool
<1>4. /\ LaunchMaxOfSamples(branches, is, after, initUpdated, stage, nodes)
      /\ loop' = IF stuck THEN "ERROR" ELSE loop
      /\ alg' = IF stuck THEN "over" ELSE alg
      /\ UNCHANGED <<converged, broken, unfinished>>
  BY DEF Continue
<1>5. pushed + k \in 0..MaxSamples /\ branches \in Nat /\ initializing \in Int
  BY <1>1, OptimizerAssumption DEF TypeOK
<1>6. BranchType(branches, pushed + k, is, initUpdated, stage, nodes)
  BY <1>1, <1>5 DEF TypeOK, BranchType, NotRunning, NodeStates
<1>7. /\ ids \in [1..branches -> Int] /\ node \in [1..branches -> NodeStates]
  BY <1>1, OptimizerAssumption DEF TypeOK, BranchType
<1>8. \A c \in 1..branches :
        /\ c # b => is[c] = ids[c] /\ nodes[c] = node[c]
        /\ is[b] = -1 /\ nodes[b] = "DONE"
  BY <1>7 DEF NotRunning
<1> HIDE DEF is, nodes, after
<1>9. AtWork(branches, is, stage, nodes)
  BY <1>1, <1>8 DEF Matched, AtWork
<1>10. /\ PoolType(pool', pushed + k)
       /\ BranchType(branches, pushed + k, ids', initUpdated', stage', node')
       /\ initializing' \in Int
       /\ \A c \in 1..branches : Kept(c, is, stage, nodes) \/ Given(c, is, after)
  BY <1>3, <1>4, <1>5, <1>6, LaunchEffect
<1>11. /\ Tied(branches, ids', pool') /\ Busy(branches, ids', pool')
       /\ Found(branches, is, after) => Found(branches, ids', pool')
       /\ AtWork(branches, ids', stage', node')
  BY <1>3, <1>4, <1>5, <1>6, <1>9, LaunchMatches
<1> HIDE DEF stuck
<1>12. TypeOK'
  BY <1>1, <1>4, <1>5, <1>10 DEF TypeOK, Ended
<1>13. Matched'
  BY <1>1, <1>3, <1>4, <1>11 DEF Matched
<1>14. \A c \in 1..branches : stage'[c] # "finalize"
  BY <1>2, <1>10 DEF Kept, Given
<1>15. Phases'
  BY <1>1, <1>2, <1>4, <1>14 DEF Phases
<1>16. stuck => \A c \in 1..branches : ~(ids'[c] > 0)
  BY <1>10 DEF stuck, Kept, Given, IsFullyLazy, Idle, NotRunning, NotInitialized
<1>17. alg = "started" \/ broken
  BY <1>1, <1>2 DEF Heard
<1>18. Heard'
  BY <1>1, <1>4, <1>14, <1>16, <1>17 DEF Heard
<1>19. AlgorithmReleased'
  BY <1>1, <1>4 DEF AlgorithmReleased, Ended
<1> QED
  BY <1>12, <1>13, <1>15, <1>18, <1>19 DEF OptimizerInv

(* What the pool is when the branch b, whose sample may have its result,   *)
(* ends and the algorithm pushes k more.                                   *)
LEMMA LeftByError ==
  ASSUME OptimizerInv, NEW b \in 1..branches, NEW k \in Nat, pushed + k <= MaxSamples,
         NEW p, p = pool \/ p = [pool EXCEPT ![ids[b]] = "computed"]
  PROVE  PoolType(Pushed(p, k), pushed + k) /\ Tied(branches, ids, Pushed(p, k))
<1> DEFINE q == Pushed(p, k)
           New == pushed + 1 .. pushed + k
<1>1. TypeOK /\ Tied(branches, ids, pool)
  BY DEF OptimizerInv, Matched
<1>2. /\ pushed \in Nat /\ PoolType(pool, pushed)
      /\ ids \in [1..branches -> -1..pushed]
  BY <1>1, OptimizerAssumption DEF TypeOK, BranchType
<1>3. DOMAIN p = Samples /\ \A s \in Samples : p[s] = pool[s] \/ p[s] = "computed"
  BY DEF Samples
<1>4. /\ DOMAIN q = Samples \union New /\ q = [s \in DOMAIN q |-> q[s]]
      /\ \A s \in DOMAIN q : q[s] = IF s \in Samples THEN p[s] ELSE "launchable"
  BY <1>3 DEF Pushed
<1>5. \A s \in Samples : s \in 1..pushed /\ pool[s] \in SampleStates
  BY <1>2 DEF PoolType, Samples
<1> HIDE DEF q
<1>6. PoolType(q, pushed + k)
  BY <1>2, <1>3, <1>4, <1>5 DEF PoolType, SampleStates
<1>7. ASSUME NEW s \in DOMAIN q, q[s] = "inuse" PROVE \E c \in 1..branches : ids[c] = s
  <2>1. s \in Samples /\ pool[s] = "inuse"
    BY <1>3, <1>4, <1>7
  <2> QED
    BY <1>1, <2>1 DEF Tied, Samples
<1>8. ASSUME NEW s \in LaunchableOf(q), NEW c \in 1..branches PROVE ids[c] # s
  <2>1. s \in DOMAIN q /\ q[s] = "launchable"
    BY DEF LaunchableOf
  <2>2. CASE s \in Samples
    <3>1. s \in LaunchableOf(pool)
      BY <1>3, <1>4, <2>1, <2>2 DEF LaunchableOf, Samples
    <3> QED
      BY <1>1, <3>1 DEF Tied
  <2>3. CASE s \in New
    BY <1>2, <2>3
  <2> QED
    BY <1>4, <2>1, <2>2, <2>3
<1>9. Tied(branches, ids, q)
  BY <1>1, <1>7, <1>8 DEF Tied
<1> QED
  BY <1>6, <1>9 DEF q

(* The loop ends because of the branch b, whose sample has its result or   *)
(* is not in the pool, or because of the algorithm.                        *)
LEMMA GivesUpStep ==
  ASSUME OptimizerInv, NEW b \in 1..branches, node[b] = "ACTIVATED", stage[b] = "work",
         ~converged, node' = [node EXCEPT ![b] = "DONE"],
         NEW k \in Nat, pushed + k <= MaxSamples, pushed' = pushed + k,
         NEW p, p = pool \/ p = [pool EXCEPT ![ids[b]] = "computed"],
         pool' = EmptyPool \/ pool' = Pushed(p, k),
         loop' \in {"FAILED", "ERROR"}, alg' = "over", broken' = TRUE,
         UNCHANGED <<runs, async, branches, special, converged, ids, initUpdated,
                     initializing, unfinished, stage>>
  PROVE  OptimizerInv'
<1>1. TypeOK /\ Matched /\ Phases /\ Heard
  BY DEF OptimizerInv
<1>2. /\ ids[b] > 0 /\ ids[b] \in 1..pushed /\ b \in Int
      /\ ~IsFullyLazy(ids) /\ ~Nothing
      /\ \A c \in 1..branches : stage[c] # "finalize"
      /\ loop \notin {"READY", "DONE"} /\ special = "none" /\ branches > 0
  BY RunningHasSample
<1>3. pushed' \in 0..MaxSamples /\ pushed' \in Nat
  BY <1>1, OptimizerAssumption DEF TypeOK
<1>4. BranchType(branches, pushed', ids, initUpdated, stage, node') /\ AtWork(branches, ids, stage, node')
  <2>1. BranchType(branches, pushed', ids, initUpdated, stage, node')
    BY <1>1, <1>3, OptimizerAssumption DEF TypeOK, BranchType, NodeStates
  <2>2. AtWork(branches, ids, stage, node')
    BY <1>1 DEF Matched, AtWork, TypeOK, BranchType
  <2> QED
    BY <2>1, <2>2
<1>5. PoolType(pool', pushed') /\ Tied(branches, ids, pool')
  <2>1. CASE pool' = EmptyPool
    BY <1>1, <1>3, <2>1, EmptyPoolFacts DEF Matched, Tied
  <2>2. CASE pool' = Pushed(p, k)
    BY <2>2, LeftByError
  <2> QED
    BY <2>1, <2>2
<1>6. TypeOK'
  BY <1>1, <1>3, <1>4, <1>5 DEF TypeOK, Ended
<1>7. Matched'
  BY <1>4, <1>5 DEF Matched
<1>8. Phases'
  BY <1>1, <1>2 DEF Phases
<1>9. Heard' /\ AlgorithmReleased'
  BY <1>1, <1>2 DEF Heard, AlgorithmReleased
<1> QED
  BY <1>6, <1>7, <1>8, <1>9 DEF OptimizerInv

LEMMA PushedNone ==
  ASSUME OptimizerInv, NEW p, p = pool \/ \E s : p = [pool EXCEPT ![s] = "computed"]
  PROVE  Pushed(p, 0) = p /\ pushed + 0 = pushed
<1>1. pushed \in Nat
  BY OptimizerAssumption DEF OptimizerInv, TypeOK
<1>2. p = [s \in DOMAIN p |-> p[s]]
  BY DEF OptimizerInv, TypeOK, PoolType
<1>3. DOMAIN p \union (pushed + 1 .. pushed + 0) = DOMAIN p
  BY <1>1
<1> QED
  BY <1>1, <1>2, <1>3 DEF Pushed

LEMMA WorkFinishedStep ==
  ASSUME OptimizerInv, NEW b \in 1..branches, WorkFinished(b) PROVE OptimizerInv'
<1> DEFINE s == ids[b]
           p == [pool EXCEPT ![s] = "computed"]
<1>1. /\ TypeOK /\ Matched /\ Phases /\ Heard
      /\ node[b] = "ACTIVATED" /\ stage[b] = "work"
      /\ UNCHANGED <<runs, async, branches, special>>
  BY DEF OptimizerInv, WorkFinished
<1>2. ids[b] > 0 /\ branches > 0
  BY <1>1, RunningHasSample
<1>3. alg = "started" \/ broken \/ converged
  BY <1>1, <1>2 DEF Heard
<1>4. broken => alg = "over"
  BY <1>1, <1>2 DEF Heard
<1>5. pushed \in pushed..MaxSamples /\ pushed \in Nat
  BY <1>1, OptimizerAssumption DEF TypeOK
<1>6. CASE Ignored(b)
  BY <1>1, <1>6, IgnoredStep
<1>7. CASE loop # "FAILED" /\ converged /\ UNCHANGED pushed /\ Converge(b, alg)
  <2>1. alg \in {"over", "started", "returned"} /\ pushed' \in pushed..MaxSamples
    BY <1>1, <1>5, <1>7 DEF TypeOK
  <2> QED
    BY <1>1, <1>7, <2>1, ConvergeStep
<1>8. CASE ~converged /\ s \notin Samples /\ InternalError(b, pool)
  <2>1. broken
    BY <1>1, <1>2, <1>8 DEF Matched, Found, Samples
  <2>2. broken = TRUE
    BY <1>1, <2>1 DEF TypeOK
  <2>3. Pushed(pool, 0) = pool /\ pushed + 0 = pushed /\ pushed + 0 <= MaxSamples /\ 0 \in Nat
    BY <1>5, PushedNone, OptimizerAssumption
  <2>4. pushed' = pushed + 0 /\ pool' = Pushed(pool, 0)
    BY <1>8, <2>3 DEF InternalError
  <2> QED
    BY <1>1, <1>4, <1>8, <2>1, <2>2, <2>3, <2>4, GivesUpStep DEF InternalError
<1>9. CASE ~converged /\ s \in Samples /\ async /\ alg # "started" /\ InternalError(b, p)
  <2>1. broken
    BY <1>3, <1>9
  <2>2. broken = TRUE
    BY <1>1, <2>1 DEF TypeOK
  <2>3. Pushed(p, 0) = p /\ pushed + 0 = pushed /\ pushed + 0 <= MaxSamples /\ 0 \in Nat
    BY <1>5, PushedNone, OptimizerAssumption
  <2>4. pushed' = pushed + 0 /\ pool' = Pushed(p, 0)
    BY <1>9, <2>3 DEF InternalError
  <2> QED
    BY <1>1, <1>4, <1>9, <2>1, <2>2, <2>3, <2>4, GivesUpStep DEF InternalError
<1>10. CASE /\ loop # "FAILED" /\ ~converged
            /\ s \in Samples /\ (async => alg = "started") /\ Decide(b, s, p)
  <2>1. ASSUME NEW k \in 0..MaxPush, pushed + k <= MaxSamples, pushed' = pushed + k,
               Continue(b, Without(Pushed(p, k), s))
        PROVE  OptimizerInv'
    <3>1. k \in Nat
      BY OptimizerAssumption
    <3> QED
      BY <1>1, <1>10, <2>1, <3>1, ContinueStep
  <2>2. ASSUME NEW k \in 0..MaxPush, pushed + k <= MaxSamples, pushed' = pushed + k,
               Converge(b, alg)
        PROVE  OptimizerInv'
    <3>1. alg \in {"over", "started", "returned"} /\ pushed' \in pushed..MaxSamples
      BY <1>1, <1>5, <2>2, OptimizerAssumption DEF TypeOK
    <3> QED
      BY <1>1, <2>2, <3>1, ConvergeStep
  <2>3. ASSUME pushed' = pushed, NEW returns \in {FALSE, async},
               Converge(b, IF returns THEN "returned" ELSE alg)
        PROVE  OptimizerInv'
    <3> DEFINE algNow == IF returns THEN "returned" ELSE alg
    <3>1. algNow \in {"over", "started", "returned"} /\ pushed' \in pushed..MaxSamples
      BY <1>1, <1>5, <2>3 DEF TypeOK
    <3>2. returns => async
      BY <1>1 DEF TypeOK
    <3>3. alg = "over" => algNow = "over"
      BY <1>10, <3>2
    <3>4. Converge(b, algNow)
      BY <2>3
    <3> HIDE DEF algNow
    <3> QED
      BY <1>1, <3>1, <3>3, <3>4, ConvergeStep
  <2>4. ASSUME NEW k \in 0..MaxPush, pushed + k <= MaxSamples, pushed' = pushed + k,
               pool' \in {EmptyPool, Pushed(p, k)},
               node' = [node EXCEPT ![b] = "DONE"],
               loop' = "FAILED", broken' = TRUE, alg' = "over",
               UNCHANGED <<converged, ids, initUpdated, initializing, unfinished, stage>>
        PROVE  OptimizerInv'
    <3>1. k \in Nat
      BY OptimizerAssumption
    <3> QED
      BY <1>1, <1>10, <2>4, <3>1, GivesUpStep
  <2> QED
    BY <1>10, <2>1, <2>2, <2>3, <2>4 DEF Decide
<1> QED
  BY <1>6, <1>7, <1>8, <1>9, <1>10 DEF WorkFinished

(* A turn in which the fake node of the special cases runs instead of the  *)
(* branches.                                                               *)
LEMMA BeginSpecialStep ==
  ASSUME OptimizerInv, loop = "READY", loop' = "TOACTIVATE",
         UNCHANGED <<runs, async, converged, broken>>,
         NEW kind \in {"normal", "error"}, NEW algNow \in {"over", "started", "returned"},
         NEW k \in 0..MaxSamples, NEW p, PoolType(p, k), \A s \in DOMAIN p : p[s] = "launchable",
         BeginSpecial(kind, algNow, p, k)
  PROVE  OptimizerInv'
<1>1. TypeOK /\ Matched /\ Phases /\ branches = 0
  BY DEF OptimizerInv, Phases
<1>2. /\ special' = kind /\ alg' = algNow /\ pool' = p /\ pushed' = k
      /\ branches' = branches /\ UNCHANGED branchVars
  BY DEF BeginSpecial
<1>3. BranchType(branches, k, ids, initUpdated, stage, node)
  BY <1>1 DEF TypeOK, BranchType
<1>4. TypeOK'
  BY <1>1, <1>2, <1>3 DEF TypeOK, branchVars
<1>5. Matched'
  BY <1>1, <1>2 DEF Matched, Tied, Found, AtWork, branchVars
<1>6. Phases' /\ Heard' /\ AlgorithmReleased'
  BY <1>1, <1>2 DEF Phases, Heard, AlgorithmReleased, branchVars, Ended
<1> QED
  BY <1>4, <1>5, <1>6 DEF OptimizerInv

LEMMA BeginBranchesStep ==
  ASSUME OptimizerInv, loop = "READY", loop' = "TOACTIVATE",
         UNCHANGED <<runs, async, converged, broken>>,
         NEW n \in Nat, NEW k \in 0..MaxSamples, NEW p, PoolType(p, k),
         \A s \in DOMAIN p : p[s] = "launchable",
         BeginBranches(n, p), pushed' = k, alg' = "started"
  PROVE  OptimizerInv'
<1> DEFINE is == [b \in 1..n |-> NotInitialized]
           upd == [b \in 1..n |-> FALSE]
           stages == [b \in 1..n |-> "work"]
           nodes == [b \in 1..n |-> "READY"]
<1>1. TypeOK /\ Phases /\ ~converged /\ ~broken
  BY DEF OptimizerInv, Phases
<1>2. /\ special' = "none" /\ branches' = n /\ unfinished' = unfinished
      /\ LaunchMaxOfSamples(n, is, p, upd, stages, nodes)
  BY DEF BeginBranches
<1>3. \A b \in 1..n : is[b] = 0 /\ stages[b] = "work" /\ nodes[b] = "READY"
  BY DEF NotInitialized
<1>4. BranchType(n, k, is, upd, stages, nodes)
  BY DEF BranchType, NodeStates, NotInitialized
<1> HIDE DEF is, upd, stages, nodes
<1>5. Tied(n, is, p) /\ Found(n, is, p) /\ AtWork(n, is, stages, nodes)
  BY <1>3 DEF Tied, Found, AtWork, LaunchableOf, PoolType
<1>6. initializing \in Int /\ unfinished \in Int
  BY <1>1 DEF TypeOK
<1>7. /\ PoolType(pool', k) /\ BranchType(n, k, ids', initUpdated', stage', node')
      /\ initializing' \in Int
      /\ \A b \in 1..n : Kept(b, is, stages, nodes) \/ Given(b, is, p)
  BY <1>2, <1>4, <1>6, LaunchEffect
<1>8. /\ Tied(n, ids', pool') /\ Busy(n, ids', pool') /\ Found(n, ids', pool')
      /\ AtWork(n, ids', stage', node')
  BY <1>2, <1>4, <1>5, <1>6, LaunchMatches
<1>9. \A b \in 1..n : stage'[b] # "finalize"
  BY <1>3, <1>7 DEF Kept, Given
<1>10. TypeOK'
  BY <1>1, <1>2, <1>6, <1>7 DEF TypeOK
<1>11. Matched'
  BY <1>2, <1>8 DEF Matched
<1>12. Phases'
  BY <1>1, <1>2, <1>9 DEF Phases
<1>13. Heard' /\ AlgorithmReleased'
  BY <1>1, <1>2, <1>9 DEF Heard, AlgorithmReleased, Ended
<1> QED
  BY <1>10, <1>11, <1>12, <1>13 DEF OptimizerInv

LEMMA BeginStep ==
  ASSUME OptimizerInv, Begin PROVE OptimizerInv'
<1>1. loop = "READY" /\ loop' = "TOACTIVATE" /\ UNCHANGED <<runs, async, converged, broken>>
  BY DEF Begin
<1>2. DOMAIN EmptyPool = {} /\ \A k \in Nat : PoolType(EmptyPool, k)
  BY EmptyPoolFacts
<1>3. CASE BeginSpecial("error", "over", EmptyPool, 0)
  <2>1. 0 \in 0..MaxSamples /\ PoolType(EmptyPool, 0)
    BY <1>2, OptimizerAssumption
  <2> QED
    BY <1>1, <1>2, <1>3, <2>1, BeginSpecialStep
<1>4. ASSUME NEW k \in 0..MaxPush, NEW returns \in {FALSE, async}, k <= MaxSamples,
             BeginStarted(k, returns)
      PROVE  OptimizerInv'
  <2> DEFINE first == IF returns THEN EmptyPool ELSE [s \in 1..k |-> "launchable"]
             started == IF returns THEN "returned" ELSE "started"
  <2>1. k \in 0..MaxSamples /\ k \in Nat
    BY <1>4, OptimizerAssumption
  <2>2. PoolType(first, k) /\ \A s \in DOMAIN first : first[s] = "launchable"
    <3>1. CASE first = EmptyPool
      BY <1>2, <2>1, <3>1
    <3>2. CASE first = [s \in 1..k |-> "launchable"]
      BY <3>2 DEF PoolType, SampleStates
    <3> QED
      BY <3>1, <3>2
  <2>3. started \in {"over", "started", "returned"}
    OBVIOUS
  <2>4. first # EmptyPool => started = "started"
    OBVIOUS
  <2>5. \E n \in BranchCounts :
          \/ n = 0 /\ \E kind \in {"normal", "error"} : BeginSpecial(kind, started, first, k)
          \/ /\ n > 0 /\ first = EmptyPool
             /\ \E kind \in {"normal", "error"} : BeginSpecial(kind, "over", EmptyPool, k)
          \/ /\ n > 0 /\ first # EmptyPool
             /\ BeginBranches(n, first)
             /\ pushed' = k /\ alg' = started
    BY <1>4 DEF BeginStarted
  <2> HIDE DEF first, started
  <2>6. ASSUME NEW kind \in {"normal", "error"}, BeginSpecial(kind, started, first, k)
        PROVE  OptimizerInv'
    BY <1>1, <2>1, <2>2, <2>3, <2>6, BeginSpecialStep
  <2>7. ASSUME NEW kind \in {"normal", "error"}, BeginSpecial(kind, "over", EmptyPool, k)
        PROVE  OptimizerInv'
    BY <1>1, <1>2, <2>1, <2>7, BeginSpecialStep
  <2>8. ASSUME NEW n \in BranchCounts, BeginBranches(n, first), pushed' = k,
               alg' = "started"
        PROVE  OptimizerInv'
    <3>1. n \in Nat
      BY OptimizerAssumption
    <3> QED
      BY <1>1, <2>1, <2>2, <2>8, <3>1, BeginBranchesStep
  <2> QED
    BY <2>4, <2>5, <2>6, <2>7, <2>8
<1> QED
  BY <1>3, <1>4 DEF Begin

LEMMA RunSpecialStep ==
  ASSUME OptimizerInv, RunSpecial PROVE OptimizerInv'
<1>1. TypeOK /\ Matched /\ Phases /\ branches = 0
  BY DEF OptimizerInv, Phases, RunSpecial
<1>2. broken' \in BOOLEAN
  BY DEF RunSpecial
<1>3. TypeOK'
  BY <1>1, <1>2 DEF TypeOK, RunSpecial, poolVars, branchVars, Ended
<1>4. Matched'
  BY <1>1 DEF Matched, Found, RunSpecial, poolVars, branchVars
<1>5. Phases' /\ Heard' /\ AlgorithmReleased'
  BY <1>1 DEF Phases, Heard, AlgorithmReleased, RunSpecial, poolVars, branchVars
<1> QED
  BY <1>3, <1>4, <1>5 DEF OptimizerInv

LEMMA AgainStep ==
  ASSUME OptimizerInv, Again PROVE OptimizerInv'
<1>1. TypeOK /\ Matched /\ Phases
  BY DEF OptimizerInv
<1>2. BranchType(0, pushed, NoBranch, NoBranch, NoBranch, NoBranch)
  BY DEF BranchType, NoBranch
<1>3. \A s \in Samples : pool[s] # "inuse"
  <2>1. CASE branches > 0
    BY <1>1, <2>1, EmptyPoolFacts DEF Phases, Nothing, Again, Samples
  <2>2. CASE branches = 0
    BY <1>1, <2>2 DEF Matched, Tied, Samples
  <2> QED
    BY <1>1, <2>1, <2>2 DEF TypeOK
<1>4. converged' \in BOOLEAN /\ broken' \in BOOLEAN /\ ~converged' /\ ~broken'
  BY DEF Again, InitConverged
<1>5. TypeOK'
  BY <1>1, <1>2, <1>4 DEF TypeOK, Again, poolVars, Ended
<1>6. Matched'
  BY <1>3 DEF Matched, Tied, Found, Busy, AtWork, Again, poolVars, Samples
<1>7. Phases'
  BY <1>4 DEF Phases, Again
<1>8. Heard' /\ AlgorithmReleased'
  BY <1>4 DEF Heard, AlgorithmReleased, Again
<1> QED
  BY <1>5, <1>6, <1>7, <1>8 DEF OptimizerInv

LEMMA NextKeeps ==
  OptimizerInv /\ [Next]_vars => OptimizerInv'
<1> SUFFICES ASSUME OptimizerInv, [Next]_vars PROVE OptimizerInv'
  OBVIOUS
<1>1. CASE Begin
  BY <1>1, BeginStep
<1>2. CASE RunSpecial
  BY <1>2, RunSpecialStep
<1>3. ASSUME NEW b \in 1..branches,
             \/ Select(b)
             \/ Start(b)
             \/ InitFinished(b)
             \/ WorkFinished(b)
             \/ FinalizeFinished(b)
             \/ NodeFailed(b)
      PROVE  OptimizerInv'
  BY <1>3, SelectStep, StartStep, InitFinishedStep, WorkFinishedStep,
     FinalizeFinishedStep, NodeFailedStep
<1>4. CASE Again
  BY <1>4, AgainStep
<1>5. CASE UNCHANGED vars
  BY <1>5 DEF vars, poolVars, branchVars, OptimizerInv, TypeOK, Matched, Phases, Heard,
     AlgorithmReleased, Nothing, IsFullyLazy, Idle
<1> QED
  BY <1>1, <1>2, <1>3, <1>4, <1>5 DEF Next, Advance

LEMMA InvHolds == Spec => []OptimizerInv
  BY InitHolds, NextKeeps, PTL DEF Spec

-----------------------------------------------------------------------------
(* The theorems.                                                           *)

(* The loop, its pool and its branches stay in their types in every run.   *)
THEOREM OptimizerTypeCorrect == Spec => []TypeOK
<1>1. OptimizerInv => TypeOK
  BY DEF OptimizerInv
<1> QED
  BY <1>1, InvHolds, PTL

(* A sample in use in the pool is that of exactly one branch, a branch     *)
(* finds its sample in the pool until the algorithm has converged or       *)
(* something has failed, and the flag of convergence is up with an empty   *)
(* pool only (Pool.cxx:150, OptimizerLoop.cxx:340).                        *)
THEOREM ResultsReachTheirSample == Spec => []InUseIsRunning
<1>1. OptimizerInv => InUseIsRunning
  <2> SUFFICES ASSUME OptimizerInv PROVE InUseIsRunning
    OBVIOUS
  <2>1. TypeOK /\ Matched /\ Phases
    BY DEF OptimizerInv
  <2>2. ASSUME NEW s \in Samples, pool[s] = "inuse"
        PROVE  Cardinality({b \in 1..branches : ids[b] = s}) = 1
    <3>1. PICK b \in 1..branches : ids[b] = s
      BY <2>1, <2>2 DEF Matched, Tied, Samples
    <3>2. s > 0
      BY <2>1 DEF TypeOK, PoolType, Samples
    <3>3. {c \in 1..branches : ids[c] = s} = {b}
      BY <2>1, <3>1, <3>2 DEF Matched, Tied
    <3> QED
      BY <3>3, FS_Singleton
  <2> QED
    BY <2>1, <2>2 DEF InUseIsRunning, Matched, Found, Phases, Samples
<1> QED
  BY <1>1, InvHolds, PTL

(* No branch is idle while a sample waits to be evaluated                  *)
(* (launchMaxOfSamples, OptimizerLoop.cxx:561), in a run where nothing     *)
(* has failed.                                                             *)
THEOREM SamplesAreTaken == Spec => []NoSampleWaits
<1>1. OptimizerInv => NoSampleWaits
  BY DEF OptimizerInv, Matched, Busy, NoSampleWaits
<1> QED
  BY <1>1, InvHolds, PTL

(* A loop with branches that has ended, whatever the path, has finished    *)
(* its algorithm and joined its slave thread.                              *)
THEOREM EndedIsReleased == Spec => []AlgorithmReleased
<1>1. OptimizerInv => AlgorithmReleased
  BY DEF OptimizerInv
<1> QED
  BY <1>1, InvHolds, PTL

-----------------------------------------------------------------------------
(* That a call of an asynchronous algorithm is one step: its two threads   *)
(* run alternately, whatever the number of slaves and of turns, if no wait *)
(* ends without a signal.                                                  *)

(* The states of a slave that has handed the control back.                 *)
HandedBack ==
  /\ answered = asked
  /\ \/ slave = "waiting" /\ status \in {"NORMAL_CYCLE", "TERMINATION_REQUESTED"}
     \/ slave = "ended" /\ status = "READY_TO_JOIN"
  /\ call = "cancel" => slave = "ended"

(* Those of a slave that has the turn, and who holds the mutex meanwhile.  *)
HasTurn ==
  /\ asked = answered + 1
  /\ \/ slave = "created" /\ status = "UNEXISTING" /\ mutex = "free" /\ call # "cancel"
     \/ /\ slave = "woken" /\ mutex = "free" /\ call # "cancel"
        /\ status \in {"NORMAL_CYCLE", "TERMINATION_REQUESTED"}
     \/ /\ slave = "running" /\ mutex = "slave" /\ call # "cancel"
        /\ status \in {"NORMAL_CYCLE", "TERMINATION_REQUESTED"}
     \/ slave = "cancelled" /\ mutex = "free" /\ call = "cancel"

(* One of the two threads is the one to go on, and the mutex tells which.  *)
Turns ==
  /\ asked \in Nat /\ answered \in Nat
  /\ \/ master = "out" /\ slave = "none" /\ status = "UNEXISTING" /\ mutex = "free"
     \/ master = "waiting" /\ HasTurn
     \/ master = "woken" /\ HandedBack /\ mutex = "free"
     \/ master = "running" /\ HandedBack /\ mutex = "master"

LEMMA TurnsInit == ThreadsInit => Turns
BY DEF ThreadsInit, Turns

LEMMA TurnsNext == ~Spurious /\ Turns /\ [ThreadsNext]_threadVars => Turns'
<1> SUFFICES ASSUME ~Spurious, Turns, [ThreadsNext]_threadVars PROVE Turns'
  OBVIOUS
<1> USE DEF Turns, HasTurn, HandedBack
<1>1. CASE StartSlave
  BY <1>1 DEF StartSlave, MasterAfterCreate
<1>2. CASE Ask
  BY <1>2 DEF Ask, GiveTurn, Signalled
<1>3. CASE Terminate
  BY <1>3 DEF Terminate, GiveTurn, Signalled
<1>4. CASE Insist
  BY <1>4 DEF Insist, Cancelled
<1>5. CASE Join
  BY <1>5 DEF Join
<1>6. CASE SlaveBegins
  BY <1>6 DEF SlaveBegins
<1>7. CASE SlaveAnswers
  BY <1>7 DEF SlaveAnswers, Signalled
<1>8. CASE SlaveEnds
  BY <1>8 DEF SlaveEnds, Signalled
<1>9. CASE MasterWakes
  BY <1>9 DEF MasterWakes, MayWake
<1>10. CASE SlaveWakes
  BY <1>10 DEF SlaveWakes, MayWake
<1>11. CASE UNCHANGED threadVars
  BY <1>11 DEF threadVars
<1> QED
  BY <1>1, <1>2, <1>3, <1>4, <1>5, <1>6, <1>7, <1>8, <1>9, <1>10, <1>11
  DEF ThreadsNext, Threads

(* Without spurious wakeups the two threads never run at once, and the     *)
(* master goes on only when the slave has taken every turn it was given    *)
(* (AlternateThreadPT::signalAndWait).                                     *)
THEOREM ThreadsAlternate == ~Spurious => (ThreadsSpec => []Alternate)
<1> SUFFICES ASSUME ~Spurious PROVE ThreadsSpec => []Alternate
  OBVIOUS
<1>1. Turns => Alternate
  BY DEF Turns, HasTurn, HandedBack, Alternate
<1>2. Turns /\ [ThreadsNext]_threadVars => Turns'
  BY TurnsNext
<1> QED
  BY TurnsInit, <1>1, <1>2, PTL DEF ThreadsSpec

(* The assertion that follows a cancelled slave never fails: the slave has *)
(* ended when the master is back (AlternateThreadPT.cxx:88).               *)
THEOREM CancelEnds ==
  ~Spurious => (ThreadsSpec => [](master # "failed"
                                     /\ (master = "running" /\ call = "cancel"
                                           => status = "READY_TO_JOIN")))
<1> SUFFICES ASSUME ~Spurious
             PROVE ThreadsSpec => [](master # "failed"
                                        /\ (master = "running" /\ call = "cancel"
                                              => status = "READY_TO_JOIN"))
  OBVIOUS
<1>1. Turns => (master # "failed"
                  /\ (master = "running" /\ call = "cancel" => status = "READY_TO_JOIN"))
  BY DEF Turns, HasTurn, HandedBack
<1>2. Turns /\ [ThreadsNext]_threadVars => Turns'
  BY TurnsNext
<1> QED
  BY TurnsInit, <1>1, <1>2, PTL DEF ThreadsSpec

=============================================================================
