---------------------------- MODULE Composed_proofs ----------------------------
(***************************************************************************)
(* The order of the tasks of a hierarchy of nodes, in the first run of any *)
(* schema, and how this run ends: proofs about Composed.                   *)
(***************************************************************************)
EXTENDS Composed, FiniteSetTheorems, WellFoundedInduction, TLAPS

-----------------------------------------------------------------------------
(* The hypothesis, and the inductive invariant.                            *)

ForEachs == {c \in Controls : Kind[c] = "foreach"}
Chain(n) == {n} \union Ancestors[n]
Inside(n) == {n} \union Below[n]

(* In a schema that keeps going after a failure, a task that fails to load *)
(* is in no structure inside the ForEachLoop that will go on: else the     *)
(* loop starts it again while it is in _tasks, and launchTasks takes it    *)
(* for a task that was loaded and is due (Executor.cxx:928).  And a        *)
(* structure is not the body of a ForEachLoop, which would not know its    *)
(* fake node (DynParaLoop.cxx:413).                                        *)
Tame ==
  /\ \A c \in ForEachs : Children[c] \intersect Controls = {}
  /\ \A s \in Schemas : TRUE \in KeepGoings[s] =>
       \A c \in ForEachs \intersect Below[s] : \A t \in Unloadable \intersect Below[c] :
         Ancestors[t] \intersect Below[c] \intersect Controls = {}

(* What tells that something has failed in n, for as long as n is not      *)
(* started again.                                                          *)
Hard(g, n) == g.node[n] = "ERROR" \/ (n \in Controls /\ g.errors[n] # 0)
Clean(g, n) == \A m \in Inside(n) : ~Hard(g, m)

(* Nothing has happened below n.                                           *)
Pristine(g, n) ==
  /\ \A m \in Below[n] : g.node[m] = "READY"
  /\ \A l \in g.arrived : l[2] \notin Below[n]
  /\ \A c \in Controls \intersect Inside(n) : g.errors[c] = 0

(* The gate of n is closed.                                                *)
Waiting(g, n) == \E p \in Predecessors[n] : <<p, n>> \notin g.arrived

Flags(g) == \A l \in g.arrived : g.node[l[1]] = "DONE"

Unstarted(g) ==
  \A n \in Nodes :
    /\ Waiting(g, n) => g.node[n] \in {"READY", "FAILED"} /\ Pristine(g, n)
    /\ g.node[n] = "READY" => Pristine(g, n)

Cases(g) ==
  \A c \in Controls : Kind[c] = "switch" =>
    \A n \in Children[c] : g.runs[c] # n => g.node[n] = "READY"

AtWork == {"TOLOAD", "TOACTIVATE", "ACTIVATED"}

(* _execIds: a branch at work, or with a failure not counted yet, has a    *)
(* sample.                                                                 *)
Ids(g) ==
  \A c \in ForEachs : \A n \in Children[c] :
    /\ g.node[n] \in AtWork => g.ids[n] # NotRunning
    /\ ~Clean(g, n) => g.errors[c] # 0 \/ g.ids[n] # NotRunning

DoneIsClean(g) == \A n \in Nodes : g.node[n] = "DONE" => Clean(g, n)

FakeIsClean(g) ==
  \A c \in Controls : g.runs[c] \in FakeRuns /\ g.node[c] = "ACTIVATED" => Clean(g, c)

(* A node fails for a failure beside it, or below it.                      *)
Causes(g) ==
  \A n \in Nodes : Father[n] # NoNode /\ g.node[n] \in {"FAILED", "ERROR"} => ~Clean(g, Father[n])

Counted(kg, g) == \A c \in Controls : g.errors[c] # 0 => kg /\ c \in ForEachs

Outside(r, g) == \A n \in Nodes \ Inside(r) : g.node[n] = "READY"

(* Whether what runs has a father that runs: without keep-going, a         *)
(* ForEachLoop fails before its other branches have ended.                 *)
Lasts(r) == keepGoing \/ ForEachs \intersect Below[r] = {}
Suits(r, kg) == kg => TRUE \in KeepGoings[r] \/ ForEachs \intersect Below[r] = {}

(* The father of k runs k, or has failed while k was running: kg is        *)
(* Lasts(r).                                                               *)
Open(kg, g, k) ==
  LET f == Father[k]
  IN  f # NoNode =>
        /\ \/ g.node[f] = "ACTIVATED"
           \/ ~kg /\ g.node[f] = "FAILED" /\ ~Clean(g, f)
        /\ CASE Kind[f] = "bloc"   -> TRUE
             [] Kind[f] = "switch" -> g.runs[f] = k
             [] OTHER              -> g.runs[f] = "body"

Attended(kg, g, u) ==
  /\ \A k \in Chain(Owner(u)) : Open(kg, g, k)
  /\ u \in Fakes => g.node[Owner(u)] = "ACTIVATED" /\ g.runs[Owner(u)] \in FakeRuns

(* The tasks RunB deals with: lo are those it may have to load, la those   *)
(* it may have to launch, ru those that run.                               *)
Active(g, lo, la, ru) ==
  {u \in lo : g.node[u] = "TOLOAD"} \union {u \in la : g.node[u] = "TOACTIVATE"} \union ru

Acts(kg, g, lo, la, ru) ==
  /\ \A u \in Active(g, lo, la, ru) : Attended(kg, g, u)
  /\ \A u \in ru : g.node[u] = "ACTIVATED"

(* Those it deals with no longer have failed to load.                      *)
Lapsed(kg, g, lo, la, ru) ==
  /\ \A u \in la : u \in Active(g, lo, la, ru) \/ u \in Unloadable
  /\ \A u \in lo : \/ u \in Active(g, lo, la, ru)
                   \/ Hard(g, u)
                   \/ \E c \in ForEachs \intersect Ancestors[u] : g.errors[c] # 0

Ordered(r, kg, g) ==
  /\ Flags(g) /\ Unstarted(g) /\ Cases(g) /\ Ids(g) /\ DoneIsClean(g) /\ FakeIsClean(g)
  /\ Causes(g) /\ Counted(kg, g) /\ Outside(r, g)

Marked(r, g) == \E m \in Inside(r) : Hard(g, m)

ToLoad == IF phase = "load" THEN picked ELSE {}
ToLaunch == IF phase = "load" THEN picked ELSE IF phase = "launch" THEN pending ELSE {}

Lasting == Lasts(root)

FirstRun ==
  restarts = 0 =>
    /\ Ordered(root, Lasting, graph)
    /\ Acts(Lasting, graph, ToLoad, ToLaunch, running)
    /\ Lapsed(Lasting, graph, ToLoad, ToLaunch, running)
    /\ running \intersect ToLaunch = {}
    /\ \A t \in loading : phase = "load" /\ t \in picked /\ graph.node[t] = "TOLOAD"
    /\ failed => Marked(root, graph)

-----------------------------------------------------------------------------
(* The hierarchy.  next[n] are the nodes one step from n, far[n] those any *)
(* number of steps away: the father and the ancestors, or the successors   *)
(* and what is behind.                                                     *)

(* The recursive equation of Ancestors and of Behind has a solution.       *)
LEMMA FarExists ==
  ASSUME NEW next \in [Nodes -> SUBSET Nodes]
  PROVE  \E far \in [Nodes -> SUBSET Nodes] :
           \A n \in Nodes : far[n] = next[n] \union UNION {far[m] : m \in next[n]}
<1> DEFINE closed(n, s) == next[n] \subseteq s /\ \A k \in s : next[k] \subseteq s
           far == [n \in Nodes |-> {m \in Nodes : \A s \in SUBSET Nodes : closed(n, s) => m \in s}]
<1>1. \A n \in Nodes : next[n] \subseteq far[n] /\ \A k \in far[n] : next[k] \subseteq far[n]
  OBVIOUS
<1>2. \A n \in Nodes : \A m \in next[n] : far[m] \subseteq far[n]
  OBVIOUS
<1>3. \A n \in Nodes, s \in SUBSET Nodes : closed(n, s) => far[n] \subseteq s
  OBVIOUS
<1>4. far \in [Nodes -> SUBSET Nodes]
  OBVIOUS
<1> HIDE DEF far
<1>5. ASSUME NEW n \in Nodes
      PROVE  far[n] \subseteq next[n] \union UNION {far[m] : m \in next[n]}
  <2> DEFINE s == next[n] \union UNION {far[m] : m \in next[n]}
  <2>1. s \in SUBSET Nodes
    BY <1>4
  <2>2. closed(n, s)
    <3> SUFFICES ASSUME NEW k \in s PROVE next[k] \subseteq s
      OBVIOUS
    <3>1. CASE k \in next[n]
      BY <1>1, <3>1
    <3>2. CASE \E m \in next[n] : k \in far[m]
      BY <1>1, <3>2
    <3> QED BY <3>1, <3>2
  <2> QED BY <1>3, <2>1, <2>2
<1>6. \A n \in Nodes : far[n] = next[n] \union UNION {far[m] : m \in next[n]}
  BY <1>1, <1>2, <1>5
<1> QED BY <1>4, <1>6

LEMMA LeastIs ==
  ASSUME NEW s \in SUBSET Nat, s # {}
  PROVE  \E k \in s : \A i \in s : ~(i < k)
<1>1. PICK k \in s : \A i \in s : ~(<<i, k>> \in OpToRel(<, Nat))
  BY NatLessThanWellFounded, WFMin
<1> QED BY <1>1 DEF OpToRel

LEMMA Less == \A x, y \in Nat : x <= y /\ x # y => x < y
OBVIOUS

(* Induction along the steps: what holds of n when it holds of the nodes   *)
(* one step from n holds of all, if no node is far from itself.            *)
LEMMA FarInduction ==
  ASSUME NEW next \in [Nodes -> SUBSET Nodes], NEW far \in [Nodes -> SUBSET Nodes],
         \A n \in Nodes : far[n] = next[n] \union UNION {far[m] : m \in next[n]},
         \A n \in Nodes : n \notin far[n],
         NEW s, \A n \in Nodes : next[n] \subseteq s => n \in s
  PROVE  Nodes \subseteq s
<1> SUFFICES ASSUME Nodes \ s # {} PROVE FALSE
  OBVIOUS
<1> DEFINE sizes == {Cardinality(far[n]) : n \in Nodes \ s}
<1>1. \A n \in Nodes : IsFiniteSet(far[n]) /\ Cardinality(far[n]) \in Nat
  BY HierarchyAssumption, FS_Subset, FS_CardinalityType
<1>2. PICK least \in sizes : \A i \in sizes : ~(i < least)
  <2>1. sizes \in SUBSET Nat /\ sizes # {}
    BY <1>1
  <2> HIDE DEF sizes
  <2> QED BY <2>1, LeastIs
<1>3. PICK n \in Nodes \ s : least = Cardinality(far[n])
  BY <1>2
<1>4. PICK m \in next[n] : m \notin s
  BY <1>3
<1>5. m \in Nodes /\ far[m] \subseteq far[n] /\ m \in far[n] /\ m \notin far[m]
  BY <1>3, <1>4
<1>6. Cardinality(far[m]) < Cardinality(far[n])
  <2>1. IsFiniteSet(far[n]) /\ far[m] \in SUBSET far[n] /\ far[m] # far[n]
    BY <1>1, <1>3, <1>5
  <2>2. Cardinality(far[m]) <= Cardinality(far[n]) /\ Cardinality(far[m]) # Cardinality(far[n])
    BY <2>1, FS_Subset
  <2>3. Cardinality(far[m]) \in Nat /\ Cardinality(far[n]) \in Nat
    BY <1>1, <1>3, <1>5
  <2> QED BY <2>2, <2>3, Less
<1> QED BY <1>2, <1>3, <1>4, <1>5, <1>6

(* next, for the ancestors.                                                *)
Fathers == [n \in Nodes |-> IF Father[n] = NoNode THEN {} ELSE {Father[n]}]

LEMMA AncestorsAre ==
  /\ Fathers \in [Nodes -> SUBSET Nodes]
  /\ Ancestors \in [Nodes -> SUBSET Nodes]
  /\ \A n \in Nodes : Ancestors[n] = Fathers[n] \union UNION {Ancestors[m] : m \in Fathers[n]}
  /\ \A n \in Nodes : n \notin Ancestors[n]
<1> DEFINE eq(f) == [n \in Nodes |-> IF Father[n] = NoNode THEN {}
                                     ELSE {Father[n]} \union f[Father[n]]]
<1>1. Fathers \in [Nodes -> SUBSET Nodes]
  BY ComposedAssumption DEF Fathers
<1>2. PICK far \in [Nodes -> SUBSET Nodes] :
        \A n \in Nodes : far[n] = Fathers[n] \union UNION {far[m] : m \in Fathers[n]}
  BY <1>1, FarExists
<1>3. far = eq(far)
  <2>1. \A n \in Nodes : far[n] = eq(far)[n]
    BY <1>2 DEF Fathers
  <2> QED BY <2>1
<1>4. Ancestors = eq(Ancestors)
  <2> DEFINE f == CHOOSE f : f = eq(f)
  <2>1. f = eq(f)
    <3> HIDE DEF eq
    <3> QED BY <1>3
  <2>2. Ancestors = f
    BY DEF Ancestors
  <2> QED BY <2>1, <2>2
<1>5. \A n \in Nodes : Ancestors[n] = Fathers[n] \union UNION {Ancestors[m] : m \in Fathers[n]}
  <2> SUFFICES ASSUME NEW n \in Nodes
               PROVE  Ancestors[n] = Fathers[n] \union UNION {Ancestors[m] : m \in Fathers[n]}
    OBVIOUS
  <2>1. CASE Father[n] = NoNode
    <3>1. Fathers[n] = {} /\ Ancestors[n] = {}
      BY <1>4, <2>1 DEF Fathers
    <3> QED BY <3>1
  <2>2. CASE Father[n] # NoNode
    <3>1. Fathers[n] = {Father[n]} /\ Ancestors[n] = {Father[n]} \union Ancestors[Father[n]]
      BY <1>4, <2>2 DEF Fathers
    <3> QED BY <3>1
  <2> QED BY <2>1, <2>2
<1>6. \A n \in Nodes : n \notin Ancestors[n]
  BY HierarchyAssumption
<1>7. \A n \in Nodes : Ancestors[n] \subseteq Nodes
  <2> DEFINE trim == [n \in Nodes |-> Ancestors[n] \intersect Nodes]
             good == {n \in Nodes : Ancestors[n] \subseteq Nodes}
  <2>1. trim \in [Nodes -> SUBSET Nodes] /\ \A n \in Nodes : n \notin trim[n]
    BY <1>6
  <2>2. ASSUME NEW n \in Nodes
        PROVE  trim[n] = Fathers[n] \union UNION {trim[m] : m \in Fathers[n]}
    <3>1. Fathers[n] \subseteq Nodes
      BY <1>1
    <3>2. trim[n] = Nodes \intersect Ancestors[n] /\ \A m \in Nodes : trim[m] = Nodes \intersect Ancestors[m]
      OBVIOUS
    <3> HIDE DEF trim
    <3>3. Ancestors[n] = Fathers[n] \union UNION {Ancestors[m] : m \in Fathers[n]}
      BY <1>5
    <3>4. trim[n] \subseteq Fathers[n] \union UNION {trim[m] : m \in Fathers[n]}
      BY <3>1, <3>2, <3>3
    <3>5. Fathers[n] \union UNION {trim[m] : m \in Fathers[n]} \subseteq trim[n]
      BY <3>1, <3>2, <3>3
    <3> QED BY <3>4, <3>5
  <2>3. \A n \in Nodes : Fathers[n] \subseteq good => n \in good
    BY <1>1, <1>5
  <2> HIDE DEF trim, good
  <2>4. Nodes \subseteq good
    BY <1>1, <2>1, <2>2, <2>3, FarInduction
  <2> QED BY <2>4 DEF good
<1> QED BY <1>1, <1>4, <1>5, <1>6, <1>7

LEMMA BehindIs ==
  /\ Successors \in [Nodes -> SUBSET Nodes]
  /\ Behind \in [Nodes -> SUBSET Nodes]
  /\ \A n \in Nodes : Behind[n] = Successors[n] \union UNION {Behind[m] : m \in Successors[n]}
  /\ \A n \in Nodes : n \notin Behind[n]
<1> DEFINE eq(f) == [n \in Nodes |-> Successors[n] \union UNION {f[m] : m \in Successors[n]}]
<1>1. Successors \in [Nodes -> SUBSET Nodes]
  BY DEF Successors
<1>2. PICK far \in [Nodes -> SUBSET Nodes] :
        \A n \in Nodes : far[n] = Successors[n] \union UNION {far[m] : m \in Successors[n]}
  BY <1>1, FarExists
<1>3. far = eq(far)
  <2>1. \A n \in Nodes : far[n] = eq(far)[n]
    BY <1>2
  <2> QED BY <2>1
<1>4. Behind = eq(Behind)
  <2> DEFINE f == CHOOSE f : f = eq(f)
  <2>1. f = eq(f)
    <3> HIDE DEF eq
    <3> QED BY <1>3
  <2>2. Behind = f
    BY DEF Behind
  <2> QED BY <2>1, <2>2
<1>5. \A n \in Nodes : Behind[n] = Successors[n] \union UNION {Behind[m] : m \in Successors[n]}
  BY <1>4
<1>6. \A n \in Nodes : n \notin Behind[n]
  BY HierarchyAssumption
<1>7. \A n \in Nodes : Behind[n] \subseteq Nodes
  <2> DEFINE trim == [n \in Nodes |-> Behind[n] \intersect Nodes]
             good == {n \in Nodes : Behind[n] \subseteq Nodes}
  <2>1. trim \in [Nodes -> SUBSET Nodes] /\ \A n \in Nodes : n \notin trim[n]
    BY <1>6
  <2>2. ASSUME NEW n \in Nodes
        PROVE  trim[n] = Successors[n] \union UNION {trim[m] : m \in Successors[n]}
    <3>1. Successors[n] \subseteq Nodes
      BY <1>1
    <3>2. trim[n] = Nodes \intersect Behind[n] /\ \A m \in Nodes : trim[m] = Nodes \intersect Behind[m]
      OBVIOUS
    <3> HIDE DEF trim
    <3>3. Behind[n] = Successors[n] \union UNION {Behind[m] : m \in Successors[n]}
      BY <1>5
    <3>4. trim[n] \subseteq Successors[n] \union UNION {trim[m] : m \in Successors[n]}
      BY <3>1, <3>2, <3>3
    <3>5. Successors[n] \union UNION {trim[m] : m \in Successors[n]} \subseteq trim[n]
      BY <3>1, <3>2, <3>3
    <3> QED BY <3>4, <3>5
  <2>3. \A n \in Nodes : Successors[n] \subseteq good => n \in good
    BY <1>1, <1>5
  <2> HIDE DEF trim, good
  <2>4. Nodes \subseteq good
    BY <1>1, <2>1, <2>2, <2>3, FarInduction
  <2> QED BY <2>4 DEF good
<1> QED BY <1>1, <1>4, <1>5, <1>6, <1>7

(* The ancestors of an ancestor are ancestors.                             *)
LEMMA AncestorsTransitive ==
  ASSUME NEW n \in Nodes, NEW a \in Ancestors[n]
  PROVE  a \in Nodes /\ Ancestors[a] \subseteq Ancestors[n]
<1> DEFINE good == {k \in Nodes : \A b \in Ancestors[k] : Ancestors[b] \subseteq Ancestors[k]}
<1>1. \A k \in Nodes : Fathers[k] \subseteq good => k \in good
  BY AncestorsAre
<1> HIDE DEF good
<1>2. Nodes \subseteq good
  BY <1>1, AncestorsAre, FarInduction
<1> QED BY <1>2, AncestorsAre DEF good

(* Two ancestors of a node are on one line.                                *)
LEMMA AncestorsComparable ==
  ASSUME NEW n \in Nodes, NEW a \in Ancestors[n], NEW b \in Ancestors[n]
  PROVE  a = b \/ a \in Ancestors[b] \/ b \in Ancestors[a]
<1> DEFINE good == {k \in Nodes : \A x, y \in Ancestors[k] :
                                    x = y \/ x \in Ancestors[y] \/ y \in Ancestors[x]}
<1>1. \A k \in Nodes : Fathers[k] \subseteq good => k \in good
  BY AncestorsAre DEF Fathers
<1> HIDE DEF good
<1>2. Nodes \subseteq good
  BY <1>1, AncestorsAre, FarInduction
<1> QED BY <1>2 DEF good

(* An ancestor of n has its child around n.                                *)
LEMMA ChildAround ==
  ASSUME NEW n \in Nodes, NEW a \in Ancestors[n]
  PROVE  \E k \in {n} \union Ancestors[n] : k \in Nodes /\ Father[k] = a /\ a # NoNode
<1> DEFINE good == {m \in Nodes : \A b \in Ancestors[m] :
                      \E k \in {m} \union Ancestors[m] : k \in Nodes /\ Father[k] = b /\ b # NoNode}
<1>1. ASSUME NEW m \in Nodes, Fathers[m] \subseteq good
      PROVE  m \in good
  <2>1. CASE Father[m] = NoNode
    BY <2>1, AncestorsAre DEF Fathers
  <2>2. CASE Father[m] # NoNode
    <3>1. Ancestors[m] = {Father[m]} \union Ancestors[Father[m]] /\ Father[m] \in good
      BY <1>1, <2>2, AncestorsAre DEF Fathers
    <3> QED BY <2>2, <3>1
  <2> QED BY <2>1, <2>2
<1> HIDE DEF good
<1>2. Nodes \subseteq good
  BY <1>1, AncestorsAre, FarInduction
<1> QED BY <1>2 DEF good

(* What is behind n is in every set with the successors of n and of its    *)
(* own members.                                                            *)
LEMMA BehindLeast ==
  ASSUME NEW n \in Nodes, NEW s, Successors[n] \subseteq s,
         \A k \in s \intersect Nodes : Successors[k] \subseteq s
  PROVE  Behind[n] \subseteq s
<1> DEFINE good == {k \in Nodes : Successors[k] \subseteq s => Behind[k] \subseteq s}
<1>1. \A k \in Nodes : Successors[k] \subseteq good => k \in good
  BY BehindIs
<1> HIDE DEF good
<1>2. Nodes \subseteq good
  BY <1>1, BehindIs, FarInduction
<1> QED BY <1>2 DEF good

-----------------------------------------------------------------------------
(* Fathers, links and owners.                                              *)

LEMMA FatherIs ==
  ASSUME NEW n \in Nodes, Father[n] # NoNode
  PROVE  /\ Father[n] \in Nodes /\ Father[n] \in Ancestors[n]
         /\ Ancestors[n] = {Father[n]} \union Ancestors[Father[n]]
         /\ n \in Below[Father[n]] /\ n \in Children[Father[n]]
         /\ Kind[Father[n]] \in {"bloc", "for", "while", "switch", "foreach"}
<1>1. Father[n] \in Nodes /\ Ancestors[n] = {Father[n]} \union Ancestors[Father[n]]
  <2>1. Father[n] \in Nodes /\ Fathers[n] = {Father[n]}
    BY ComposedAssumption DEF Fathers
  <2> QED BY <2>1, AncestorsAre
<1> QED BY <1>1, ComposedAssumption, HierarchyAssumption DEF Below, Children

LEMMA RootIs ==
  ASSUME NEW n \in Nodes, Father[n] = NoNode
  PROVE  Ancestors[n] = {}
BY AncestorsAre DEF Fathers

LEMMA InsideIs ==
  ASSUME NEW n \in Nodes
  PROVE  /\ Inside(n) \subseteq Nodes /\ n \notin Below[n]
         /\ \A m \in Nodes : m \in Below[n] <=> n \in Ancestors[m]
         /\ \A m \in Below[n] : /\ m \in Nodes /\ Father[m] # NoNode /\ Father[m] \in Inside(n)
                                /\ Inside(m) \subseteq Below[n]
         /\ \A m \in Nodes : m \in Inside(n) <=> n \in Chain(m)
<1>1. Below[n] = {m \in Nodes : n \in Ancestors[m]}
  BY DEF Below
<1>2. \A m \in Below[n] : m \in Nodes /\ Father[m] # NoNode /\ Father[m] \in Inside(n)
  <2> SUFFICES ASSUME NEW m \in Nodes, n \in Ancestors[m]
               PROVE  Father[m] # NoNode /\ (Father[m] = n \/ n \in Ancestors[Father[m]])
    BY <1>1, ComposedAssumption DEF Inside, Below
  <2>1. Father[m] # NoNode
    BY RootIs
  <2> QED BY <2>1, FatherIs
<1>3. \A m \in Below[n] : Inside(m) \subseteq Below[n]
  BY <1>1, AncestorsTransitive DEF Inside, Below
<1> QED BY <1>1, <1>2, <1>3, AncestorsAre DEF Inside, Chain

(* The nodes of the chain of n are around n.                               *)
LEMMA ChainIs ==
  ASSUME NEW n \in Nodes, NEW k \in Chain(n)
  PROVE  k \in Nodes /\ Chain(k) \subseteq Chain(n) /\ n \in Inside(k)
BY AncestorsAre, AncestorsTransitive, InsideIs DEF Chain

LEMMA SiblingsApart ==
  ASSUME NEW a \in Nodes, NEW b \in Nodes, Father[a] = Father[b], Father[a] # NoNode, a # b
  PROVE  Inside(a) \intersect Inside(b) = {}
<1> SUFFICES ASSUME NEW n \in Nodes, a \in Chain(n), b \in Chain(n) PROVE FALSE
  BY InsideIs
<1>1. a \notin Ancestors[b] /\ b \notin Ancestors[a]
  BY FatherIs, AncestorsAre, AncestorsTransitive
<1> QED BY <1>1, AncestorsComparable DEF Chain

LEMMA LinkIs ==
  ASSUME NEW p \in Nodes, NEW n \in Nodes
  PROVE  /\ p \in Predecessors[n] <=> <<p, n>> \in Links
         /\ n \in Successors[p] <=> <<p, n>> \in Links
         /\ <<p, n>> \in Links =>
              /\ Father[p] = Father[n] /\ Father[n] # NoNode
              /\ Kind[Father[n]] = "bloc"
BY ComposedAssumption, HierarchyAssumption DEF Predecessors, Successors

LEMMA OwnerIs ==
  /\ \A n \in Nodes : Owner(n) = n
  /\ \A u \in Fakes : Owner(u) \in Controls /\ FakeOf[Owner(u)] = u
  /\ \A c \in Controls : FakeOf[c] \in Fakes /\ Owner(FakeOf[c]) = c
  /\ Controls \subseteq Nodes /\ Tasks \subseteq Nodes /\ Fakes \intersect Nodes = {}
  /\ Fakes \intersect Tasks = {} /\ Controls \intersect Tasks = {}
<1>1. \A n \in Nodes : Owner(n) = n
  BY ComposedAssumption DEF Owner
<1>2. \A u \in Fakes : Owner(u) \in Controls /\ FakeOf[Owner(u)] = u
  BY DEF Owner, Fakes
<1>3. \A c \in Controls : FakeOf[c] \in Fakes /\ Owner(FakeOf[c]) = c
  BY <1>2, HierarchyAssumption DEF Fakes
<1> QED BY <1>1, <1>2, <1>3, ComposedAssumption DEF Tasks

-----------------------------------------------------------------------------
(* The type of the graph.                                                  *)
Graphs ==
  [node : [Nodes \union Fakes -> NodeStates], arrived : SUBSET Links,
   runs : [Controls -> Nodes \union {"nothing", "body"} \union FakeRuns],
   turns : [Controls -> Int], count : [Controls -> Int], current : [Controls -> Nat],
   ids : [Nodes -> Int], errors : [Controls -> Nat]]

(* What exUpdateState reaches: ns, and below ns no node without its father.*)
LEMMA ReachedIs ==
  ASSUME NEW g, NEW d, NEW ns \in SUBSET Nodes, \A n \in ns : ~StaysDone(g, n)
  PROVE  /\ ns \subseteq Reached(g, ns, d) /\ Reached(g, ns, d) \subseteq Nodes
         /\ \A m \in Reached(g, ns, d) : \E a \in ns : m \in Inside(a)
         /\ \A m \in Reached(g, ns, d) \ ns : /\ Father[m] \in Reached(g, ns, d)
                                              /\ Entered(g, m, d)
         /\ \A m \in Nodes \ Reached(g, ns, d) :
              (\A a \in ns : m \notin Ancestors[a]) => Below[m] \intersect Reached(g, ns, d) = {}
<1> DEFINE R == Reached(g, ns, d)
           way(m, a) == ({m} \union Ancestors[m]) \intersect Below[a]
<1>1. R = ns \union {m \in Nodes : \E a \in ns : /\ m \in Below[a]
                                                 /\ \A k \in way(m, a) : Entered(g, k, d)}
  <2>1. {n \in ns : ~StaysDone(g, n)} = ns
    OBVIOUS
  <2> QED BY <2>1 DEF Reached
<1> HIDE DEF R
<1>2. ns \subseteq R /\ R \subseteq Nodes /\ \A m \in R : \E a \in ns : m \in Inside(a)
  BY <1>1 DEF Inside
<1>3. ASSUME NEW m \in R \ ns
      PROVE  Father[m] \in R /\ Entered(g, m, d)
  <2>1. PICK a \in ns : m \in Below[a] /\ \A k \in way(m, a) : Entered(g, k, d)
    BY <1>1
  <2>2. m \in Nodes /\ Father[m] # NoNode /\ Father[m] \in Inside(a)
    BY <2>1, InsideIs
  <2>3. Entered(g, m, d)
    BY <2>1
  <2>4. CASE Father[m] = a
    BY <1>2, <2>3, <2>4
  <2>5. CASE Father[m] # a
    <3>1. Father[m] \in Below[a] /\ Father[m] \in Nodes
      BY <2>2, <2>5, FatherIs DEF Inside
    <3>2. way(Father[m], a) \subseteq way(m, a)
      BY <2>2, FatherIs
    <3> QED BY <1>1, <2>1, <2>3, <3>1, <3>2
  <2> QED BY <2>4, <2>5
<1>4. ASSUME NEW m \in Nodes \ R, \A a \in ns : m \notin Ancestors[a], NEW k \in R, k \in Below[m]
      PROVE  FALSE
  <2>1. k \in Nodes /\ m \in Ancestors[k]
    BY <1>2, <1>4, InsideIs
  <2>2. k \notin ns
    BY <1>4, <2>1
  <2>3. PICK a \in ns : k \in Below[a] /\ \A j \in way(k, a) : Entered(g, j, d)
    BY <1>1, <2>2
  <2>4. a \in Ancestors[k]
    BY <2>1, <2>3, InsideIs
  <2>5. m \in Below[a]
    <3>1. a = m \/ a \in Ancestors[m] \/ m \in Ancestors[a]
      BY <2>1, <2>4, AncestorsComparable
    <3>2. a \in Ancestors[m]
      BY <1>2, <1>4, <3>1
    <3> QED BY <3>2, InsideIs
  <2>6. way(m, a) \subseteq way(k, a)
    BY <2>1, AncestorsTransitive
  <2> QED BY <1>1, <1>4, <2>3, <2>5, <2>6
<1> QED BY <1>2, <1>3, <1>4 DEF R

(* And all that is entered from what is reached.                           *)
LEMMA ReachedDown ==
  ASSUME NEW g, NEW d, NEW ns \in SUBSET Nodes, \A n \in ns : ~StaysDone(g, n),
         NEW m \in Nodes, Father[m] \in Reached(g, ns, d), Entered(g, m, d)
  PROVE  m \in Reached(g, ns, d)
<1> DEFINE R == Reached(g, ns, d)
           way(k, a) == ({k} \union Ancestors[k]) \intersect Below[a]
<1>1. R = ns \union {k \in Nodes : \E a \in ns : /\ k \in Below[a]
                                                 /\ \A j \in way(k, a) : Entered(g, j, d)}
  <2>1. {n \in ns : ~StaysDone(g, n)} = ns
    OBVIOUS
  <2> QED BY <2>1 DEF Reached
<1> HIDE DEF R
<1>2. Father[m] \in Nodes /\ Father[m] # NoNode
  BY <1>1, ComposedAssumption DEF R
<1>3. Ancestors[m] = {Father[m]} \union Ancestors[Father[m]] /\ m \in Below[Father[m]]
  BY <1>2, FatherIs
<1>4. CASE Father[m] \in ns
  <2>1. way(m, Father[m]) \subseteq {m}
    BY <1>2, <1>3, InsideIs, AncestorsAre, AncestorsTransitive
  <2> QED BY <1>1, <1>3, <1>4, <2>1 DEF R
<1>5. CASE Father[m] \notin ns
  <2>1. PICK a \in ns : Father[m] \in Below[a] /\ \A j \in way(Father[m], a) : Entered(g, j, d)
    BY <1>1, <1>5 DEF R
  <2>2. m \in Below[a]
    BY <1>2, <1>3, <2>1, InsideIs
  <2>3. way(m, a) \subseteq {m} \union way(Father[m], a)
    BY <1>3
  <2> QED BY <1>1, <2>1, <2>2, <2>3 DEF R
<1> QED BY <1>4, <1>5

LEMMA FirstBranchesAre ==
  ASSUME NEW c \in Controls, Kind[c] = "foreach", NEW size \in Int
  PROVE  /\ IsFiniteSet(FirstBranches(c, size)) /\ Cardinality(FirstBranches(c, size)) \in Nat
         /\ \A n \in FirstBranches(c, size) : Rank(c, n) \in Nat /\ Rank(c, n) >= 1
<1>1. Branches[c] \in Seq(Children[c])
  BY HierarchyAssumption
<1>2. Len(Branches[c]) \in Nat /\ Smaller(size, Len(Branches[c])) \in Int
  BY <1>1 DEF Smaller
<1> DEFINE k == Smaller(size, Len(Branches[c]))
           first == {Branches[c][i] : i \in 1..k}
<1>3. IsFiniteSet(1..k)
  BY <1>2, FS_Interval
<1>4. IsFiniteSet(first)
  <2> DEFINE f == [i \in 1..k |-> Branches[c][i]]
  <2> HIDE DEF k
  <2>1. f \in Surjection(1..k, first)
    BY DEF Surjection
  <2> QED BY <1>3, <2>1, FS_Surjection
<1>5. Cardinality(first) \in Nat
  BY <1>4, FS_CardinalityType
<1>6. ASSUME NEW n \in first
      PROVE  Rank(c, n) \in 1..Len(Branches[c])
  <2>1. PICK i \in 1..k : n = Branches[c][i]
    OBVIOUS
  <2>2. i \in 1..Len(Branches[c])
    BY <1>2, <2>1 DEF Smaller
  <2> QED BY <2>1, <2>2 DEF Rank
<1>7. FirstBranches(c, size) = first
  BY DEF FirstBranches
<1> HIDE DEF first
<1> QED BY <1>2, <1>4, <1>5, <1>6, <1>7

LEMMA ValueIs ==
  ASSUME NEW r \in Schemas, NEW d \in Values(Controls \intersect Below[r]),
         NEW c \in Controls, c \in Inside(r)
  PROVE  d[c] \in Int
<1>1. c \in Below[r]
  BY ComposedAssumption DEF Inside
<1>2. d[c] \in Options[c]
  BY <1>1 DEF Values
<1> QED BY <1>2, HierarchyAssumption

LEMMA RunOfIs ==
  ASSUME NEW g \in Graphs, NEW c \in Controls, NEW v \in Int
  PROVE  /\ RunOf(g, c, v) \in Nodes \union {"nothing", "body"} \union FakeRuns
         /\ MakesFake(c, v) => RunOf(g, c, v) \in FakeRuns
         /\ ~MakesFake(c, v) /\ Kind[c] = "switch" =>
              /\ RunOf(g, c, v) \in Children[c]
              /\ v \in DOMAIN Branches[c] /\ RunOf(g, c, v) = Branches[c][v]
         /\ ~MakesFake(c, v) /\ Kind[c] \in {"for", "while"} => RunOf(g, c, v) = "body"
<1>1. Kind[c] = "switch" => Branches[c] \in Seq(Children[c])
  BY HierarchyAssumption
<1>2. Kind[c] = "switch" /\ ~MakesFake(c, v) => /\ v \in DOMAIN Branches[c]
                                               /\ Branches[c][v] \in Children[c]
  BY <1>1 DEF MakesFake
<1>3. Children[c] \subseteq Nodes
  BY ComposedAssumption DEF Children
<1>4. g.runs[c] \in Nodes \union {"nothing", "body"} \union FakeRuns
  BY DEF Graphs
<1> QED BY <1>2, <1>3, <1>4 DEF RunOf, FakeRuns

(* The graph after exUpdateState, field by field.                          *)
LEMMA StartedIs ==
  ASSUME NEW r \in Schemas, NEW d \in Values(Controls \intersect Below[r]),
         NEW g \in Graphs, NEW ns \in SUBSET Inside(r), \A n \in ns : ~StaysDone(g, n),
         \A a, b \in ns : Father[a] = Father[b]
  PROVE  LET R == Reached(g, ns, d)
             h == ExUpdateState(g, ns, d)
         IN  /\ h \in Graphs
             /\ h.arrived = g.arrived /\ h.errors = g.errors
             /\ \A n \in Nodes \ R : h.node[n] = g.node[n]
             /\ \A n \in R : h.node[n] = IF n \notin Tasks THEN "ACTIVATED"
                                         ELSE IF g.node[n] = "READY" THEN "TOLOAD" ELSE g.node[n]
             /\ \A u \in Fakes : h.node[u] = IF Owner(u) \in R /\ MakesFake(Owner(u), d[Owner(u)])
                                             THEN "TOACTIVATE" ELSE g.node[u]
             /\ \A c \in Controls : h.runs[c] = IF c \in R THEN RunOf(g, c, d[c]) ELSE g.runs[c]
             /\ \A n \in Nodes : IF Father[n] \in R \intersect ForEachs
                                 THEN n \in R <=> h.ids[n] # NotRunning
                                 ELSE h.ids[n] = g.ids[n]
             /\ R \subseteq Inside(r) /\ \A n \in ns : Father[n] \notin R
<1> DEFINE R == Reached(g, ns, d)
           h == ExUpdateState(g, ns, d)
           fakes == {FakeOf[c] : c \in {k \in R \intersect Controls : MakesFake(k, d[k])}}
           forEachs == {c \in R \intersect Controls : Kind[c] = "foreach"}
           node == [n \in Nodes \union Fakes |->
                    IF n \in fakes THEN "TOACTIVATE"
                    ELSE IF n \notin R THEN g.node[n]
                    ELSE IF n \notin Tasks \union Fakes THEN "ACTIVATED"
                    ELSE IF g.node[n] = "READY" THEN "TOLOAD" ELSE g.node[n]]
           runs == [c \in Controls |-> IF c \in R THEN RunOf(g, c, d[c]) ELSE g.runs[c]]
           count == [c \in Controls |-> IF c \in R THEN d[c] ELSE g.count[c]]
           current == [c \in Controls |->
                       IF c \in forEachs THEN Cardinality(FirstBranches(c, d[c])) ELSE g.current[c]]
           ids == [n \in Nodes |->
                   IF Father[n] \notin forEachs THEN g.ids[n]
                   ELSE IF n \in R THEN Rank(Father[n], n) - 1 ELSE NotRunning]
<1>1. h = [g EXCEPT !.node = node, !.runs = runs, !.count = count, !.current = current, !.ids = ids]
  BY DEF ExUpdateState
<1>2. ns \subseteq Nodes /\ R \subseteq Nodes /\ R \subseteq Inside(r)
  <2>1. r \in Nodes
    BY ComposedAssumption
  <2>2. ns \subseteq Nodes
    BY <2>1, InsideIs
  <2>3. \A a \in ns : Inside(a) \subseteq Inside(r)
    BY <2>1, InsideIs DEF Inside
  <2> QED BY <2>2, <2>3, ReachedIs
<1>3. \A c \in Controls : c \in R => d[c] \in Int
  BY <1>2, ValueIs
<1>5. ASSUME NEW n \in ns, Father[n] \in R
      PROVE  FALSE
  <2>1. PICK a \in ns : Father[n] \in Inside(a)
    BY <1>2, <1>5, ReachedIs
  <2>2. a \in Nodes /\ Father[a] = Father[n] /\ Father[a] # NoNode
    BY <1>2, <1>5, ComposedAssumption
  <2>3. Father[a] \in Ancestors[a] /\ Father[a] \in Nodes
    BY <2>2, FatherIs
  <2>4. a \in Chain(Father[a])
    BY <2>1, <2>2, <2>3, InsideIs
  <2> QED BY <2>2, <2>3, <2>4, AncestorsAre, AncestorsTransitive DEF Chain
<1>4. \A n \in Nodes : Father[n] \in forEachs /\ n \in R => Rank(Father[n], n) - 1 \in Nat
  <2> SUFFICES ASSUME NEW n \in Nodes, Father[n] \in forEachs, n \in R
               PROVE  Rank(Father[n], n) - 1 \in Nat
    OBVIOUS
  <2>1. CASE n \in ns
    BY <1>5, <2>1
  <2>2. CASE n \notin ns
    <3>1. Entered(g, n, d)
      BY <1>2, <2>2, ReachedIs
    <3>2. n \in FirstBranches(Father[n], d[Father[n]])
      BY <3>1 DEF Entered
    <3> QED BY <1>3, <3>2, FirstBranchesAre
  <2> QED BY <2>1, <2>2
<1>6. forEachs = R \intersect ForEachs
  BY DEF ForEachs
<1>7. /\ node \in [Nodes \union Fakes -> NodeStates]
      /\ runs \in [Controls -> Nodes \union {"nothing", "body"} \union FakeRuns]
      /\ count \in [Controls -> Int] /\ current \in [Controls -> Nat]
      /\ ids \in [Nodes -> Int]
  <2>1. node \in [Nodes \union Fakes -> NodeStates]
    <3> HIDE DEF R, fakes
    <3> QED BY DEF Graphs, NodeStates, Ended
  <2>2. runs \in [Controls -> Nodes \union {"nothing", "body"} \union FakeRuns]
    <3>1. \A c \in Controls : c \in R => RunOf(g, c, d[c]) \in Nodes \union {"nothing", "body"} \union FakeRuns
      BY <1>3, RunOfIs
    <3>2. \A c \in Controls : g.runs[c] \in Nodes \union {"nothing", "body"} \union FakeRuns
      BY DEF Graphs
    <3> HIDE DEF R
    <3> QED BY <3>1, <3>2
  <2>3. count \in [Controls -> Int]
    <3> HIDE DEF R
    <3> QED BY <1>3 DEF Graphs
  <2>4. current \in [Controls -> Nat]
    <3>1. \A c \in forEachs : Cardinality(FirstBranches(c, d[c])) \in Nat
      BY <1>3, FirstBranchesAre
    <3> HIDE DEF forEachs
    <3> QED BY <3>1 DEF Graphs
  <2>5. ids \in [Nodes -> Int]
    <3>1. \A n \in Nodes : Father[n] \in forEachs /\ n \in R => Rank(Father[n], n) - 1 \in Int
      BY <1>4
    <3> HIDE DEF R, forEachs
    <3> QED BY <3>1 DEF Graphs, NotRunning
  <2> QED BY <2>1, <2>2, <2>3, <2>4, <2>5
<1>8. /\ h \in Graphs /\ h.arrived = g.arrived /\ h.errors = g.errors
      /\ h.node = node /\ h.runs = runs /\ h.ids = ids
  <2> HIDE DEF h, node, runs, count, current, ids
  <2> QED BY <1>1, <1>7 DEF Graphs
<1>9. \A u \in Fakes : u \in fakes <=> Owner(u) \in R /\ MakesFake(Owner(u), d[Owner(u)])
  BY OwnerIs
<1>10. \A n \in Nodes : n \notin fakes /\ n \notin Fakes
  BY OwnerIs DEF Fakes
<1>11. /\ \A n \in Nodes \ R : h.node[n] = g.node[n]
       /\ \A n \in R : h.node[n] = IF n \notin Tasks THEN "ACTIVATED"
                                   ELSE IF g.node[n] = "READY" THEN "TOLOAD" ELSE g.node[n]
  <2> HIDE DEF R, h, fakes
  <2> QED BY <1>2, <1>8, <1>10
<1>12. \A u \in Fakes : h.node[u] = IF Owner(u) \in R /\ MakesFake(Owner(u), d[Owner(u)])
                                    THEN "TOACTIVATE" ELSE g.node[u]
  <2>1. \A u \in Fakes : u \notin R
    BY <1>2, OwnerIs
  <2> HIDE DEF R, h, fakes
  <2> QED BY <1>8, <1>9, <2>1
<1>13. \A c \in Controls : h.runs[c] = IF c \in R THEN RunOf(g, c, d[c]) ELSE g.runs[c]
  <2> HIDE DEF R, h
  <2> QED BY <1>8
<1>14. \A n \in Nodes : IF Father[n] \in R \intersect ForEachs
                        THEN n \in R <=> h.ids[n] # NotRunning
                        ELSE h.ids[n] = g.ids[n]
  <2>1. \A i \in Nat : i # NotRunning
    BY DEF NotRunning
  <2> HIDE DEF R, h
  <2> QED BY <1>4, <1>6, <1>8, <2>1
<1> QED BY <1>2, <1>5, <1>8, <1>11, <1>12, <1>13, <1>14

-----------------------------------------------------------------------------
(* A start keeps the order.                                                *)

OpenChain(kg, g, n) == \A k \in Chain(n) : Open(kg, g, k)

(* What exUpdateState is called for.                                       *)
Startable(r, kg, g, ns) ==
  /\ ns \subseteq Inside(r) /\ \A a, b \in ns : Father[a] = Father[b]
  /\ \A n \in ns : /\ Pristine(g, n) /\ ~Waiting(g, n) /\ g.node[n] \in {"READY", "FAILED"}
                   /\ OpenChain(kg, g, n)
                   /\ Father[n] \in Controls => Kind[Father[n]] # "switch"
                   /\ Father[n] \in ForEachs => g.ids[n] # NotRunning

LEMMA PristineIsClean ==
  ASSUME NEW g \in Graphs, NEW n \in Nodes, Pristine(g, n), g.node[n] # "ERROR"
  PROVE  Clean(g, n)
BY InsideIs DEF Pristine, Clean, Hard, Inside

(* The ancestors of a node that is run are at work.                        *)
LEMMA AroundIs ==
  ASSUME NEW kg, NEW g \in Graphs, NEW n \in Nodes, Unstarted(g), OpenChain(kg, g, n),
         NEW a \in Ancestors[n]
  PROVE  /\ a \in Nodes /\ g.node[a] \in {"ACTIVATED", "FAILED"} /\ ~Waiting(g, a)
         /\ kg => g.node[a] = "ACTIVATED"
<1>1. PICK k \in Chain(n) : Father[k] = a /\ a # NoNode
  BY ChildAround DEF Chain
<1>2. a \in Nodes /\ Open(kg, g, k)
  BY AncestorsAre DEF OpenChain
<1>3. /\ g.node[a] \in {"ACTIVATED", "FAILED"} /\ (kg => g.node[a] = "ACTIVATED")
      /\ g.node[a] = "FAILED" => ~Clean(g, a)
  BY <1>1, <1>2 DEF Open
<1>4. ~Waiting(g, a)
  BY <1>2, <1>3, PristineIsClean DEF Unstarted
<1> QED BY <1>2, <1>3, <1>4

(* What a start makes of the graph: h from g, where R is reached.          *)
Started(r, g, h, R, ns, d) ==
  /\ h \in Graphs /\ h.arrived = g.arrived /\ h.errors = g.errors
  /\ \A n \in Nodes \ R : h.node[n] = g.node[n]
  /\ \A n \in R : h.node[n] = IF n \notin Tasks THEN "ACTIVATED"
                              ELSE IF g.node[n] = "READY" THEN "TOLOAD" ELSE g.node[n]
  /\ \A u \in Fakes : h.node[u] = IF Owner(u) \in R /\ MakesFake(Owner(u), d[Owner(u)])
                                  THEN "TOACTIVATE" ELSE g.node[u]
  /\ \A c \in Controls : h.runs[c] = IF c \in R THEN RunOf(g, c, d[c]) ELSE g.runs[c]
  /\ \A n \in Nodes : IF Father[n] \in R \intersect ForEachs
                      THEN n \in R <=> h.ids[n] # NotRunning
                      ELSE h.ids[n] = g.ids[n]
  /\ R \subseteq Inside(r) /\ \A n \in ns : Father[n] \notin R
  /\ ns \subseteq R /\ R \subseteq Nodes /\ \A m \in R : \E a \in ns : m \in Inside(a)
  /\ \A m \in R \ ns : Father[m] \in R /\ Entered(g, m, d)
  /\ \A m \in Nodes \ R : (\A a \in ns : m \notin Ancestors[a]) => Below[m] \intersect R = {}
  /\ \A n \in ns : \A a \in Ancestors[n] : g.node[a] \in {"ACTIVATED", "FAILED"} /\ ~Waiting(g, a)
  /\ \A m \in R : /\ Clean(g, m) /\ ~Waiting(g, m) /\ g.node[m] \in {"READY", "FAILED"}
                  /\ m \notin ns => g.node[m] = "READY"
                  /\ \A k \in Below[m] : g.node[k] = "READY"
  /\ \A n \in Nodes : (Waiting(h, n) <=> Waiting(g, n)) /\ (Clean(h, n) <=> Clean(g, n))
  /\ \A n \in Nodes : Hard(h, n) <=> Hard(g, n)

LEMMA StartIs ==
  ASSUME NEW r \in Schemas, NEW kg \in BOOLEAN, NEW d \in Values(Controls \intersect Below[r]),
         NEW g \in Graphs, Ordered(r, kg, g), NEW ns, Startable(r, kg, g, ns)
  PROVE  Started(r, g, ExUpdateState(g, ns, d), Reached(g, ns, d), ns, d)
<1> DEFINE R == Reached(g, ns, d)
           h == ExUpdateState(g, ns, d)
<1>1. r \in Nodes /\ Inside(r) \subseteq Nodes /\ ns \subseteq Nodes /\ Kind[r] = "bloc"
  BY ComposedAssumption, InsideIs DEF Startable
<1>2. \A n \in ns : ~StaysDone(g, n)
  BY DEF Startable, StaysDone
<1>3. /\ h \in Graphs /\ h.arrived = g.arrived /\ h.errors = g.errors
      /\ \A n \in Nodes \ R : h.node[n] = g.node[n]
      /\ \A n \in R : h.node[n] = IF n \notin Tasks THEN "ACTIVATED"
                                  ELSE IF g.node[n] = "READY" THEN "TOLOAD" ELSE g.node[n]
      /\ \A u \in Fakes : h.node[u] = IF Owner(u) \in R /\ MakesFake(Owner(u), d[Owner(u)])
                                      THEN "TOACTIVATE" ELSE g.node[u]
      /\ \A c \in Controls : h.runs[c] = IF c \in R THEN RunOf(g, c, d[c]) ELSE g.runs[c]
      /\ \A n \in Nodes : IF Father[n] \in R \intersect ForEachs
                          THEN n \in R <=> h.ids[n] # NotRunning
                          ELSE h.ids[n] = g.ids[n]
      /\ R \subseteq Inside(r) /\ \A n \in ns : Father[n] \notin R
  <2>1. ns \in SUBSET Inside(r) /\ \A a, b \in ns : Father[a] = Father[b]
    BY DEF Startable
  <2> QED BY <1>2, <2>1, StartedIs
<1>4. /\ ns \subseteq R /\ R \subseteq Nodes /\ \A m \in R : \E a \in ns : m \in Inside(a)
      /\ \A m \in R \ ns : Father[m] \in R /\ Entered(g, m, d)
      /\ \A m \in Nodes \ R : (\A a \in ns : m \notin Ancestors[a]) => Below[m] \intersect R = {}
  BY <1>1, <1>2, ReachedIs
<1>5. /\ Flags(g) /\ Unstarted(g) /\ Cases(g) /\ Ids(g) /\ DoneIsClean(g) /\ FakeIsClean(g)
      /\ Causes(g) /\ Counted(kg, g) /\ Outside(r, g)
  BY DEF Ordered
<1>6. \A n \in ns : \A a \in Ancestors[n] : g.node[a] \in {"ACTIVATED", "FAILED"} /\ ~Waiting(g, a)
  BY <1>1, <1>5, AroundIs DEF Startable
<1>7. ASSUME NEW m \in R
      PROVE  /\ Clean(g, m) /\ ~Waiting(g, m) /\ g.node[m] \in {"READY", "FAILED"}
             /\ m \notin ns => g.node[m] = "READY"
             /\ \A k \in Below[m] : g.node[k] = "READY"
  <2>1. PICK a \in ns : m \in Inside(a)
    BY <1>4
  <2>2. Pristine(g, a) /\ a \in Nodes /\ Clean(g, a)
    BY <1>1, <2>1, PristineIsClean DEF Startable
  <2>3. m \in Nodes /\ Inside(m) \subseteq Inside(a)
    BY <2>1, <2>2, InsideIs DEF Inside
  <2>4. Clean(g, m) /\ \A k \in Below[m] : g.node[k] = "READY"
    <3>1. Below[m] \subseteq Below[a]
      BY <2>1, <2>2, <2>3, InsideIs DEF Inside
    <3> QED BY <2>2, <2>3, <3>1 DEF Clean, Pristine
  <2>5. CASE m \in ns
    BY <2>4, <2>5 DEF Startable
  <2>6. CASE m \notin ns
    <3>1. m \in Below[a]
      BY <2>1, <2>6 DEF Inside
    <3>2. g.node[m] = "READY" /\ Entered(g, m, d) /\ Father[m] # NoNode
      BY <1>4, <2>2, <2>6, <3>1, InsideIs DEF Pristine
    <3>3. ~Waiting(g, m)
      <4>1. CASE Kind[Father[m]] = "bloc"
        BY <3>2, <4>1 DEF Entered, Waiting
      <4>2. CASE Kind[Father[m]] # "bloc"
        BY <2>3, <4>2, LinkIs DEF Waiting, Predecessors
      <4> QED BY <4>1, <4>2
    <3> QED BY <2>4, <3>2, <3>3
  <2> QED BY <2>5, <2>6
<1>8. \A n \in Nodes : Waiting(h, n) <=> Waiting(g, n)
  BY <1>3 DEF Waiting
<1>9. \A n \in Nodes : Hard(h, n) <=> Hard(g, n)
  <2>1. \A n \in R : g.node[n] # "ERROR" /\ h.node[n] # "ERROR"
    BY <1>3, <1>7
  <2> QED BY <1>3, <2>1 DEF Hard
<1>10. \A n \in Nodes : Clean(h, n) <=> Clean(g, n)
  BY <1>9, InsideIs DEF Clean
<1> HIDE DEF h, R
<1>11. Started(r, g, h, R, ns, d)
  BY <1>3, <1>4, <1>6, <1>7, <1>8, <1>9, <1>10 DEF Started
<1> QED BY <1>11 DEF h, R

LEMMA StartKeepsOrder ==
  ASSUME NEW r \in Schemas, NEW kg \in BOOLEAN, NEW d \in Values(Controls \intersect Below[r]),
         NEW g \in Graphs, Ordered(r, kg, g), NEW ns, Startable(r, kg, g, ns)
  PROVE  Ordered(r, kg, ExUpdateState(g, ns, d))
<1> DEFINE R == Reached(g, ns, d)
           h == ExUpdateState(g, ns, d)
<1>1. r \in Nodes /\ Inside(r) \subseteq Nodes /\ ns \subseteq Nodes /\ Kind[r] = "bloc"
  BY ComposedAssumption, InsideIs DEF Startable
<1>3. /\ h \in Graphs /\ h.arrived = g.arrived /\ h.errors = g.errors
      /\ \A n \in Nodes \ R : h.node[n] = g.node[n]
      /\ \A n \in R : h.node[n] = IF n \notin Tasks THEN "ACTIVATED"
                                  ELSE IF g.node[n] = "READY" THEN "TOLOAD" ELSE g.node[n]
      /\ \A u \in Fakes : h.node[u] = IF Owner(u) \in R /\ MakesFake(Owner(u), d[Owner(u)])
                                      THEN "TOACTIVATE" ELSE g.node[u]
      /\ \A c \in Controls : h.runs[c] = IF c \in R THEN RunOf(g, c, d[c]) ELSE g.runs[c]
      /\ \A n \in Nodes : IF Father[n] \in R \intersect ForEachs
                          THEN n \in R <=> h.ids[n] # NotRunning
                          ELSE h.ids[n] = g.ids[n]
      /\ R \subseteq Inside(r) /\ \A n \in ns : Father[n] \notin R
      /\ ns \subseteq R /\ R \subseteq Nodes /\ \A m \in R : \E a \in ns : m \in Inside(a)
      /\ \A m \in R \ ns : Father[m] \in R /\ Entered(g, m, d)
      /\ \A m \in Nodes \ R : (\A a \in ns : m \notin Ancestors[a]) => Below[m] \intersect R = {}
      /\ \A n \in ns : \A a \in Ancestors[n] : g.node[a] \in {"ACTIVATED", "FAILED"} /\ ~Waiting(g, a)
      /\ \A m \in R : /\ Clean(g, m) /\ ~Waiting(g, m) /\ g.node[m] \in {"READY", "FAILED"}
                      /\ m \notin ns => g.node[m] = "READY"
                      /\ \A k \in Below[m] : g.node[k] = "READY"
      /\ \A n \in Nodes : (Waiting(h, n) <=> Waiting(g, n)) /\ (Clean(h, n) <=> Clean(g, n))
  <2>1. Started(r, g, h, R, ns, d)
    BY StartIs
  <2> HIDE DEF h, R
  <2> QED BY <2>1 DEF Started
<1>5. /\ Flags(g) /\ Unstarted(g) /\ Cases(g) /\ Ids(g) /\ DoneIsClean(g) /\ FakeIsClean(g)
      /\ Causes(g) /\ Counted(kg, g) /\ Outside(r, g)
  BY DEF Ordered
<1>11. ASSUME NEW n \in Nodes \ R, g.node[n] = "READY" \/ Waiting(g, n)
       PROVE  Pristine(h, n)
  <2>1. Below[n] \intersect R = {}
    BY <1>3, <1>11
  <2>2. Pristine(g, n)
    BY <1>5, <1>11 DEF Unstarted
  <2> QED BY <1>3, <2>1, <2>2, InsideIs DEF Pristine
<1> HIDE DEF h, R
<1>12. \A n \in Nodes : h.node[n] \in {"DONE", "ERROR", "READY"} => n \notin R
  BY <1>3
<1>13. Flags(h)
  <2>1. \A l \in g.arrived : l[1] \in Nodes /\ l[1] \notin R
    <3>1. g.arrived \subseteq Links
      BY DEF Graphs
    <3> QED BY <1>5, <1>3, <3>1, HierarchyAssumption DEF Flags
  <2> QED BY <1>3, <1>5, <2>1 DEF Flags
<1>14. Unstarted(h)
  BY <1>3, <1>5, <1>11, <1>12 DEF Unstarted
<1>15. Cases(h)
  <2> SUFFICES ASSUME NEW c \in Controls, Kind[c] = "switch", NEW n \in Children[c], h.runs[c] # n
               PROVE  h.node[n] = "READY"
    BY DEF Cases
  <2>1. n \in Nodes /\ Father[n] = c /\ c \in Nodes /\ c # NoNode
    BY OwnerIs, ComposedAssumption DEF Children
  <2>2. CASE c \in R
    <3>1. g.node[n] = "READY"
      BY <1>3, <2>1, <2>2, FatherIs
    <3>2. n \notin R
      <4> SUFFICES ASSUME n \in R PROVE FALSE
        OBVIOUS
      <4>1. Entered(g, n, d)
        BY <1>3, <2>1, <2>2
      <4>2. d[c] \in DOMAIN Branches[c] /\ Branches[c][d[c]] = n
        BY <2>1, <4>1 DEF Entered
      <4>3. RunOf(g, c, d[c]) = n
        BY <4>2 DEF RunOf, MakesFake
      <4> QED BY <1>3, <2>2, <4>3
    <3> QED BY <1>3, <2>1, <3>1, <3>2
  <2>3. CASE c \notin R
    <3>1. n \notin R
      BY <1>3, <2>1, <2>3 DEF Startable
    <3> QED BY <1>3, <1>5, <2>1, <2>3, <3>1 DEF Cases
  <2> QED BY <2>2, <2>3
<1>16. Ids(h)
  <2> SUFFICES ASSUME NEW c \in ForEachs, NEW n \in Children[c]
               PROVE  /\ h.node[n] \in AtWork => h.ids[n] # NotRunning
                      /\ ~Clean(h, n) => h.errors[c] # 0 \/ h.ids[n] # NotRunning
    BY DEF Ids
  <2>1. n \in Nodes /\ Father[n] = c /\ c \in Nodes /\ c # NoNode /\ c \in Controls
    BY OwnerIs, ComposedAssumption DEF Children, ForEachs
  <2>2. /\ g.node[n] \in AtWork => g.ids[n] # NotRunning
        /\ ~Clean(g, n) => g.errors[c] # 0 \/ g.ids[n] # NotRunning
    BY <1>5 DEF Ids
  <2>3. CASE c \in R
    <3>1. g.node[n] = "READY" /\ Clean(g, n)
      <4>1. n \in Below[c] /\ c \in Nodes
        BY <2>1, FatherIs
      <4>2. Inside(n) \subseteq Inside(c)
        BY <4>1, InsideIs DEF Inside
      <4> QED BY <1>3, <2>3, <4>1, <4>2 DEF Clean
    <3>2. n \in R => h.ids[n] # NotRunning
      BY <1>3, <2>1, <2>3
    <3>3. n \notin R => h.node[n] = "READY"
      BY <1>3, <2>1, <3>1
    <3> QED BY <1>3, <2>1, <3>1, <3>2, <3>3 DEF AtWork
  <2>4. CASE c \notin R
    <3>1. h.ids[n] = g.ids[n]
      BY <1>3, <2>1, <2>4
    <3>2. n \in R => g.ids[n] # NotRunning
      BY <1>3, <2>1, <2>4 DEF Startable
    <3>3. n \notin R => h.node[n] = g.node[n]
      BY <1>3, <2>1
    <3> QED BY <1>3, <2>1, <2>2, <3>1, <3>2, <3>3
  <2> QED BY <2>3, <2>4
<1>17. DoneIsClean(h)
  BY <1>3, <1>5, <1>12 DEF DoneIsClean
<1>18. FakeIsClean(h)
  <2>1. \A c \in Controls : c \in Nodes
    BY OwnerIs
  <2> QED BY <1>3, <1>5, <2>1 DEF FakeIsClean
<1>19. Causes(h)
  <2> SUFFICES ASSUME NEW n \in Nodes, Father[n] # NoNode, h.node[n] \in {"FAILED", "ERROR"}
               PROVE  ~Clean(h, Father[n])
    BY DEF Causes
  <2>1. g.node[n] = h.node[n]
    BY <1>3
  <2> QED BY <1>5, <1>3, <2>1, FatherIs DEF Causes
<1>20. Counted(kg, h)
  BY <1>3, <1>5 DEF Counted
<1>21. Outside(r, h)
  BY <1>3, <1>5 DEF Outside
<1>22. Ordered(r, kg, h)
  BY <1>13, <1>14, <1>15, <1>16, <1>17, <1>18, <1>19, <1>20, <1>21 DEF Ordered
<1> QED BY <1>22 DEF h

(* The tasks of RunB are tasks or fake nodes.                              *)
Dealt(lo, la, ru) == lo \subseteq la /\ la \union ru \subseteq Tasks \union Fakes

(* None of them is in progress inside ns.                                  *)
Quiet(g, lo, la, ru, ns) ==
  \A u \in Active(g, lo, la, ru) : \A n \in ns : Owner(u) \notin Inside(n)

LEMMA StartKeepsActs ==
  ASSUME Tame, NEW r \in Schemas, NEW kg \in BOOLEAN, Suits(r, kg),
         NEW d \in Values(Controls \intersect Below[r]),
         NEW g \in Graphs, Ordered(r, kg, g), NEW ns, Startable(r, kg, g, ns),
         NEW lo, NEW la, NEW ru, Dealt(lo, la, ru), Quiet(g, lo, la, ru, ns),
         Acts(kg, g, lo, la, ru), Lapsed(kg, g, lo, la, ru)
  PROVE  LET h == ExUpdateState(g, ns, d)
         IN  /\ Acts(kg, h, lo, la, ru) /\ Lapsed(kg, h, lo, la, ru)
             /\ \A u \in Active(g, lo, la, ru) : h.node[u] = g.node[u]
<1> DEFINE R == Reached(g, ns, d)
           h == ExUpdateState(g, ns, d)
<1>1. r \in Nodes /\ Inside(r) \subseteq Nodes /\ ns \subseteq Nodes /\ Kind[r] = "bloc"
  BY ComposedAssumption, InsideIs DEF Startable
<1>2. /\ h \in Graphs /\ h.arrived = g.arrived /\ h.errors = g.errors
      /\ \A n \in Nodes \ R : h.node[n] = g.node[n]
      /\ \A n \in R : h.node[n] = IF n \notin Tasks THEN "ACTIVATED"
                                  ELSE IF g.node[n] = "READY" THEN "TOLOAD" ELSE g.node[n]
      /\ \A u \in Fakes : h.node[u] = IF Owner(u) \in R /\ MakesFake(Owner(u), d[Owner(u)])
                                      THEN "TOACTIVATE" ELSE g.node[u]
      /\ \A c \in Controls : h.runs[c] = IF c \in R THEN RunOf(g, c, d[c]) ELSE g.runs[c]
      /\ R \subseteq Inside(r)
      /\ ns \subseteq R /\ R \subseteq Nodes /\ \A m \in R : \E a \in ns : m \in Inside(a)
      /\ \A m \in R \ ns : Father[m] \in R
      /\ \A m \in Nodes \ R : (\A a \in ns : m \notin Ancestors[a]) => Below[m] \intersect R = {}
      /\ \A n \in ns : \A a \in Ancestors[n] : g.node[a] \in {"ACTIVATED", "FAILED"} /\ ~Waiting(g, a)
      /\ \A m \in R : Clean(g, m) /\ g.node[m] \in {"READY", "FAILED"}
      /\ \A n \in Nodes : (Clean(h, n) <=> Clean(g, n)) /\ (Hard(h, n) <=> Hard(g, n))
  <2>1. kg \in BOOLEAN
    OBVIOUS
  <2>2. Started(r, g, h, R, ns, d)
    BY <2>1, StartIs
  <2> HIDE DEF h, R
  <2> QED BY <2>2 DEF Started
<1> HIDE DEF h, R
<1>3. \A u \in Tasks \union Fakes : Owner(u) \in Nodes
  BY OwnerIs
(* What is around a node that is not reached below.                        *)
<1>4. ASSUME NEW k \in Nodes, Father[k] \notin R, Open(kg, g, k)
      PROVE  Open(kg, h, k)
  <2>1. Father[k] # NoNode => Father[k] \in Nodes /\ (Kind[Father[k]] # "bloc" => Father[k] \in Controls)
    BY FatherIs, ComposedAssumption
  <2> QED BY <1>2, <1>4, <2>1 DEF Open
<1>5. ASSUME NEW u \in Active(g, lo, la, ru)
      PROVE  /\ h.node[u] = g.node[u] /\ Attended(kg, h, u) /\ u \in Active(h, lo, la, ru)
  <2>1. u \in Tasks \union Fakes /\ Owner(u) \in Nodes
    BY <1>3 DEF Active, Dealt
  <2>2. \A a \in ns : Owner(u) \notin Inside(a)
    BY DEF Quiet
  <2>3. Owner(u) \notin R
    BY <1>2, <2>2
  <2>4. h.node[u] = g.node[u]
    BY <1>2, <2>1, <2>3, OwnerIs
  <2>5. ASSUME NEW k \in Chain(Owner(u))
        PROVE  Open(kg, h, k)
    <3>1. k \in Nodes /\ Owner(u) \in Inside(k) /\ Open(kg, g, k)
      BY <2>1, ChainIs DEF Acts, Attended
    <3>2. Father[k] \notin R
      <4> SUFFICES ASSUME Father[k] \in R PROVE FALSE
        OBVIOUS
      <4>1. PICK a \in ns : Father[k] \in Inside(a)
        BY <1>2
      <4>2. Father[k] # NoNode /\ a \in Nodes /\ k \in Below[Father[k]]
        BY <1>1, <1>2, <3>1, FatherIs, ComposedAssumption
      <4>3. k \in Inside(a)
        BY <1>2, <4>1, <4>2, InsideIs DEF Inside
      <4>4. Owner(u) \in Inside(a)
        BY <3>1, <4>2, <4>3, InsideIs DEF Inside
      <4> QED BY <2>2, <4>4
    <3> QED BY <1>4, <3>1, <3>2
  <2>6. u \in Fakes => h.node[Owner(u)] = "ACTIVATED" /\ h.runs[Owner(u)] \in FakeRuns
    BY <1>2, <2>1, <2>3, OwnerIs DEF Acts, Attended
  <2> QED BY <2>4, <2>5, <2>6 DEF Attended, Active
<1>6. ASSUME NEW u \in Active(h, lo, la, ru), u \notin Active(g, lo, la, ru)
      PROVE  Attended(kg, h, u)
  <2>1. u \in Tasks \union Fakes /\ Owner(u) \in Nodes /\ u \in la
    BY <1>3, <1>6 DEF Active, Dealt
  <2>2. u \in Unloadable /\ u \in Tasks /\ u \in Nodes /\ u \notin Fakes /\ Owner(u) = u
    BY <1>6, <2>1, HierarchyAssumption, OwnerIs DEF Lapsed
  <2>3. u \in lo /\ h.node[u] = "TOLOAD" /\ u \in R /\ g.node[u] = "READY"
    BY <1>2, <1>6, <2>2 DEF Active
  <2>4. PICK c \in ForEachs \intersect Ancestors[u] : g.errors[c] # 0
    BY <1>6, <2>2, <2>3, OwnerIs DEF Lapsed, Hard
  <2>5. c \in Nodes /\ c \in Controls /\ kg
    BY <2>2, <2>4, AncestorsAre DEF ForEachs, Ordered, Counted
  <2>6. c \in Below[r] /\ u \in Below[c]
    <3>1. r \in Chain(u) /\ Ancestors[r] = {}
      BY <1>1, <1>2, <2>2, <2>3, InsideIs, RootIs, ComposedAssumption
    <3>2. c # r
      BY <1>1, <2>4 DEF ForEachs
    <3>3. r \in Ancestors[c]
      BY <1>1, <2>2, <2>4, <2>5, <3>1, <3>2, AncestorsComparable DEF Chain
    <3> QED BY <1>1, <2>2, <2>4, <2>5, <3>3, InsideIs
  <2>7. Ancestors[u] \intersect Below[c] \intersect Controls = {}
    <3>1. TRUE \in KeepGoings[r]
      BY <2>4, <2>5, <2>6 DEF Suits
    <3> QED BY <2>2, <2>4, <2>6, <3>1 DEF Tame
  <2>8. PICK a \in ns : u \in Inside(a)
    BY <1>2, <2>3
  <2>9. c \in Ancestors[a]
    <3>1. c \notin Inside(a)
      BY <2>4, <2>5, <2>8 DEF Startable, Pristine
    <3>2. a \in Nodes /\ a \in Chain(u)
      BY <1>1, <2>2, <2>8, InsideIs
    <3>3. c = a \/ c \in Ancestors[a] \/ a \in Ancestors[c]
      BY <2>2, <2>4, <3>2, AncestorsComparable DEF Chain
    <3> QED BY <2>5, <3>1, <3>2, <3>3, InsideIs DEF Inside
  <2>10. ASSUME NEW k \in Chain(u)
         PROVE  Open(kg, h, k)
    <3>1. k \in Nodes /\ a \in Nodes /\ u \in Inside(k)
      BY <1>1, <2>2, <2>8, ChainIs
    <3>2. CASE k \in Chain(a)
      <4>1. Open(kg, g, k)
        BY <2>8, <3>2 DEF Startable, OpenChain
      <4>2. Father[k] # NoNode => Father[k] \in Ancestors[a]
        BY <3>1, <3>2, FatherIs, AncestorsTransitive DEF Chain
      <4>3. Father[k] \notin R
        <5> SUFFICES ASSUME Father[k] \in R PROVE FALSE
          OBVIOUS
        <5>1. Father[k] \in Nodes /\ Father[k] \in Ancestors[a]
          BY <1>2, <4>2, ComposedAssumption
        <5>2. g.node[Father[k]] = "ACTIVATED"
          BY <1>1, <2>5, <2>8, <5>1, AroundIs DEF Startable, Ordered
        <5> QED BY <1>2, <5>2
      <4> QED BY <1>4, <3>1, <4>1, <4>3
    <3>3. CASE k \notin Chain(a)
      <4>1. k \in Below[a]
        <5>1. a \in Chain(u)
          BY <2>2, <2>8, <3>1, InsideIs
        <5>2. k = a \/ k \in Ancestors[a] \/ a \in Ancestors[k]
          BY <2>2, <3>1, <5>1, AncestorsComparable DEF Chain
        <5> QED BY <3>1, <3>3, <5>2, InsideIs DEF Chain
      <4>2. \A b \in ns : k # b /\ k \notin Ancestors[b]
        <5> SUFFICES ASSUME NEW b \in ns, k \in Chain(b) PROVE FALSE
          BY DEF Chain
        <5>1. b \in Nodes /\ Father[b] = Father[a] /\ a \in Ancestors[b]
          BY <1>1, <3>1, <4>1, InsideIs, AncestorsTransitive DEF Startable, Chain
        <5>2. Ancestors[b] = Ancestors[a]
          BY <3>1, <5>1, AncestorsAre DEF Fathers
        <5> QED BY <3>1, <5>1, <5>2, AncestorsAre
      <4>3. k \in R
        <5> SUFFICES ASSUME k \notin R PROVE FALSE
          OBVIOUS
        <5>1. Below[k] \intersect R = {}
          BY <1>2, <3>1, <4>2
        <5> QED BY <2>3, <3>1, <5>1 DEF Inside
      <4>4. Father[k] \in R /\ Father[k] \in Nodes /\ Father[k] # NoNode
        BY <1>2, <4>2, <4>3, ComposedAssumption
      <4>5. Father[k] \in Ancestors[u] /\ Father[k] \in Below[c]
        <5>1. Father[k] \in Ancestors[u]
          BY <2>2, <3>1, <4>4, FatherIs, AncestorsTransitive DEF Chain
        <5>2. Father[k] \in Inside(a)
          BY <3>1, <4>1, InsideIs
        <5>3. a \in Below[c]
          BY <2>5, <2>9, <3>1, InsideIs
        <5> QED BY <2>5, <5>1, <5>2, <5>3, InsideIs DEF Inside
      <4>6. Kind[Father[k]] = "bloc"
        BY <2>7, <3>1, <4>4, <4>5, FatherIs, ComposedAssumption
      <4>7. h.node[Father[k]] = "ACTIVATED"
        BY <1>2, <4>4, <4>6 DEF Tasks
      <4> QED BY <4>6, <4>7 DEF Open
    <3> QED BY <3>2, <3>3
  <2> QED BY <2>2, <2>10 DEF Attended
<1>7. Acts(kg, h, lo, la, ru)
  <2>1. \A u \in ru : h.node[u] = "ACTIVATED"
    BY <1>5 DEF Acts, Active
  <2> QED BY <1>5, <1>6, <2>1 DEF Acts
<1>8. Lapsed(kg, h, lo, la, ru)
  <2>1. \A u \in lo : u \notin Fakes => (Hard(h, u) <=> Hard(g, u))
    BY <1>2, OwnerIs DEF Dealt
  <2>2. \A u \in lo : u \in Fakes => u \in Active(g, lo, la, ru)
    BY HierarchyAssumption, OwnerIs DEF Lapsed, Dealt
  <2> QED BY <1>2, <1>5, <2>1, <2>2 DEF Lapsed
<1> QED BY <1>5, <1>7, <1>8 DEF h

-----------------------------------------------------------------------------
(* A node of a loop is run once more.                                      *)

(* When n may be: it has failed nowhere, or its loop has counted that.     *)
Repeatable(r, kg, g, n) ==
  /\ n \in Nodes /\ n \in Inside(r) /\ Father[n] \in Controls /\ Kind[Father[n]] # "switch"
  /\ OpenChain(kg, g, n)
  /\ Clean(g, n) \/ (Father[n] \in ForEachs /\ g.errors[Father[n]] # 0)
  /\ Father[n] \in ForEachs => g.ids[n] # NotRunning

(* What init makes of the graph: i from g.                                 *)
Renewed(g, i, n) ==
  /\ i \in Graphs /\ i.ids = g.ids
  /\ \A m \in Inside(n) : i.node[m] = "READY"
  /\ \A m \in (Nodes \union Fakes) \ Inside(n) : i.node[m] = g.node[m]
  /\ i.arrived = {l \in g.arrived : l[2] \notin Inside(n)}
  /\ \A c \in Controls \ Inside(n) : i.runs[c] = g.runs[c]
  /\ \A c \in ForEachs : i.runs[c] = g.runs[c]
  /\ \A c \in Controls : i.errors[c] = IF c \in Inside(n) THEN 0 ELSE g.errors[c]

LEMMA InitIs ==
  ASSUME NEW g \in Graphs, NEW n \in Nodes
  PROVE  Renewed(g, InitNode(g, n), n)
<1> DEFINE inside == {n} \union Below[n]
           node == [m \in Nodes \union Fakes |-> IF m \in inside THEN "READY" ELSE g.node[m]]
           arrived == {l \in g.arrived : l[2] \notin inside}
           runs == [c \in Controls |->
                    IF c \in inside /\ Kind[c] \in {"for", "while"} THEN "nothing" ELSE g.runs[c]]
           turns == [c \in Controls |-> IF c \in inside THEN 0 ELSE g.turns[c]]
           count == [c \in Controls |-> IF c \in inside THEN NoValue ELSE g.count[c]]
           errors == [c \in Controls |-> IF c \in inside THEN 0 ELSE g.errors[c]]
           i == InitNode(g, n)
<1>1. i = [g EXCEPT !.node = node, !.arrived = arrived, !.runs = runs, !.turns = turns,
                    !.count = count, !.errors = errors]
  BY DEF InitNode
<1>2. /\ node \in [Nodes \union Fakes -> NodeStates] /\ arrived \subseteq Links
      /\ runs \in [Controls -> Nodes \union {"nothing", "body"} \union FakeRuns]
      /\ turns \in [Controls -> Int] /\ count \in [Controls -> Int] /\ errors \in [Controls -> Nat]
  BY DEF Graphs, NodeStates, NoValue
<1>3. /\ i \in Graphs /\ i.ids = g.ids /\ i.node = node /\ i.arrived = arrived
      /\ i.runs = runs /\ i.errors = errors
  <2> HIDE DEF i, node, arrived, runs, turns, count, errors
  <2> QED BY <1>1, <1>2 DEF Graphs
<1>4. inside = Inside(n) /\ inside \subseteq Nodes
  BY InsideIs DEF Inside
<1> HIDE DEF i
<1>5. Renewed(g, i, n)
  BY <1>3, <1>4 DEF Renewed, ForEachs
<1> QED BY <1>5 DEF i

LEMMA InitKeepsOrder ==
  ASSUME NEW r \in Schemas, NEW kg \in BOOLEAN, NEW g \in Graphs, Ordered(r, kg, g),
         NEW n, Repeatable(r, kg, g, n), NEW i, Renewed(g, i, n)
  PROVE  /\ Ordered(r, kg, i) /\ Startable(r, kg, i, {n})
         /\ Marked(r, g) => Marked(r, i)
         /\ \A m \in Nodes : Hard(i, m) => Hard(g, m)
         /\ \A m \in Nodes : Hard(g, m) => \/ Hard(i, m)
                                           \/ m \in Inside(n) /\ Father[n] \in ForEachs
                                                /\ i.errors[Father[n]] # 0
         /\ \A m \in Nodes \ Inside(n) : ~Clean(g, m) => ~Clean(i, m)
<1> DEFINE f == Father[n]
<1>1. /\ n \in Nodes /\ n \in Inside(r) /\ f \in Controls /\ f \in Nodes /\ f # NoNode
      /\ Kind[f] # "switch" /\ Kind[f] # "bloc" /\ OpenChain(kg, g, n)
  BY OwnerIs, ComposedAssumption DEF Repeatable
<1>2. f \notin Inside(n) /\ f \in Ancestors[n] /\ r \in Nodes
  BY <1>1, FatherIs, AncestorsAre, AncestorsTransitive, InsideIs, ComposedAssumption DEF Inside
<1>3. /\ i \in Graphs /\ i.ids = g.ids
      /\ \A m \in Inside(n) : i.node[m] = "READY"
      /\ \A m \in (Nodes \union Fakes) \ Inside(n) : i.node[m] = g.node[m]
      /\ i.arrived = {l \in g.arrived : l[2] \notin Inside(n)}
      /\ \A c \in Controls \ Inside(n) : i.runs[c] = g.runs[c]
      /\ \A c \in Controls : i.errors[c] = IF c \in Inside(n) THEN 0 ELSE g.errors[c]
      /\ Inside(n) \subseteq Nodes
  BY <1>1, InsideIs DEF Renewed
<1>4. /\ Flags(g) /\ Unstarted(g) /\ Cases(g) /\ Ids(g) /\ DoneIsClean(g) /\ FakeIsClean(g)
      /\ Causes(g) /\ Counted(kg, g) /\ Outside(r, g)
  BY DEF Ordered
<1>5. \A m \in Inside(n) : m \in Nodes /\ Inside(m) \subseteq Inside(n) /\ Below[m] \subseteq Below[n]
  BY <1>1, InsideIs DEF Inside
<1>6. \A m \in Nodes : Hard(i, m) => Hard(g, m) /\ m \notin Inside(n)
  BY <1>3 DEF Hard
<1>7. \A m \in Nodes : Hard(g, m) => Hard(i, m) \/ (m \in Inside(n) /\ f \in ForEachs /\ i.errors[f] # 0)
  <2> SUFFICES ASSUME NEW m \in Nodes, Hard(g, m), ~Hard(i, m)
               PROVE  m \in Inside(n) /\ f \in ForEachs /\ i.errors[f] # 0
    OBVIOUS
  <2>1. m \in Inside(n)
    BY <1>3 DEF Hard
  <2>2. ~Clean(g, n)
    BY <2>1 DEF Clean
  <2> QED BY <1>1, <1>2, <1>3, <2>1, <2>2 DEF Repeatable
<1>8. \A m \in Nodes : Clean(g, m) => Clean(i, m)
  BY <1>6, InsideIs DEF Clean
(* What is not clean, and outside n, stays so.                             *)
<1>9. ASSUME NEW m \in Nodes \ Inside(n), ~Clean(g, m)
      PROVE  ~Clean(i, m)
  <2>1. PICK k \in Inside(m) : Hard(g, k)
    BY <1>9 DEF Clean
  <2>2. k \in Nodes
    BY <2>1, InsideIs
  <2>3. CASE Hard(i, k)
    BY <2>1, <2>3 DEF Clean
  <2>4. CASE ~Hard(i, k)
    <3>1. k \in Inside(n) /\ f \in ForEachs /\ i.errors[f] # 0
      BY <1>7, <2>1, <2>2, <2>4
    <3>2. m \in Chain(k) /\ n \in Chain(k)
      BY <1>1, <2>1, <2>2, <3>1, InsideIs
    <3>3. m = n \/ m \in Ancestors[n] \/ n \in Ancestors[m]
      BY <2>2, <3>2, AncestorsComparable DEF Chain
    <3>4. m \in Ancestors[n]
      BY <1>1, <3>3, InsideIs DEF Inside
    <3>5. f \in Inside(m)
      BY <1>1, <3>4, InsideIs
    <3> QED BY <1>1, <3>1, <3>5 DEF Clean, Hard
  <2> QED BY <2>3, <2>4
<1>10. \A m \in Nodes : Pristine(g, m) => Pristine(i, m)
  <2> SUFFICES ASSUME NEW m \in Nodes, Pristine(g, m) PROVE Pristine(i, m)
    OBVIOUS
  <2>1. Below[m] \subseteq Nodes
    BY InsideIs
  <2> QED BY <1>3, <2>1 DEF Pristine
<1>11. \A m \in Inside(n) : Pristine(i, m)
  <2> SUFFICES ASSUME NEW m \in Inside(n) PROVE Pristine(i, m)
    OBVIOUS
  <2>1. Below[m] \subseteq Inside(n) /\ Inside(m) \subseteq Inside(n)
    BY <1>5 DEF Inside
  <2> QED BY <1>3, <2>1 DEF Pristine
<1>12. \A m \in Nodes \ Inside(n) : Waiting(i, m) => Waiting(g, m)
  BY <1>3 DEF Waiting
<1>13. Predecessors[n] = {}
  BY <1>1, LinkIs DEF Predecessors
<1>14. Flags(i)
  <2> SUFFICES ASSUME NEW l \in i.arrived PROVE i.node[l[1]] = "DONE"
    BY DEF Flags
  <2>1. l \in g.arrived /\ l[2] \notin Inside(n) /\ g.node[l[1]] = "DONE"
    BY <1>3, <1>4 DEF Flags
  <2>2. l \in Links /\ l[1] \in Nodes /\ l[2] \in Nodes /\ l = <<l[1], l[2]>>
    BY <2>1, HierarchyAssumption DEF Graphs
  <2>3. Father[l[1]] = Father[l[2]] /\ Father[l[2]] # NoNode /\ Kind[Father[l[2]]] = "bloc"
    BY <2>2, LinkIs
  <2>4. l[1] \notin Inside(n)
    <3> SUFFICES ASSUME l[1] \in Inside(n) PROVE FALSE
      OBVIOUS
    <3>1. l[1] \in Below[n]
      BY <1>1, <2>3 DEF Inside
    <3>2. Father[l[2]] \in Inside(n)
      BY <1>1, <2>3, <3>1, InsideIs
    <3>3. l[2] \in Below[Father[l[2]]]
      BY <2>2, <2>3, FatherIs
    <3> QED BY <1>1, <2>1, <3>2, <3>3, InsideIs DEF Inside
  <2> QED BY <1>3, <2>1, <2>2, <2>4
<1>15. Unstarted(i)
  <2> SUFFICES ASSUME NEW m \in Nodes
               PROVE  /\ Waiting(i, m) => i.node[m] \in {"READY", "FAILED"} /\ Pristine(i, m)
                      /\ i.node[m] = "READY" => Pristine(i, m)
    BY DEF Unstarted
  <2>1. CASE m \in Inside(n)
    BY <1>3, <1>11, <2>1
  <2>2. CASE m \notin Inside(n)
    BY <1>3, <1>4, <1>10, <1>12, <2>2 DEF Unstarted
  <2> QED BY <2>1, <2>2
<1>16. Cases(i)
  <2> SUFFICES ASSUME NEW c \in Controls, Kind[c] = "switch", NEW m \in Children[c], i.runs[c] # m
               PROVE  i.node[m] = "READY"
    BY DEF Cases
  <2>1. m \in Nodes /\ Father[m] = c /\ c \in Nodes /\ c # NoNode
    BY OwnerIs, ComposedAssumption DEF Children
  <2>2. CASE m \in Inside(n)
    BY <1>3, <2>2
  <2>3. CASE m \notin Inside(n)
    <3>1. c \notin Inside(n)
      BY <1>1, <2>1, <2>3, FatherIs, InsideIs DEF Inside
    <3> QED BY <1>3, <1>4, <2>1, <2>3, <3>1 DEF Cases
  <2> QED BY <2>2, <2>3
<1>17. Ids(i)
  <2> SUFFICES ASSUME NEW c \in ForEachs, NEW m \in Children[c]
               PROVE  /\ i.node[m] \in AtWork => i.ids[m] # NotRunning
                      /\ ~Clean(i, m) => i.errors[c] # 0 \/ i.ids[m] # NotRunning
    BY DEF Ids
  <2>1. m \in Nodes /\ Father[m] = c /\ c \in Nodes /\ c # NoNode /\ c \in Controls
    BY OwnerIs, ComposedAssumption DEF Children, ForEachs
  <2>2. CASE m \in Inside(n)
    <3>1. i.node[m] = "READY" /\ Clean(i, m)
      BY <1>3, <1>5, <1>6, <2>2 DEF Clean
    <3> QED BY <3>1 DEF AtWork
  <2>3. CASE m \notin Inside(n)
    <3>1. c \notin Inside(n)
      BY <1>1, <2>1, <2>3, FatherIs, InsideIs DEF Inside
    <3> QED BY <1>3, <1>4, <1>8, <2>1, <2>3, <3>1 DEF Ids
  <2> QED BY <2>2, <2>3
<1>18. DoneIsClean(i)
  BY <1>3, <1>4, <1>8 DEF DoneIsClean
<1>19. FakeIsClean(i)
  BY <1>3, <1>4, <1>8, OwnerIs DEF FakeIsClean
<1>20. Causes(i)
  <2> SUFFICES ASSUME NEW m \in Nodes, Father[m] # NoNode, i.node[m] \in {"FAILED", "ERROR"}
               PROVE  ~Clean(i, Father[m])
    BY DEF Causes
  <2>1. m \notin Inside(n) /\ g.node[m] = i.node[m]
    BY <1>3
  <2>2. Father[m] \in Nodes \ Inside(n)
    BY <1>1, <2>1, FatherIs, InsideIs DEF Inside
  <2> QED BY <1>4, <1>9, <2>1, <2>2 DEF Causes
<1>21. Counted(kg, i)
  BY <1>3, <1>4 DEF Counted
<1>22. Outside(r, i)
  BY <1>3, <1>4 DEF Outside
<1>23. Ordered(r, kg, i)
  BY <1>14, <1>15, <1>16, <1>17, <1>18, <1>19, <1>20, <1>21, <1>22 DEF Ordered
<1>24. OpenChain(kg, i, n)
  <2> SUFFICES ASSUME NEW k \in Chain(n), Father[k] # NoNode PROVE Open(kg, i, k)
    BY DEF OpenChain, Open
  <2>1. k \in Nodes /\ Open(kg, g, k)
    BY <1>1, ChainIs DEF OpenChain
  <2>2. Father[k] \in Nodes /\ Father[k] \in Ancestors[n]
    BY <1>1, <2>1, FatherIs, AncestorsTransitive DEF Chain
  <2>3. Father[k] \notin Inside(n)
    BY <1>1, <2>2, AncestorsAre, AncestorsTransitive, InsideIs DEF Inside
  <2>4. Kind[Father[k]] # "bloc" => Father[k] \in Controls
    BY <2>1, FatherIs, ComposedAssumption
  <2> QED BY <1>3, <1>9, <2>1, <2>2, <2>3, <2>4 DEF Open
<1>25. Startable(r, kg, i, {n})
  <2>1. n \in Inside(n)
    BY DEF Inside
  <2> QED BY <1>1, <1>3, <1>11, <1>13, <1>24, <2>1 DEF Startable, Waiting, Repeatable
<1>26. Marked(r, g) => Marked(r, i)
  <2> SUFFICES ASSUME NEW m \in Inside(r), Hard(g, m) PROVE Marked(r, i)
    BY DEF Marked
  <2>1. m \in Nodes
    BY <1>2, InsideIs
  <2>2. f \in Inside(r)
    <3>1. n # r
      BY <1>1, ComposedAssumption
    <3> QED BY <1>1, <1>2, <3>1, InsideIs DEF Inside
  <2> QED BY <1>1, <1>7, <2>1, <2>2 DEF Marked, Hard
<1> QED BY <1>6, <1>7, <1>9, <1>23, <1>25, <1>26

Sound(r, kg, g, lo, la, ru) ==
  g \in Graphs /\ Ordered(r, kg, g) /\ Acts(kg, g, lo, la, ru) /\ Lapsed(kg, g, lo, la, ru)

(* From g to h a failure is not forgotten, the tasks in progress are left  *)
(* alone, and so is what is done outside the loops.                        *)
Follows(r, g, h, lo, la, ru) ==
  /\ Marked(r, g) => Marked(r, h)
  /\ \A u \in Active(g, lo, la, ru) : h.node[u] = g.node[u]
  /\ KeepsDone(g, h)

LEMMA FollowsTransitive ==
  ASSUME NEW r, NEW g, NEW h, NEW i, NEW lo, NEW la, NEW ru,
         Follows(r, g, h, lo, la, ru), Follows(r, h, i, lo, la, ru)
  PROVE  Follows(r, g, i, lo, la, ru)
BY DEF Follows, Active, KeepsDone

LEMMA InitKeepsActs ==
  ASSUME NEW r \in Schemas, NEW kg \in BOOLEAN, NEW n, NEW g, NEW lo, NEW la, NEW ru,
         Dealt(lo, la, ru), Sound(r, kg, g, lo, la, ru),
         Repeatable(r, kg, g, n), Quiet(g, lo, la, ru, {n}), NEW i, Renewed(g, i, n)
  PROVE  /\ Sound(r, kg, i, lo, la, ru) /\ Quiet(i, lo, la, ru, {n})
         /\ Follows(r, g, i, lo, la, ru)
<1> DEFINE f == Father[n]
<1>1. n \in Nodes /\ f \in ForEachs \union Controls /\ f \in Nodes /\ f # NoNode /\ f \in Ancestors[n]
  BY OwnerIs, FatherIs, ComposedAssumption DEF Repeatable
<1>2. /\ i \in Graphs
      /\ \A m \in Inside(n) : i.node[m] = "READY"
      /\ \A m \in (Nodes \union Fakes) \ Inside(n) : i.node[m] = g.node[m]
      /\ \A c \in Controls \ Inside(n) : i.runs[c] = g.runs[c]
      /\ \A c \in Controls : i.errors[c] = IF c \in Inside(n) THEN 0 ELSE g.errors[c]
      /\ Inside(n) \subseteq Nodes
  BY <1>1, InsideIs DEF Renewed
<1>3. g \in Graphs /\ Ordered(r, kg, g) /\ Acts(kg, g, lo, la, ru) /\ Lapsed(kg, g, lo, la, ru)
  BY DEF Sound
<1>4. /\ Ordered(r, kg, i) /\ (Marked(r, g) => Marked(r, i))
      /\ \A m \in Nodes : Hard(i, m) => Hard(g, m)
      /\ \A m \in Nodes : Hard(g, m) => \/ Hard(i, m)
                                        \/ m \in Inside(n) /\ f \in ForEachs /\ i.errors[f] # 0
      /\ \A m \in Nodes \ Inside(n) : ~Clean(g, m) => ~Clean(i, m)
  BY <1>3, InitKeepsOrder
<1>5. \A u \in la \union ru : u \in Tasks \union Fakes /\ Owner(u) \in Nodes
  BY OwnerIs DEF Dealt
<1>6. \A u \in Active(g, lo, la, ru) : u \in la \union ru /\ Owner(u) \notin Inside(n)
  BY DEF Dealt, Active, Quiet
<1>7. \A u \in Active(g, lo, la, ru) : i.node[u] = g.node[u]
  BY <1>2, <1>5, <1>6, OwnerIs
<1>8. \A u \in Active(i, lo, la, ru) : u \in Active(g, lo, la, ru)
  <2>1. \A u \in la \union ru : i.node[u] # "READY" => i.node[u] = g.node[u]
    BY <1>2, <1>5, OwnerIs
  <2> QED BY <2>1 DEF Active, Dealt
<1>9. ASSUME NEW u \in Active(g, lo, la, ru)
      PROVE  Attended(kg, i, u)
  <2>1. Owner(u) \in Nodes /\ Owner(u) \notin Inside(n) /\ Attended(kg, g, u)
    BY <1>3, <1>5, <1>6 DEF Acts
  <2>2. ASSUME NEW k \in Chain(Owner(u)), Father[k] # NoNode
        PROVE  Open(kg, i, k)
    <3>1. k \in Nodes /\ Owner(u) \in Inside(k) /\ Open(kg, g, k)
      BY <2>1, ChainIs DEF Attended
    <3>2. Father[k] \in Nodes /\ Inside(k) \subseteq Below[Father[k]]
      BY <2>2, <3>1, FatherIs, InsideIs
    <3>3. Father[k] \notin Inside(n)
      BY <1>1, <2>1, <3>1, <3>2, InsideIs DEF Inside
    <3>4. Kind[Father[k]] # "bloc" => Father[k] \in Controls
      BY <2>2, <3>1, FatherIs, ComposedAssumption
    <3> QED BY <1>2, <1>4, <3>1, <3>2, <3>3, <3>4 DEF Open
  <2>3. u \in Fakes => i.node[Owner(u)] = "ACTIVATED" /\ i.runs[Owner(u)] \in FakeRuns
    BY <1>2, <2>1, OwnerIs DEF Attended
  <2> QED BY <2>2, <2>3 DEF Attended, Open
<1>10. Acts(kg, i, lo, la, ru)
  BY <1>3, <1>7, <1>8, <1>9 DEF Acts, Active
<1>11. Lapsed(kg, i, lo, la, ru)
  <2>1. \A u \in Active(g, lo, la, ru) : u \in Active(i, lo, la, ru)
    BY <1>7 DEF Active
  <2>2. ASSUME NEW u \in lo, u \notin Active(i, lo, la, ru)
        PROVE  Hard(i, u) \/ \E c \in ForEachs \intersect Ancestors[u] : i.errors[c] # 0
    <3>1. u \in Tasks /\ u \in Nodes
      BY <1>3, <2>1, <2>2, HierarchyAssumption, OwnerIs DEF Lapsed, Dealt
    <3>2. CASE Hard(g, u)
      <4>1. u \in Inside(n) => f \in Ancestors[u]
        BY <1>1, <3>1, InsideIs, AncestorsTransitive DEF Chain
      <4> QED BY <1>4, <3>1, <3>2, <4>1
    <3>3. CASE \E c \in ForEachs \intersect Ancestors[u] : g.errors[c] # 0
      <4>1. PICK c \in ForEachs \intersect Ancestors[u] : g.errors[c] # 0
        BY <3>3
      <4>2. c \in Controls /\ c \in Nodes
        BY OwnerIs DEF ForEachs
      <4>3. CASE c \notin Inside(n)
        BY <1>2, <4>1, <4>2, <4>3
      <4>4. CASE c \in Inside(n)
        <5>1. ~Hard(i, c)
          BY <1>2, <4>2, <4>4 DEF Hard
        <5>2. f \in ForEachs /\ i.errors[f] # 0
          BY <1>4, <4>1, <4>2, <5>1 DEF Hard
        <5>3. f \in Ancestors[c]
          BY <1>1, <4>2, <4>4, InsideIs, AncestorsTransitive DEF Chain
        <5> QED BY <3>1, <4>1, <5>2, <5>3, AncestorsTransitive
      <4> QED BY <4>3, <4>4
    <3> QED BY <1>3, <2>1, <2>2, <3>2, <3>3 DEF Lapsed
  <2> QED BY <1>3, <2>1, <2>2 DEF Lapsed
<1>12. Quiet(i, lo, la, ru, {n})
  BY <1>6, <1>8 DEF Quiet
<1>13. KeepsDone(g, i)
  <2>1. Kind[f] \in {"for", "while", "foreach"}
    BY <1>1, ComposedAssumption DEF Repeatable, ForEachs
  <2>2. \A m \in Nodes \intersect Inside(n) : InLoop(m)
    BY <1>1, <2>1, InsideIs, AncestorsTransitive DEF Chain, InLoop
  <2> QED BY <1>2, <2>2 DEF KeepsDone
<1> QED BY <1>2, <1>4, <1>7, <1>10, <1>11, <1>12, <1>13 DEF Sound, Follows

(* What may be started is not done.                                        *)
LEMMA StartableIs ==
  ASSUME NEW r, NEW kg, NEW g, NEW ns, Startable(r, kg, g, ns),
         NEW a \in ns, NEW m \in Inside(a)
  PROVE  g.node[m] # "DONE"
BY DEF Startable, Pristine, Inside

LEMMA StartKeeps ==
  ASSUME Tame, NEW r \in Schemas, NEW kg \in BOOLEAN, Suits(r, kg),
         NEW d \in Values(Controls \intersect Below[r]), NEW ns,
         NEW g, NEW lo, NEW la, NEW ru, Dealt(lo, la, ru), Sound(r, kg, g, lo, la, ru),
         Startable(r, kg, g, ns), Quiet(g, lo, la, ru, ns)
  PROVE  LET h == ExUpdateState(g, ns, d)
         IN  Sound(r, kg, h, lo, la, ru) /\ Follows(r, g, h, lo, la, ru)
<1> DEFINE h == ExUpdateState(g, ns, d)
           R == Reached(g, ns, d)
<1>1. kg \in BOOLEAN /\ Suits(r, kg)
  OBVIOUS
<1>2. g \in Graphs /\ Ordered(r, kg, g) /\ Acts(kg, g, lo, la, ru) /\ Lapsed(kg, g, lo, la, ru)
  BY DEF Sound
<1>3. Started(r, g, h, R, ns, d)
  BY <1>1, <1>2, StartIs
<1>4. Ordered(r, kg, h)
  BY <1>1, <1>2, StartKeepsOrder
<1>5. /\ Acts(kg, h, lo, la, ru) /\ Lapsed(kg, h, lo, la, ru)
      /\ \A u \in Active(g, lo, la, ru) : h.node[u] = g.node[u]
  BY <1>1, <1>2, StartKeepsActs
<1> HIDE DEF h, R
<1>6. h \in Graphs /\ \A m \in Nodes : Hard(h, m) <=> Hard(g, m)
  BY <1>3 DEF Started
<1>7. Marked(r, g) => Marked(r, h)
  BY <1>6, InsideIs, ComposedAssumption DEF Marked
<1>8. KeepsDone(g, h)
  <2>1. \A m \in R : m \in Nodes /\ g.node[m] # "DONE"
    BY <1>3, StartableIs DEF Started
  <2> QED BY <1>3, <2>1 DEF Started, KeepsDone
<1>9. Sound(r, kg, h, lo, la, ru) /\ Follows(r, g, h, lo, la, ru)
  BY <1>4, <1>5, <1>6, <1>7, <1>8 DEF Sound, Follows
<1> QED BY <1>9 DEF h

LEMMA RunAgainKeeps ==
  ASSUME Tame, NEW r \in Schemas, NEW kg \in BOOLEAN, Suits(r, kg),
         NEW d \in Values(Controls \intersect Below[r]), NEW n,
         NEW g, NEW lo, NEW la, NEW ru, Dealt(lo, la, ru), Sound(r, kg, g, lo, la, ru),
         Repeatable(r, kg, g, n), Quiet(g, lo, la, ru, {n})
  PROVE  LET h == RunAgain(g, n, d)
         IN  Sound(r, kg, h, lo, la, ru) /\ Follows(r, g, h, lo, la, ru)
<1> DEFINE i == InitNode(g, n)
           h == ExUpdateState(i, {n}, d)
<1>1. kg \in BOOLEAN /\ g \in Graphs /\ n \in Nodes /\ Ordered(r, kg, g)
  BY HierarchyAssumption DEF Sound, Repeatable
<1>2. Renewed(g, i, n)
  BY <1>1, InitIs
<1> HIDE DEF i
<1>3. /\ Sound(r, kg, i, lo, la, ru) /\ Quiet(i, lo, la, ru, {n})
      /\ Follows(r, g, i, lo, la, ru)
  BY <1>1, <1>2, InitKeepsActs
<1>4. Startable(r, kg, i, {n})
  BY <1>1, <1>2, InitKeepsOrder
<1>5. Sound(r, kg, h, lo, la, ru) /\ Follows(r, i, h, lo, la, ru)
  BY <1>3, <1>4, StartKeeps
<1>6. Follows(r, g, h, lo, la, ru)
  BY <1>3, <1>5, FollowsTransitive
<1>7. RunAgain(g, n, d) = h
  BY DEF RunAgain, i
<1> QED BY <1>5, <1>6, <1>7

-----------------------------------------------------------------------------
(* The state of one node changes.                                          *)

LEMMA ActiveIs ==
  ASSUME NEW r, NEW kg, NEW g, NEW lo, NEW la, NEW ru, Dealt(lo, la, ru),
         Sound(r, kg, g, lo, la, ru), NEW u \in Active(g, lo, la, ru)
  PROVE  /\ u \in Tasks \union Fakes /\ u \in la \union ru
         /\ Owner(u) \in Nodes /\ g.node[Owner(u)] \in AtWork
         /\ \A k \in Chain(Owner(u)) : Open(kg, g, k)
         /\ u \in Tasks => Owner(u) = u
         /\ u \in Fakes => Owner(u) \in Controls /\ g.runs[Owner(u)] \in FakeRuns
<1>1. u \in Tasks \union Fakes /\ u \in la \union ru
  BY DEF Active, Dealt
<1>2. Attended(kg, g, u)
  BY DEF Sound, Acts
<1>3. u \in Tasks => g.node[u] \in AtWork
  BY DEF Active, AtWork, Sound, Acts
<1> QED BY <1>1, <1>2, <1>3, OwnerIs DEF Attended, AtWork

(* A node that is not at work has nothing in progress inside.              *)
LEMMA QuietIs ==
  ASSUME NEW r, NEW kg, NEW g, NEW lo, NEW la, NEW ru, Dealt(lo, la, ru),
         Sound(r, kg, g, lo, la, ru), NEW n \in Nodes, g.node[n] \notin AtWork,
         g.node[n] = "FAILED" => kg \/ Clean(g, n)
  PROVE  Quiet(g, lo, la, ru, {n})
<1> SUFFICES ASSUME NEW u \in Active(g, lo, la, ru), Owner(u) \in Inside(n) PROVE FALSE
  BY DEF Quiet
<1>1. Owner(u) \in Nodes /\ g.node[Owner(u)] \in AtWork /\ \A k \in Chain(Owner(u)) : Open(kg, g, k)
  BY ActiveIs
<1>2. n \in Ancestors[Owner(u)]
  BY <1>1, InsideIs DEF Inside
<1>3. PICK k \in Chain(Owner(u)) : Father[k] = n /\ n # NoNode
  BY <1>1, <1>2, ChildAround DEF Chain
<1> QED BY <1>1, <1>3 DEF Open, AtWork

(* Nor has a structure whose children have not.                            *)
LEMMA QuietAround ==
  ASSUME NEW r, NEW kg, NEW g, NEW lo, NEW la, NEW ru, Dealt(lo, la, ru),
         Sound(r, kg, g, lo, la, ru), NEW f \in Nodes, f \notin Tasks,
         f \in Controls => g.runs[f] \notin FakeRuns,
         \A k \in Children[f] : Quiet(g, lo, la, ru, {k})
  PROVE  Quiet(g, lo, la, ru, {f})
<1> SUFFICES ASSUME NEW u \in Active(g, lo, la, ru), Owner(u) \in Inside(f) PROVE FALSE
  BY DEF Quiet
<1>1. /\ Owner(u) \in Nodes /\ u \in Tasks \union Fakes
      /\ u \in Tasks => Owner(u) = u
      /\ u \in Fakes => Owner(u) \in Controls /\ g.runs[Owner(u)] \in FakeRuns
  BY ActiveIs
<1>2. Owner(u) # f
  BY <1>1
<1>3. f \in Ancestors[Owner(u)]
  BY <1>1, <1>2, InsideIs DEF Inside
<1>4. PICK k \in Chain(Owner(u)) : k \in Nodes /\ Father[k] = f
  BY <1>1, <1>3, ChildAround DEF Chain
<1>5. k \in Children[f] /\ Owner(u) \in Inside(k)
  BY <1>1, <1>4, ChainIs DEF Children
<1> QED BY <1>5 DEF Quiet

(* A node at work or failed, which runs or has failed, takes the state b.  *)
Settable(r, kg, g, f, b) ==
  /\ f \in Inside(r) /\ OpenChain(kg, g, f) /\ ~Waiting(g, f)
  /\ \/ g.node[f] \in AtWork
     \/ ~kg /\ g.node[f] = "FAILED" /\ ~Clean(g, f)
  /\ \/ b = "ACTIVATED" /\ (f \in Controls => g.runs[f] \notin FakeRuns)
     \/ b = "DONE" /\ Clean(g, f)
     \/ b = "FAILED" /\ ~Clean(g, f)
     \/ b = "ERROR"

LEMMA SetIs ==
  ASSUME NEW g \in Graphs, NEW f \in Nodes \union Fakes, NEW b \in NodeStates
  PROVE  LET h == SetState(g, f, b)
         IN  /\ h \in Graphs /\ h.node[f] = b
             /\ \A n \in (Nodes \union Fakes) \ {f} : h.node[n] = g.node[n]
             /\ h.arrived = g.arrived /\ h.runs = g.runs /\ h.errors = g.errors /\ h.ids = g.ids
             /\ h.turns = g.turns /\ h.count = g.count /\ h.current = g.current
BY DEF SetState, Graphs

LEMMA SetKeepsOrder ==
  ASSUME NEW r \in Schemas, NEW kg \in BOOLEAN, NEW g \in Graphs, Ordered(r, kg, g),
         NEW f, NEW b, Settable(r, kg, g, f, b)
  PROVE  LET h == SetState(g, f, b)
         IN  /\ Ordered(r, kg, h)
             /\ \A n \in Nodes : Hard(g, n) => Hard(h, n)
             /\ \A n \in Nodes : ~Clean(g, n) => ~Clean(h, n)
             /\ b # "ERROR" => \A n \in Nodes : Clean(g, n) => Clean(h, n)
<1> DEFINE h == SetState(g, f, b)
<1>1. f \in Nodes /\ r \in Nodes /\ b \in NodeStates /\ b \in {"ACTIVATED", "DONE", "FAILED", "ERROR"}
  BY InsideIs, ComposedAssumption DEF Settable, NodeStates, Ended
<1>2. /\ h \in Graphs /\ h.node[f] = b /\ \A n \in (Nodes \union Fakes) \ {f} : h.node[n] = g.node[n]
      /\ h.arrived = g.arrived /\ h.runs = g.runs /\ h.errors = g.errors /\ h.ids = g.ids
  BY <1>1, SetIs
<1> HIDE DEF h
<1>3. /\ Flags(g) /\ Unstarted(g) /\ Cases(g) /\ Ids(g) /\ DoneIsClean(g) /\ FakeIsClean(g)
      /\ Causes(g) /\ Counted(kg, g) /\ Outside(r, g)
  BY DEF Ordered
<1>4. g.node[f] \notin {"READY", "DONE", "ERROR"} /\ ~Waiting(g, f)
  BY DEF Settable, AtWork
<1>5. /\ \A n \in Nodes : Hard(g, n) => Hard(h, n)
      /\ \A n \in Nodes \ {f} : Hard(h, n) <=> Hard(g, n)
      /\ b # "ERROR" => \A n \in Nodes : Hard(h, n) <=> Hard(g, n)
  BY <1>2, <1>4 DEF Hard
<1>6. /\ \A n \in Nodes : ~Clean(g, n) => ~Clean(h, n)
      /\ b # "ERROR" => \A n \in Nodes : Clean(g, n) <=> Clean(h, n)
      /\ \A n \in Nodes : n \notin Chain(f) => (Clean(g, n) <=> Clean(h, n))
  BY <1>1, <1>5, InsideIs DEF Clean
<1>7. \A n \in Nodes : Waiting(h, n) <=> Waiting(g, n)
  BY <1>2 DEF Waiting
<1>8. \A a \in Ancestors[f] : /\ a \in Nodes /\ g.node[a] \in {"ACTIVATED", "FAILED"}
                              /\ kg => g.node[a] = "ACTIVATED"
  BY <1>1, <1>3, AroundIs DEF Settable
<1>9. Flags(h)
  <2>1. \A l \in g.arrived : l[1] \in Nodes
    BY HierarchyAssumption DEF Graphs
  <2> QED BY <1>2, <1>3, <1>4, <2>1 DEF Flags
<1>10. Unstarted(h)
  <2>1. \A n \in Nodes : Pristine(g, n) => Pristine(h, n)
    <3> SUFFICES ASSUME NEW n \in Nodes, Pristine(g, n) PROVE Pristine(h, n)
      OBVIOUS
    <3>1. f \notin Below[n] /\ Below[n] \subseteq Nodes
      BY <1>4, InsideIs DEF Pristine
    <3> QED BY <1>2, <3>1 DEF Pristine
  <2>2. \A n \in Nodes \ {f} : h.node[n] = g.node[n]
    BY <1>2
  <2> QED BY <1>1, <1>2, <1>3, <1>4, <1>7, <2>1, <2>2 DEF Unstarted
<1>11. Cases(h)
  <2> SUFFICES ASSUME NEW c \in Controls, Kind[c] = "switch", NEW n \in Children[c], h.runs[c] # n
               PROVE  h.node[n] = "READY"
    BY DEF Cases
  <2>1. g.node[n] = "READY" /\ n \in Nodes
    BY <1>2, <1>3, OwnerIs DEF Cases, Children
  <2> QED BY <1>2, <1>4, <2>1
<1>12. Ids(h)
  <2> SUFFICES ASSUME NEW c \in ForEachs, NEW n \in Children[c]
               PROVE  /\ h.node[n] \in AtWork => h.ids[n] # NotRunning
                      /\ ~Clean(h, n) => h.errors[c] # 0 \/ h.ids[n] # NotRunning
    BY DEF Ids
  <2>1. n \in Nodes /\ Father[n] = c /\ c # NoNode /\ c \in Controls
    BY ComposedAssumption, OwnerIs DEF Children, ForEachs
  <2>2. /\ g.node[n] \in AtWork => g.ids[n] # NotRunning
        /\ ~Clean(g, n) => g.errors[c] # 0 \/ g.ids[n] # NotRunning
    BY <1>3 DEF Ids
  <2>3. CASE n \notin Chain(f)
    BY <1>2, <1>6, <2>1, <2>2, <2>3 DEF Chain
  <2>4. CASE n \in Chain(f)
    <3>1. g.node[n] \in AtWork \/ (~kg /\ ~Clean(g, n))
      <4>1. CASE n = f
        BY <4>1 DEF Settable
      <4>2. CASE n \in Ancestors[f]
        <5>1. PICK k \in Chain(f) : Father[k] = n /\ n # NoNode
          BY <1>1, <4>2, ChildAround DEF Chain
        <5>2. Open(kg, g, k)
          BY <5>1 DEF Settable, OpenChain
        <5> QED BY <5>1, <5>2 DEF Open, AtWork
      <4> QED BY <2>4, <4>1, <4>2 DEF Chain
    <3>2. ~kg => g.errors[c] = 0
      BY <1>3, <2>1 DEF Counted
    <3> QED BY <1>2, <2>2, <3>1, <3>2
  <2> QED BY <2>3, <2>4
<1>13. DoneIsClean(h)
  <2> SUFFICES ASSUME NEW n \in Nodes, h.node[n] = "DONE" PROVE Clean(h, n)
    BY DEF DoneIsClean
  <2>1. CASE n = f
    BY <1>1, <1>2, <1>6, <2>1 DEF Settable
  <2>2. CASE n # f
    <3>1. g.node[n] = "DONE"
      BY <1>2, <2>2
    <3>2. n \notin Chain(f)
      BY <1>8, <2>2, <3>1 DEF Chain
    <3> QED BY <1>3, <1>6, <3>1, <3>2 DEF DoneIsClean
  <2> QED BY <2>1, <2>2
<1>14. FakeIsClean(h)
  <2> SUFFICES ASSUME NEW c \in Controls, h.runs[c] \in FakeRuns, h.node[c] = "ACTIVATED"
               PROVE  Clean(h, c)
    BY DEF FakeIsClean
  <2>1. c \in Nodes /\ g.runs[c] \in FakeRuns
    BY <1>2, OwnerIs
  <2>2. c # f
    BY <1>2, <2>1 DEF Settable
  <2>3. c \notin Ancestors[f]
    <3> SUFFICES ASSUME c \in Ancestors[f] PROVE FALSE
      OBVIOUS
    <3>1. PICK k \in Chain(f) : k \in Nodes /\ Father[k] = c /\ c # NoNode
      BY <1>1, ChildAround DEF Chain
    <3>2. Open(kg, g, k)
      BY <3>1 DEF Settable, OpenChain
    <3> QED BY <2>1, <3>1, <3>2, HierarchyAssumption, ComposedAssumption DEF Open, FakeRuns
  <2> QED BY <1>2, <1>3, <1>6, <2>1, <2>2, <2>3 DEF FakeIsClean, Chain
<1>15. Causes(h)
  <2> SUFFICES ASSUME NEW n \in Nodes, Father[n] # NoNode, h.node[n] \in {"FAILED", "ERROR"}
               PROVE  ~Clean(h, Father[n])
    BY DEF Causes
  <2>1. Father[n] \in Nodes /\ n \in Inside(Father[n]) /\ Inside(n) \subseteq Inside(Father[n])
    BY FatherIs, InsideIs DEF Inside
  <2>2. CASE n # f
    BY <1>2, <1>3, <1>6, <2>1, <2>2 DEF Causes
  <2>3. CASE n = f /\ b = "FAILED"
    BY <1>1, <1>6, <2>1, <2>3 DEF Settable, Clean
  <2>4. CASE n = f /\ b = "ERROR"
    BY <1>2, <2>1, <2>4 DEF Clean, Hard
  <2> QED BY <1>2, <2>2, <2>3, <2>4
<1>16. Counted(kg, h)
  BY <1>2, <1>3 DEF Counted
<1>17. Outside(r, h)
  <2>1. f \in Inside(r)
    BY DEF Settable
  <2> QED BY <1>2, <1>3, <2>1 DEF Outside
<1>18. Ordered(r, kg, h)
  BY <1>9, <1>10, <1>11, <1>12, <1>13, <1>14, <1>15, <1>16, <1>17 DEF Ordered
<1> QED BY <1>5, <1>6, <1>18 DEF h

(* What is in progress in f allows for the state b.                        *)
Allows(kg, g, lo, la, ru, f, b) ==
  /\ f \in la \union ru => b = "ERROR" /\ f \in Unloadable /\ f \notin ru
  /\ \A u \in Active(g, lo, la, ru) \ {f} : Owner(u) \in Inside(f) =>
       b = "ACTIVATED" \/ (~kg /\ b = "FAILED" /\ Owner(u) # f)

LEMMA SetKeeps ==
  ASSUME NEW r \in Schemas, NEW kg \in BOOLEAN, NEW g, NEW lo, NEW la, NEW ru,
         Dealt(lo, la, ru), Sound(r, kg, g, lo, la, ru),
         NEW f, NEW b, Settable(r, kg, g, f, b), Allows(kg, g, lo, la, ru, f, b)
  PROVE  LET h == SetState(g, f, b)
         IN  /\ Sound(r, kg, h, lo, la, ru)
             /\ Marked(r, g) => Marked(r, h)
             /\ \A u \in Active(g, lo, la, ru) \ {f} : h.node[u] = g.node[u]
<1> DEFINE h == SetState(g, f, b)
<1>1. f \in Nodes /\ r \in Nodes /\ b \in NodeStates /\ b \in {"ACTIVATED", "DONE", "FAILED", "ERROR"}
  BY InsideIs, ComposedAssumption DEF Settable, NodeStates, Ended
<1>2. g \in Graphs /\ Ordered(r, kg, g) /\ Acts(kg, g, lo, la, ru) /\ Lapsed(kg, g, lo, la, ru)
  BY DEF Sound
<1>3. /\ h \in Graphs /\ h.node[f] = b /\ \A n \in (Nodes \union Fakes) \ {f} : h.node[n] = g.node[n]
      /\ h.arrived = g.arrived /\ h.runs = g.runs /\ h.errors = g.errors
  BY <1>1, <1>2, SetIs
<1>4. /\ Ordered(r, kg, h)
      /\ \A n \in Nodes : Hard(g, n) => Hard(h, n)
      /\ \A n \in Nodes : ~Clean(g, n) => ~Clean(h, n)
  BY <1>2, SetKeepsOrder
<1> HIDE DEF h
<1>5. la \union ru \subseteq Tasks \union Fakes /\ lo \subseteq la
  BY DEF Dealt
<1>6. Marked(r, g) => Marked(r, h)
  BY <1>1, <1>4, InsideIs DEF Marked
<1>7. \A u \in la \union ru : u # f => h.node[u] = g.node[u]
  BY <1>3, <1>5, OwnerIs
<1>8. f \in la \union ru => h.node[f] = "ERROR" /\ f \notin ru /\ f \in Unloadable /\ Hard(h, f)
  BY <1>3 DEF Allows, Hard
<1>9. \A u : u \in Active(h, lo, la, ru) <=> u \in Active(g, lo, la, ru) /\ u # f
  BY <1>5, <1>7, <1>8 DEF Active
<1>10. ASSUME NEW u \in Active(g, lo, la, ru), u # f
       PROVE  Attended(kg, h, u)
  <2>1. Attended(kg, g, u) /\ Owner(u) \in Nodes /\ u \in la \union ru
    BY <1>2, ActiveIs DEF Acts
  <2>2. ASSUME NEW k \in Chain(Owner(u)), Father[k] # NoNode
        PROVE  Open(kg, h, k)
    <3>1. k \in Nodes /\ Owner(u) \in Inside(k) /\ Open(kg, g, k)
      BY <2>1, ChainIs DEF Attended
    <3>2. Father[k] \in Nodes
      BY <2>2, <3>1, FatherIs
    <3>3. CASE Father[k] # f
      BY <1>3, <1>4, <3>1, <3>2, <3>3 DEF Open
    <3>4. CASE Father[k] = f
      <4>1. Owner(u) \in Inside(f)
        BY <2>2, <3>1, <3>2, <3>4, FatherIs, InsideIs DEF Inside
      <4>2. b = "ACTIVATED" \/ (~kg /\ b = "FAILED")
        BY <1>10, <4>1 DEF Allows
      <4>3. b = "FAILED" => ~Clean(h, f)
        BY <1>1, <1>4 DEF Settable
      <4> QED BY <1>3, <2>2, <3>1, <3>4, <4>2, <4>3 DEF Open
    <3> QED BY <3>3, <3>4
  <2>3. u \in Fakes => h.node[Owner(u)] = "ACTIVATED" /\ h.runs[Owner(u)] \in FakeRuns
    <3> SUFFICES ASSUME u \in Fakes PROVE h.node[Owner(u)] = "ACTIVATED" /\ h.runs[Owner(u)] \in FakeRuns
      OBVIOUS
    <3>1. g.node[Owner(u)] = "ACTIVATED" /\ g.runs[Owner(u)] \in FakeRuns
      BY <2>1 DEF Attended
    <3>2. Owner(u) = f => b = "ACTIVATED"
      BY <1>10 DEF Allows, Inside
    <3> QED BY <1>3, <2>1, <3>1, <3>2
  <2> QED BY <2>2, <2>3 DEF Attended, Open
<1>11. Acts(kg, h, lo, la, ru)
  <2>1. \A u \in ru : h.node[u] = "ACTIVATED"
    BY <1>2, <1>7, <1>8 DEF Acts
  <2> QED BY <1>9, <1>10, <2>1 DEF Acts
<1>12. Lapsed(kg, h, lo, la, ru)
  <2>1. \A u \in lo : u \in la
    BY DEF Dealt
  <2>2. ASSUME NEW u \in lo
        PROVE  \/ u \in Active(h, lo, la, ru)
               \/ Hard(h, u)
               \/ \E c \in ForEachs \intersect Ancestors[u] : h.errors[c] # 0
    <3>1. CASE u = f
      BY <1>8, <2>1, <3>1
    <3>2. CASE u # f
      <4>1. Hard(g, u) => Hard(h, u)
        BY <1>3, <1>7, <2>1, <3>2 DEF Hard
      <4> QED BY <1>2, <1>3, <1>9, <3>2, <4>1 DEF Lapsed
    <3> QED BY <3>1, <3>2
  <2> QED BY <1>2, <1>8, <1>9, <2>2 DEF Lapsed
<1>13. /\ Sound(r, kg, h, lo, la, ru) /\ (Marked(r, g) => Marked(r, h))
       /\ \A u \in Active(g, lo, la, ru) \ {f} : h.node[u] = g.node[u]
  <2>1. \A u \in Active(g, lo, la, ru) : u \in la \union ru
    BY <1>5 DEF Active
  <2> QED BY <1>3, <1>4, <1>6, <1>7, <1>11, <1>12, <2>1 DEF Sound
<1> QED BY <1>13 DEF h

(* A father takes the state b; f is a structure, which is never among the  *)
(* tasks.                                                                  *)
LEMMA FatherKeeps ==
  ASSUME NEW r \in Schemas, NEW kg \in BOOLEAN, NEW g, NEW lo, NEW la, NEW ru,
         Dealt(lo, la, ru), Sound(r, kg, g, lo, la, ru),
         NEW f, NEW b, Settable(r, kg, g, f, b), f \notin Tasks,
         f \in Controls => g.runs[f] \notin FakeRuns,
         b = "ACTIVATED" \/ (~kg /\ b = "FAILED") \/ Quiet(g, lo, la, ru, {f})
  PROVE  LET h == SetState(g, f, b)
         IN  Sound(r, kg, h, lo, la, ru) /\ Follows(r, g, h, lo, la, ru)
<1>1. f \in Nodes
  BY InsideIs, ComposedAssumption DEF Settable
<1>2. f \notin la \union ru /\ f \notin Active(g, lo, la, ru)
  BY <1>1, OwnerIs, ActiveIs DEF Dealt
<1>3. \A u \in Active(g, lo, la, ru) : Owner(u) # f
  <2> SUFFICES ASSUME NEW u \in Active(g, lo, la, ru), Owner(u) = f PROVE FALSE
    OBVIOUS
  <2> QED BY <1>2, ActiveIs
<1>4. Allows(kg, g, lo, la, ru, f, b)
  BY <1>2, <1>3 DEF Allows, Quiet
<1>5. KeepsDone(g, SetState(g, f, b))
  <2>1. g.node[f] # "DONE"
    BY DEF Settable, AtWork
  <2>2. g \in Graphs /\ b \in NodeStates
    BY DEF Settable, Sound, NodeStates, Ended
  <2>3. \A n \in (Nodes \union Fakes) \ {f} : SetState(g, f, b).node[n] = g.node[n]
    BY <1>1, <2>2, SetIs
  <2> QED BY <2>1, <2>3 DEF KeepsDone
<1> QED BY <1>2, <1>4, <1>5, SetKeeps DEF Follows

(* The counters of a loop change, and the sample of one of its branches.   *)

(* What they may become: h from g, where n is a branch of f.               *)
Recounted(kg, g, h, f, n) ==
  /\ h \in Graphs /\ h.node = g.node /\ h.arrived = g.arrived /\ h.runs = g.runs
  /\ \A c \in Controls \ {f} : h.errors[c] = g.errors[c]
  /\ \/ h.errors[f] = g.errors[f]
     \/ kg /\ f \in ForEachs /\ h.errors[f] # 0
  /\ \A m \in Nodes \ {n} : h.ids[m] = g.ids[m]
  /\ \/ h.ids[n] = g.ids[n] \/ h.ids[n] # NotRunning
     \/ h.node[n] \notin AtWork /\ (Clean(h, n) \/ h.errors[f] # 0)

LEMMA RecountKeeps ==
  ASSUME NEW r \in Schemas, NEW kg \in BOOLEAN, NEW g, NEW lo, NEW la, NEW ru,
         Dealt(lo, la, ru), Sound(r, kg, g, lo, la, ru),
         NEW f \in Controls, NEW n \in Children[f], OpenChain(kg, g, n),
         NEW h, Recounted(kg, g, h, f, n)
  PROVE  /\ Sound(r, kg, h, lo, la, ru) /\ Follows(r, g, h, lo, la, ru) /\ OpenChain(kg, h, n)
         /\ \A m \in Nodes : ~Clean(g, m) => ~Clean(h, m)
         /\ \A m \in Nodes : f \notin Inside(m) => (Clean(g, m) <=> Clean(h, m))
         /\ Active(h, lo, la, ru) = Active(g, lo, la, ru)
<1>1. g \in Graphs /\ Ordered(r, kg, g) /\ Acts(kg, g, lo, la, ru) /\ Lapsed(kg, g, lo, la, ru)
  BY DEF Sound
<1>2. n \in Nodes /\ Father[n] = f /\ f \in Nodes /\ f # NoNode /\ r \in Nodes
  BY OwnerIs, ComposedAssumption DEF Children
<1>3. /\ h \in Graphs /\ h.node = g.node /\ h.arrived = g.arrived /\ h.runs = g.runs
      /\ \A c \in Controls \ {f} : h.errors[c] = g.errors[c]
      /\ h.errors[f] = g.errors[f] \/ (kg /\ f \in ForEachs /\ h.errors[f] # 0)
      /\ \A m \in Nodes \ {n} : h.ids[m] = g.ids[m]
  BY DEF Recounted
<1>4. /\ Flags(g) /\ Unstarted(g) /\ Cases(g) /\ Ids(g) /\ DoneIsClean(g) /\ FakeIsClean(g)
      /\ Causes(g) /\ Counted(kg, g) /\ Outside(r, g)
  BY <1>1 DEF Ordered
<1>5. /\ \A m \in Nodes : Hard(g, m) => Hard(h, m)
      /\ \A m \in Nodes \ {f} : Hard(g, m) <=> Hard(h, m)
  <2>1. g.errors[f] # 0 => h.errors[f] # 0
    BY <1>3
  <2> QED BY <1>3, <2>1 DEF Hard
<1>6. /\ \A m \in Nodes : ~Clean(g, m) => ~Clean(h, m)
      /\ \A m \in Nodes : f \notin Inside(m) => (Clean(g, m) <=> Clean(h, m))
  BY <1>5, InsideIs DEF Clean
(* Around f all are at work, if its count of failures changes.             *)
<1>7. h.errors[f] = g.errors[f] \/ \A a \in Chain(f) : a \in Nodes /\ g.node[a] = "ACTIVATED" /\ ~Waiting(g, a)
  <2>1. \A a \in Ancestors[n] : a \in Nodes /\ (kg => g.node[a] = "ACTIVATED") /\ ~Waiting(g, a)
    BY <1>1, <1>2, <1>4, AroundIs
  <2>2. Chain(f) = Ancestors[n]
    BY <1>2, FatherIs DEF Chain
  <2> QED BY <1>3, <2>1, <2>2
<1>9. \A m \in Nodes : Clean(g, m) => Clean(h, m) \/ g.node[m] = "ACTIVATED"
  <2> SUFFICES ASSUME NEW m \in Nodes, Clean(g, m), ~Clean(h, m) PROVE g.node[m] = "ACTIVATED"
    OBVIOUS
  <2>1. f \in Inside(m) /\ ~(h.errors[f] = g.errors[f])
    <3>1. f \in Inside(m)
      BY <1>6
    <3>2. (h.errors[f] = g.errors[f]) => \A k \in Nodes : Hard(g, k) <=> Hard(h, k)
      BY <1>3 DEF Hard
    <3> QED BY <3>1, <3>2, InsideIs DEF Clean
  <2>2. m \in Chain(f)
    BY <1>2, <2>1, InsideIs
  <2> QED BY <1>7, <2>1, <2>2
<1>10. \A m \in Nodes : Waiting(h, m) <=> Waiting(g, m)
  BY <1>3 DEF Waiting
<1>11. Flags(h) /\ Cases(h) /\ Counted(kg, h) /\ Outside(r, h)
  BY <1>3, <1>4 DEF Flags, Cases, Counted, Outside
<1>12. Unstarted(h)
  <2> SUFFICES ASSUME NEW m \in Nodes, Waiting(g, m) \/ g.node[m] = "READY" PROVE Pristine(h, m)
    BY <1>3, <1>4, <1>10 DEF Unstarted
  <2>1. Pristine(g, m)
    BY <1>4 DEF Unstarted
  <2>2. CASE h.errors[f] = g.errors[f]
    BY <1>3, <2>1, <2>2 DEF Pristine
  <2>3. CASE h.errors[f] # g.errors[f]
    <3>1. f # m /\ f \notin Below[m]
      BY <1>7, <2>1, <2>3 DEF Pristine, Chain
    <3> QED BY <1>3, <2>1, <3>1 DEF Pristine, Inside
  <2> QED BY <2>2, <2>3
<1>13. Ids(h)
  <2> SUFFICES ASSUME NEW c \in ForEachs, NEW m \in Children[c]
               PROVE  /\ h.node[m] \in AtWork => h.ids[m] # NotRunning
                      /\ ~Clean(h, m) => h.errors[c] # 0 \/ h.ids[m] # NotRunning
    BY DEF Ids
  <2>1. m \in Nodes /\ Father[m] = c /\ c \in Controls
    BY OwnerIs DEF Children, ForEachs
  <2>2. /\ g.node[m] \in AtWork => g.ids[m] # NotRunning
        /\ ~Clean(g, m) => g.errors[c] # 0 \/ g.ids[m] # NotRunning
    BY <1>4 DEF Ids
  <2>3. g.errors[c] # 0 => h.errors[c] # 0
    BY <1>3, <2>1
  <2>4. CASE m # n
    BY <1>3, <1>9, <2>1, <2>2, <2>3, <2>4 DEF AtWork
  <2>5. CASE m = n
    <3>1. f \notin Inside(n)
      BY <1>2, FatherIs, AncestorsAre, AncestorsTransitive, InsideIs DEF Inside
    <3>2. Clean(g, n) <=> Clean(h, n)
      BY <1>2, <1>6, <3>1
    <3> QED BY <1>2, <1>3, <2>1, <2>2, <2>3, <2>5, <3>2 DEF Recounted
  <2> QED BY <2>4, <2>5
<1>14. DoneIsClean(h)
  BY <1>3, <1>4, <1>9 DEF DoneIsClean
<1>15. FakeIsClean(h)
  <2> SUFFICES ASSUME NEW c \in Controls, h.runs[c] \in FakeRuns, h.node[c] = "ACTIVATED", ~Clean(h, c)
               PROVE  FALSE
    BY DEF FakeIsClean
  <2>1. c \in Nodes /\ Clean(g, c)
    BY <1>3, <1>4, OwnerIs DEF FakeIsClean
  <2>2. c \in Ancestors[n]
    <3>1. c \in Chain(f)
      BY <1>2, <1>6, <2>1, InsideIs
    <3> QED BY <1>2, <3>1, FatherIs DEF Chain
  <2>3. PICK k \in Chain(n) : k \in Nodes /\ Father[k] = c /\ c # NoNode
    BY <1>2, <2>2, ChildAround DEF Chain
  <2>4. Open(kg, g, k)
    BY <2>3 DEF OpenChain
  <2> QED BY <1>3, <2>1, <2>3, <2>4, HierarchyAssumption, ComposedAssumption DEF Open, FakeRuns
<1>16. Causes(h)
  BY <1>3, <1>4, <1>6, FatherIs DEF Causes
<1>17. Ordered(r, kg, h)
  BY <1>11, <1>12, <1>13, <1>14, <1>15, <1>16 DEF Ordered
<1>18. \A k \in Nodes : Open(kg, g, k) => Open(kg, h, k)
  BY <1>3, <1>6, FatherIs DEF Open
<1>19. Active(h, lo, la, ru) = Active(g, lo, la, ru)
  BY <1>3 DEF Active
<1>20. Acts(kg, h, lo, la, ru)
  <2>1. \A u \in Active(g, lo, la, ru) : Attended(kg, h, u)
    <3> SUFFICES ASSUME NEW u \in Active(g, lo, la, ru) PROVE Attended(kg, h, u)
      OBVIOUS
    <3>1. Owner(u) \in Nodes /\ Attended(kg, g, u)
      BY <1>1, ActiveIs DEF Acts
    <3>2. \A k \in Chain(Owner(u)) : k \in Nodes
      BY <3>1, ChainIs
    <3> QED BY <1>3, <1>18, <3>1, <3>2 DEF Attended
  <2> QED BY <1>1, <1>3, <1>19, <2>1 DEF Acts
<1>21. Lapsed(kg, h, lo, la, ru)
  <2>1. \A u \in lo : Hard(g, u) => Hard(h, u)
    BY <1>3 DEF Hard
  <2>2. \A c \in ForEachs : g.errors[c] # 0 => h.errors[c] # 0
    BY <1>3 DEF ForEachs
  <2> QED BY <1>1, <1>19, <2>1, <2>2 DEF Lapsed
<1>22. OpenChain(kg, h, n)
  BY <1>2, <1>18, ChainIs DEF OpenChain
<1>23. Follows(r, g, h, lo, la, ru)
  BY <1>2, <1>3, <1>5, InsideIs DEF Follows, KeepsDone, Marked
<1> QED BY <1>3, <1>6, <1>17, <1>19, <1>20, <1>21, <1>22, <1>23 DEF Sound

-----------------------------------------------------------------------------
(* An event climbs one level.                                              *)

(* What is true when l.node sends l.event to its father.                   *)
Sent(r, kg, lo, la, ru, l) ==
  /\ Sound(r, kg, l.graph, lo, la, ru)
  /\ l.event # "NOEVENT" =>
       /\ l.node \in Nodes \union Fakes /\ Owner(l.node) \in Inside(r)
       /\ OpenChain(kg, l.graph, Owner(l.node))
       /\ \A a \in l.graph.arrived : a[1] # Owner(l.node)
       /\ \/ l.event = "START"
          \/ l.event = "FINISH" /\ l.graph.node[Owner(l.node)] = "DONE"
          \/ /\ l.event = "ABORT" /\ ~Clean(l.graph, Owner(l.node))
             /\ l.graph.node[Owner(l.node)] \in {"ERROR", "FAILED"}

(* f has a node in progress, or has failed while it had.                   *)
Busy(r, kg, g, f) ==
  /\ f \in Nodes /\ f \in Inside(r) /\ f \notin Tasks
  /\ OpenChain(kg, g, f) /\ ~Waiting(g, f)
  /\ f \in Controls => g.runs[f] \notin FakeRuns
  /\ g.node[f] = "ACTIVATED" \/ (~kg /\ g.node[f] = "FAILED" /\ ~Clean(g, f))

LEMMA SenderIs ==
  ASSUME NEW r \in Schemas, NEW kg, NEW g \in Graphs, Ordered(r, kg, g),
         NEW s, s \in Inside(r), OpenChain(kg, g, s), Father[s] # NoNode
  PROVE  /\ s \in Nodes /\ s \in Below[r] /\ Busy(r, kg, g, Father[s]) /\ Open(kg, g, s)
         /\ Chain(s) = {s} \union Chain(Father[s]) /\ Inside(s) \subseteq Below[Father[s]]
         /\ ~Clean(g, s) => ~Clean(g, Father[s])
<1> DEFINE f == Father[s]
<1>1. r \in Nodes /\ Father[r] = NoNode
  BY ComposedAssumption
<1>2. s \in Nodes /\ s \in Below[r]
  BY <1>1, InsideIs DEF Inside
<1>3. /\ f \in Nodes /\ f \in Ancestors[s] /\ Ancestors[s] = Chain(f)
      /\ s \in Below[f] /\ Kind[f] \in {"bloc", "for", "while", "switch", "foreach"}
  BY <1>2, FatherIs DEF Chain
<1>4. f \in Inside(r) /\ Inside(s) \subseteq Below[f]
  BY <1>1, <1>2, <1>3, InsideIs
<1>5. ~Waiting(g, f)
  BY <1>2, <1>3, AroundIs DEF Ordered
<1>6. Open(kg, g, s)
  BY DEF OpenChain, Chain
<1>7. f \in Controls => g.runs[f] \notin FakeRuns
  BY <1>2, <1>3, <1>6, HierarchyAssumption, ComposedAssumption DEF Open, FakeRuns
<1>8. OpenChain(kg, g, f)
  BY <1>3 DEF OpenChain, Chain
<1>9. g.node[f] = "ACTIVATED" \/ (~kg /\ g.node[f] = "FAILED" /\ ~Clean(g, f))
  BY <1>6 DEF Open
<1>10. ~Clean(g, s) => ~Clean(g, f)
  BY <1>4 DEF Clean, Inside
<1>11. f \notin Tasks
  BY <1>3 DEF Tasks
<1>12. Chain(s) = {s} \union Chain(f)
  BY <1>3 DEF Chain
<1> QED BY <1>2, <1>3, <1>4, <1>5, <1>6, <1>7, <1>8, <1>9, <1>10, <1>11, <1>12 DEF Busy

(* f takes the state b, and says so to its father.                         *)
LEMMA Answers ==
  ASSUME NEW r \in Schemas, NEW kg \in BOOLEAN, NEW g, NEW lo, NEW la, NEW ru,
         Dealt(lo, la, ru), Sound(r, kg, g, lo, la, ru),
         NEW f, NEW b, NEW event, Busy(r, kg, g, f),
         \/ event = "START" /\ b = "ACTIVATED"
         \/ event = "FINISH" /\ b = "DONE" /\ Clean(g, f) /\ Quiet(g, lo, la, ru, {f})
         \/ event = "ABORT" /\ b = "FAILED" /\ ~Clean(g, f) /\ (kg => Quiet(g, lo, la, ru, {f}))
  PROVE  LET h == SetState(g, f, b)
         IN  /\ Sent(r, kg, lo, la, ru, Answer(h, f, event))
             /\ Follows(r, g, h, lo, la, ru)
             /\ event = "START" => \A n \in Nodes : OpenChain(kg, g, n) => OpenChain(kg, h, n)
<1> DEFINE h == SetState(g, f, b)
<1>1. g \in Graphs /\ Ordered(r, kg, g) /\ f \in Nodes /\ f \in Inside(r) /\ b \in NodeStates
  BY DEF Sound, Busy, NodeStates, Ended
<1>2. Settable(r, kg, g, f, b)
  BY DEF Busy, Settable, AtWork
<1>3. Sound(r, kg, h, lo, la, ru) /\ Follows(r, g, h, lo, la, ru)
  BY <1>2, FatherKeeps DEF Busy
<1>4. \A n \in Nodes : ~Clean(g, n) => ~Clean(h, n)
  BY <1>1, <1>2, SetKeepsOrder
<1>5. /\ h.node[f] = b /\ \A n \in (Nodes \union Fakes) \ {f} : h.node[n] = g.node[n]
      /\ h.arrived = g.arrived /\ h.runs = g.runs
  BY <1>1, SetIs
<1> HIDE DEF h
<1>6. \A k \in Nodes : Open(kg, g, k) /\ (Father[k] = f => b = "ACTIVATED") => Open(kg, h, k)
  BY <1>4, <1>5, FatherIs DEF Open
<1>7. OpenChain(kg, h, f)
  <2> SUFFICES ASSUME NEW k \in Chain(f) PROVE Open(kg, h, k)
    BY DEF OpenChain
  <2>1. k \in Nodes /\ Open(kg, g, k) /\ Chain(k) \subseteq Chain(f)
    BY <1>1, ChainIs DEF Busy, OpenChain
  <2>2. Father[k] # f
    <3> SUFFICES ASSUME Father[k] = f PROVE FALSE
      OBVIOUS
    <3>1. f \in Ancestors[k] /\ k \in Nodes /\ k # f
      BY <1>1, <2>1, FatherIs, AncestorsAre, ComposedAssumption
    <3>2. k \in Ancestors[f]
      BY <3>1 DEF Chain
    <3> QED BY <1>1, <3>1, <3>2, AncestorsAre, AncestorsTransitive
  <2> QED BY <1>6, <2>1, <2>2
<1>8. \A a \in h.arrived : a[1] # f
  BY <1>1, <1>5 DEF Busy, Ordered, Flags
<1>9. b = "FAILED" => ~Clean(h, f)
  BY <1>1, <1>4
<1>10. event = "START" => \A n \in Nodes : OpenChain(kg, g, n) => OpenChain(kg, h, n)
  BY <1>6, ChainIs DEF OpenChain
<1>11. Sent(r, kg, lo, la, ru, Answer(h, f, event))
  BY <1>1, <1>3, <1>5, <1>7, <1>8, <1>9, OwnerIs DEF Sent, Answer
<1> QED BY <1>3, <1>10, <1>11 DEF h

(* What a father makes of an event: l and then m.                          *)
Climbs(r, kg, lo, la, ru, l, m) ==
  Sent(r, kg, lo, la, ru, m) /\ Follows(r, l.graph, m.graph, lo, la, ru)

LEMMA Silent ==
  ASSUME NEW r, NEW kg, NEW lo, NEW la, NEW ru, NEW l, NEW h, NEW f,
         Sound(r, kg, h, lo, la, ru), Follows(r, l.graph, h, lo, la, ru)
  PROVE  Climbs(r, kg, lo, la, ru, l, Answer(h, f, "NOEVENT"))
BY DEF Climbs, Sent, Answer

(* A structure with no failure of its own and no child that has one.       *)
LEMMA CleanAround ==
  ASSUME NEW r, NEW kg, NEW g \in Graphs, NEW f, Busy(r, kg, g, f),
         f \in ForEachs => g.errors[f] = 0, Counted(kg, g), \A k \in Children[f] : Clean(g, k)
  PROVE  Clean(g, f)
<1>1. f \in Nodes /\ ~Hard(g, f)
  BY DEF Busy, Hard, Counted
<1>2. ASSUME NEW m \in Below[f]
      PROVE  ~Hard(g, m)
  <2>1. m \in Nodes /\ f \in Ancestors[m]
    BY <1>1, <1>2, InsideIs
  <2>2. PICK k \in Chain(m) : k \in Nodes /\ Father[k] = f
    BY <2>1, ChildAround DEF Chain
  <2>3. k \in Children[f] /\ m \in Inside(k)
    BY <1>1, <2>1, <2>2, ChainIs DEF Children
  <2> QED BY <2>3 DEF Clean
<1> QED BY <1>1, <1>2 DEF Clean, Inside

LEMMA StartClimbs ==
  ASSUME NEW r \in Schemas, NEW kg \in BOOLEAN, NEW lo, NEW la, NEW ru, Dealt(lo, la, ru),
         NEW l, Sent(r, kg, lo, la, ru, l), l.event = "START", Father[Owner(l.node)] # NoNode
  PROVE  LET f == Father[Owner(l.node)]
         IN  Climbs(r, kg, lo, la, ru, l, Answer(SetState(l.graph, f, "ACTIVATED"), f, "START"))
<1> DEFINE f == Father[Owner(l.node)]
           h == SetState(l.graph, f, "ACTIVATED")
<1>1. /\ Sound(r, kg, l.graph, lo, la, ru)
      /\ Busy(r, kg, l.graph, f)
  BY SenderIs DEF Sent, Sound
<1>2. Sent(r, kg, lo, la, ru, Answer(h, f, "START")) /\ Follows(r, l.graph, h, lo, la, ru)
  BY <1>1, Answers
<1> HIDE DEF h
<1>3. Answer(h, f, "START").graph = h
  BY DEF Answer
<1>4. Climbs(r, kg, lo, la, ru, l, Answer(h, f, "START"))
  BY <1>2, <1>3 DEF Climbs
<1> QED BY <1>4 DEF h

(* A node that has ended, or failed when the others go on, is quiet.       *)
LEMMA SenderIsQuiet ==
  ASSUME NEW r \in Schemas, NEW kg \in BOOLEAN, NEW lo, NEW la, NEW ru, Dealt(lo, la, ru),
         NEW l, Sent(r, kg, lo, la, ru, l),
         l.event = "FINISH" \/ (l.event = "ABORT" /\ kg)
  PROVE  Quiet(l.graph, lo, la, ru, {Owner(l.node)})
<1>1. Owner(l.node) \in Nodes
  BY InsideIs, ComposedAssumption DEF Sent
<1> QED BY <1>1, QuietIs DEF Sent, AtWork

(* f answers the event l with the graph h and the state b.                 *)
LEMMA AnswerClimbs ==
  ASSUME NEW r \in Schemas, NEW kg \in BOOLEAN, NEW lo, NEW la, NEW ru, Dealt(lo, la, ru),
         NEW l, NEW g, Sound(r, kg, g, lo, la, ru), Follows(r, l.graph, g, lo, la, ru),
         NEW f, NEW b, NEW event, Busy(r, kg, g, f),
         \/ event = "FINISH" /\ b = "DONE" /\ Clean(g, f) /\ Quiet(g, lo, la, ru, {f})
         \/ event = "ABORT" /\ b = "FAILED" /\ ~Clean(g, f) /\ (kg => Quiet(g, lo, la, ru, {f}))
  PROVE  Climbs(r, kg, lo, la, ru, l, Answer(SetState(g, f, b), f, event))
<1> DEFINE h == SetState(g, f, b)
<1>1. Sent(r, kg, lo, la, ru, Answer(h, f, event)) /\ Follows(r, g, h, lo, la, ru)
  BY Answers
<1> HIDE DEF h
<1>2. Follows(r, l.graph, h, lo, la, ru)
  BY <1>1, FollowsTransitive
<1>3. Answer(h, f, event).graph = h
  BY DEF Answer
<1>4. Climbs(r, kg, lo, la, ru, l, Answer(h, f, event))
  BY <1>1, <1>2, <1>3 DEF Climbs
<1> QED BY <1>4 DEF h

(* The turns are counted: nothing else changes.                            *)
LEMMA TurnKeeps ==
  ASSUME NEW r \in Schemas, NEW kg \in BOOLEAN, NEW lo, NEW la, NEW ru, Dealt(lo, la, ru),
         NEW g, Sound(r, kg, g, lo, la, ru),
         NEW f \in Controls, NEW s \in Children[f], OpenChain(kg, g, s)
  PROVE  LET h == [g EXCEPT !.turns[f] = @ + 1]
         IN  /\ h \in Graphs /\ h.node = g.node /\ h.arrived = g.arrived /\ h.runs = g.runs
             /\ h.errors = g.errors /\ h.ids = g.ids /\ h.count = g.count
             /\ Sound(r, kg, h, lo, la, ru) /\ Follows(r, g, h, lo, la, ru)
             /\ Active(h, lo, la, ru) = Active(g, lo, la, ru)
<1> DEFINE h == [g EXCEPT !.turns[f] = @ + 1]
<1>1. g \in Graphs
  BY DEF Sound
<1>2. /\ h \in Graphs /\ h.node = g.node /\ h.arrived = g.arrived /\ h.runs = g.runs
      /\ h.errors = g.errors /\ h.ids = g.ids /\ h.count = g.count
  BY <1>1 DEF Graphs
<1> HIDE DEF h
<1>3. Recounted(kg, g, h, f, s)
  BY <1>2 DEF Recounted
<1>4. /\ Sound(r, kg, h, lo, la, ru) /\ Follows(r, g, h, lo, la, ru)
      /\ Active(h, lo, la, ru) = Active(g, lo, la, ru)
  BY <1>3, RecountKeeps
<1> QED BY <1>2, <1>4 DEF h

(* A loop has one child, its body.                                         *)
LEMMA BodyIs ==
  ASSUME NEW f \in Controls, Kind[f] \in {"for", "while"}, NEW s \in Nodes, Father[s] = f
  PROVE  Children[f] = {s} /\ Body(f) = s
<1>1. s \in Children[f] /\ f \in Nodes
  BY OwnerIs DEF Children
<1>2. Children[f] = {s}
  BY <1>1, HierarchyAssumption
<1>3. \A n \in Nodes : Father[n] = f => n = s
  BY <1>1, <1>2 DEF Children
<1> QED BY <1>2, <1>3 DEF Body

LEMMA SameIs ==
  ASSUME NEW g, NEW h, h.node = g.node, h.arrived = g.arrived, h.runs = g.runs, h.errors = g.errors
  PROVE  /\ \A r, kg, f : Busy(r, kg, h, f) <=> Busy(r, kg, g, f)
         /\ \A kg, n : OpenChain(kg, h, n) <=> OpenChain(kg, g, n)
         /\ \A n : Clean(h, n) <=> Clean(g, n)
         /\ \A lo, la, ru, ns : Quiet(h, lo, la, ru, ns) <=> Quiet(g, lo, la, ru, ns)
<1>1. \A n : Clean(h, n) <=> Clean(g, n)
  BY DEF Clean, Hard
<1>2. \A kg, n : Open(kg, h, n) <=> Open(kg, g, n)
  BY <1>1 DEF Open
<1>3. \A kg, n : OpenChain(kg, h, n) <=> OpenChain(kg, g, n)
  BY <1>2 DEF OpenChain
<1>4. \A n : Waiting(h, n) <=> Waiting(g, n)
  BY DEF Waiting
<1>5. \A lo, la, ru : Active(h, lo, la, ru) = Active(g, lo, la, ru)
  BY DEF Active
<1>6. \A r, kg, f : Busy(r, kg, h, f) <=> Busy(r, kg, g, f)
  BY <1>1, <1>3, <1>4 DEF Busy
<1>7. \A lo, la, ru, ns : Quiet(h, lo, la, ru, ns) <=> Quiet(g, lo, la, ru, ns)
  BY <1>5 DEF Quiet
<1> QED BY <1>1, <1>3, <1>6, <1>7

(* A turn of a ForLoop or of a WhileLoop has ended.                        *)
LEMMA ForClimbs ==
  ASSUME Tame, NEW r \in Schemas, NEW kg \in BOOLEAN, Suits(r, kg),
         NEW lo, NEW la, NEW ru, Dealt(lo, la, ru),
         NEW d, d.start \in Values(Controls \intersect Below[r]),
         NEW l, Sent(r, kg, lo, la, ru, l), l.event = "FINISH",
         NEW f, f = Father[Owner(l.node)], f # NoNode, Kind[f] = "for"
  PROVE  Climbs(r, kg, lo, la, ru, l, ForFinished(l.graph, f, d))
<1> DEFINE g == l.graph
           s == Owner(l.node)
           counted == [g EXCEPT !.turns[f] = @ + 1]
           on == SetState(counted, f, "ACTIVATED")
<1>1. /\ Sound(r, kg, g, lo, la, ru) /\ g \in Graphs /\ Ordered(r, kg, g)
      /\ kg \in BOOLEAN /\ OpenChain(kg, g, s) /\ s \in Inside(r) /\ g.node[s] = "DONE"
  BY HierarchyAssumption DEF Sent, Sound
<1>2. /\ s \in Nodes /\ f \in Nodes /\ Busy(r, kg, g, f) /\ Chain(s) = {s} \union Chain(f)
      /\ Quiet(g, lo, la, ru, {s}) /\ Clean(g, s)
  BY <1>1, SenderIs, SenderIsQuiet DEF Busy, Ordered, DoneIsClean
<1>3. f \in Controls /\ Children[f] = {s} /\ Body(f) = s /\ f \notin ForEachs
  BY <1>2, BodyIs, ComposedAssumption DEF ForEachs
<1>4. Clean(g, f) /\ Quiet(g, lo, la, ru, {f})
  <2>1. \A k \in Children[f] : Quiet(g, lo, la, ru, {k}) /\ Clean(g, k)
    BY <1>2, <1>3
  <2>2. Clean(g, f)
    BY <1>1, <1>2, <1>3, <2>1, CleanAround DEF Ordered
  <2> QED BY <1>1, <1>2, <2>1, <2>2, QuietAround DEF Busy
<1>5. /\ counted \in Graphs /\ counted.node = g.node /\ counted.arrived = g.arrived
      /\ counted.runs = g.runs /\ counted.errors = g.errors /\ counted.ids = g.ids
      /\ counted.count = g.count
      /\ Sound(r, kg, counted, lo, la, ru) /\ Follows(r, g, counted, lo, la, ru)
  BY <1>1, <1>3, TurnKeeps
<1>6. Sound(r, kg, on, lo, la, ru) /\ Follows(r, g, on, lo, la, ru) /\ Repeatable(r, kg, on, s)
      /\ Quiet(on, lo, la, ru, {s})
  <2> HIDE DEF counted
  <2>1. /\ Busy(r, kg, counted, f) /\ OpenChain(kg, counted, s) /\ Clean(counted, s)
        /\ Quiet(counted, lo, la, ru, {s})
    BY <1>1, <1>2, <1>5, SameIs
  <2>2. /\ Sent(r, kg, lo, la, ru, Answer(on, f, "START")) /\ Follows(r, counted, on, lo, la, ru)
        /\ OpenChain(kg, on, s)
    BY <1>1, <1>2, <1>5, <2>1, Answers
  <2>3. on.node[s] = "DONE" /\ on.ids = g.ids
    <3>1. f # s
      BY <1>2, <1>3, FatherIs, AncestorsAre, ComposedAssumption
    <3> QED BY <1>1, <1>2, <1>5, <3>1, SetIs DEF NodeStates
  <2> HIDE DEF on
  <2>4. Sound(r, kg, on, lo, la, ru) /\ Follows(r, g, on, lo, la, ru)
    BY <1>5, <2>2, FollowsTransitive DEF Sent, Answer
  <2>5. Clean(on, s)
    BY <1>2, <2>3, <2>4 DEF Sound, Ordered, DoneIsClean
  <2>6. Repeatable(r, kg, on, s)
    BY <1>1, <1>2, <1>3, <2>2, <2>5 DEF Repeatable
  <2>7. Quiet(on, lo, la, ru, {s})
    BY <1>2, <2>3, <2>4, QuietIs DEF AtWork
  <2> QED BY <2>4, <2>6, <2>7
<1>7. CASE counted.turns[f] >= g.count[f]
  <2> HIDE DEF counted
  <2>1. Busy(r, kg, counted, f) /\ Clean(counted, f) /\ Quiet(counted, lo, la, ru, {f})
    BY <1>2, <1>4, <1>5, SameIs
  <2>2. Climbs(r, kg, lo, la, ru, l, Answer(SetState(counted, f, "DONE"), f, "FINISH"))
    BY <1>1, <1>5, <2>1, AnswerClimbs
  <2> QED BY <1>7, <2>2 DEF ForFinished, counted
<1>8. CASE ~(counted.turns[f] >= g.count[f])
  <2> DEFINE h == RunAgain(on, s, d.start)
  <2> HIDE DEF counted, on
  <2>1. Sound(r, kg, h, lo, la, ru) /\ Follows(r, on, h, lo, la, ru)
    BY <1>6, RunAgainKeeps
  <2>2. Climbs(r, kg, lo, la, ru, l, Answer(h, f, "NOEVENT"))
    <3> HIDE DEF h
    <3> QED BY <1>6, <2>1, FollowsTransitive, Silent
  <2> QED BY <1>3, <1>8, <2>2 DEF ForFinished, counted, on
<1> QED BY <1>7, <1>8

(* A fake node that is run again is to load, and nothing runs it.          *)
LEMMA FakeAgainIs ==
  ASSUME NEW r \in Schemas, NEW d, NEW g \in Graphs, NEW u \in Fakes
  PROVE  LET h == RunAgain(g, u, d)
         IN  /\ h \in Graphs /\ h.arrived = g.arrived /\ h.runs = g.runs
             /\ h.errors = g.errors /\ h.ids = g.ids
             /\ \A n \in (Nodes \union Fakes) \ {u} : h.node[n] = g.node[n]
<1> DEFINE i == InitNode(g, u)
           R == Reached(i, {u}, d)
           h == ExUpdateState(i, {u}, d)
<1>1. u \notin Nodes /\ Controls \subseteq Nodes /\ Below[u] = {}
  <2>1. u \notin Nodes /\ Controls \subseteq Nodes
    BY OwnerIs
  <2>2. \A m \in Nodes : u \notin Ancestors[m]
    BY <2>1, AncestorsAre
  <2> QED BY <2>1, <2>2 DEF Below
<1>2. /\ i.node = [m \in Nodes \union Fakes |-> IF m = u THEN "READY" ELSE g.node[m]]
      /\ i.arrived = g.arrived /\ i.runs = g.runs /\ i.errors = g.errors /\ i.ids = g.ids
      /\ i \in Graphs
  <2> DEFINE inside == {u} \union Below[u]
             node == [m \in Nodes \union Fakes |-> IF m \in inside THEN "READY" ELSE g.node[m]]
             arrived == {k \in g.arrived : k[2] \notin inside}
             runs == [c \in Controls |->
                      IF c \in inside /\ Kind[c] \in {"for", "while"} THEN "nothing" ELSE g.runs[c]]
             turns == [c \in Controls |-> IF c \in inside THEN 0 ELSE g.turns[c]]
             count == [c \in Controls |-> IF c \in inside THEN NoValue ELSE g.count[c]]
             errors == [c \in Controls |-> IF c \in inside THEN 0 ELSE g.errors[c]]
  <2>1. i = [g EXCEPT !.node = node, !.arrived = arrived, !.runs = runs, !.turns = turns,
                      !.count = count, !.errors = errors]
    BY DEF InitNode
  <2>2. inside = {u} /\ \A k \in g.arrived : k[2] # u
    BY <1>1, HierarchyAssumption DEF Graphs
  <2> HIDE DEF inside
  <2>3. /\ arrived = g.arrived /\ runs = g.runs /\ turns = g.turns /\ count = g.count
        /\ errors = g.errors
    BY <1>1, <2>2 DEF Graphs
  <2>4. node = [m \in Nodes \union Fakes |-> IF m = u THEN "READY" ELSE g.node[m]]
    BY <2>2
  <2>5. node \in [Nodes \union Fakes -> NodeStates]
    BY <2>4 DEF Graphs, NodeStates
  <2> HIDE DEF i, node, arrived, runs, turns, count, errors
  <2> QED BY <2>1, <2>3, <2>4, <2>5 DEF Graphs
<1>3. R = {u}
  <2>1. i.node[u] = "READY"
    BY <1>2
  <2>2. ~StaysDone(i, u)
    BY <2>1 DEF StaysDone
  <2> QED BY <1>1, <2>2 DEF Reached
<1> HIDE DEF i
<1>4. /\ h \in Graphs /\ h.arrived = g.arrived /\ h.runs = g.runs
      /\ h.errors = g.errors /\ h.ids = g.ids
      /\ \A n \in (Nodes \union Fakes) \ {u} : h.node[n] = g.node[n]
  <2> DEFINE fakes == {FakeOf[c] : c \in {k \in R \intersect Controls : MakesFake(k, d[k])}}
             forEachs == {c \in R \intersect Controls : Kind[c] = "foreach"}
             node == [n \in Nodes \union Fakes |->
                      IF n \in fakes THEN "TOACTIVATE"
                      ELSE IF n \notin R THEN i.node[n]
                      ELSE IF n \notin Tasks \union Fakes THEN "ACTIVATED"
                      ELSE IF i.node[n] = "READY" THEN "TOLOAD" ELSE i.node[n]]
             runs == [c \in Controls |-> IF c \in R THEN RunOf(i, c, d[c]) ELSE i.runs[c]]
             count == [c \in Controls |-> IF c \in R THEN d[c] ELSE i.count[c]]
             current == [c \in Controls |->
                         IF c \in forEachs THEN Cardinality(FirstBranches(c, d[c])) ELSE i.current[c]]
             ids == [n \in Nodes |->
                     IF Father[n] \notin forEachs THEN i.ids[n]
                     ELSE IF n \in R THEN Rank(Father[n], n) - 1 ELSE NotRunning]
  <2>1. h = [i EXCEPT !.node = node, !.runs = runs, !.count = count, !.current = current, !.ids = ids]
    BY DEF ExUpdateState
  <2>2. fakes = {} /\ forEachs = {} /\ R \intersect Controls = {}
    BY <1>1, <1>3
  <2> HIDE DEF fakes, forEachs, R
  <2>3. runs = i.runs /\ count = i.count /\ current = i.current /\ ids = i.ids
    BY <1>2, <2>2 DEF Graphs
  <2>4. \A n \in (Nodes \union Fakes) \ {u} : node[n] = g.node[n]
    BY <1>2, <1>3, <2>2
  <2>5. node \in [Nodes \union Fakes -> NodeStates]
    BY <1>2, <2>2 DEF Graphs, NodeStates
  <2> HIDE DEF h, node, runs, count, current, ids
  <2> QED BY <1>2, <2>1, <2>3, <2>4, <2>5 DEF Graphs
<1>5. RunAgain(g, u, d) = h
  BY DEF RunAgain, i
<1> HIDE DEF h
<1> QED BY <1>4, <1>5

LEMMA FakeAgainKeeps ==
  ASSUME NEW r \in Schemas, NEW kg \in BOOLEAN, NEW lo, NEW la, NEW ru, Dealt(lo, la, ru),
         NEW g, Sound(r, kg, g, lo, la, ru), NEW u \in Fakes, Quiet(g, lo, la, ru, {Owner(u)}), NEW d
  PROVE  LET h == RunAgain(g, u, d)
         IN  Sound(r, kg, h, lo, la, ru) /\ Follows(r, g, h, lo, la, ru)
<1> DEFINE h == RunAgain(g, u, d)
<1>1. /\ g \in Graphs /\ Ordered(r, kg, g) /\ Acts(kg, g, lo, la, ru) /\ Lapsed(kg, g, lo, la, ru)
      /\ r \in Nodes
  BY ComposedAssumption DEF Sound
<1>2. /\ h \in Graphs /\ h.arrived = g.arrived /\ h.runs = g.runs
      /\ h.errors = g.errors /\ h.ids = g.ids
      /\ \A n \in (Nodes \union Fakes) \ {u} : h.node[n] = g.node[n]
  BY <1>1, FakeAgainIs
<1> HIDE DEF h
<1>3. /\ u \notin Nodes /\ u \notin Tasks /\ u \notin Unloadable
      /\ \A c \in Controls : c \in Nodes
      /\ \A n \in Nodes : h.node[n] = g.node[n]
  BY <1>2, OwnerIs, HierarchyAssumption
<1>4. u \notin la \union ru
  <2> SUFFICES ASSUME u \in la \union ru PROVE FALSE
    OBVIOUS
  <2>1. u \in Active(g, lo, la, ru)
    BY <1>1, <1>3 DEF Lapsed, Active
  <2>2. Owner(u) \in Inside(Owner(u))
    BY DEF Inside
  <2> QED BY <2>1, <2>2 DEF Quiet
<1>5. \A n \in Nodes : (Hard(h, n) <=> Hard(g, n)) /\ (Waiting(h, n) <=> Waiting(g, n))
  BY <1>2, <1>3 DEF Hard, Waiting
<1>6. \A n \in Nodes : Clean(h, n) <=> Clean(g, n)
  BY <1>5, InsideIs DEF Clean
<1>7. \A n \in Nodes : Pristine(h, n) <=> Pristine(g, n)
  BY <1>2, <1>3, InsideIs DEF Pristine
<1>8. Ordered(r, kg, h)
  <2>1. \A a \in g.arrived : a[1] \in Nodes
    BY <1>1, HierarchyAssumption DEF Graphs
  <2>2. Flags(h)
    BY <1>1, <1>2, <1>3, <2>1 DEF Ordered, Flags
  <2>3. Unstarted(h)
    BY <1>1, <1>3, <1>5, <1>7 DEF Ordered, Unstarted
  <2>4. Cases(h)
    <3>1. \A c \in Controls : Children[c] \subseteq Nodes
      BY <1>3 DEF Children
    <3> QED BY <1>1, <1>2, <1>3, <3>1 DEF Ordered, Cases
  <2>5. Ids(h)
    <3>1. \A c \in ForEachs : Children[c] \subseteq Nodes
      BY <1>3 DEF Children, ForEachs
    <3> QED BY <1>1, <1>2, <1>3, <1>6, <3>1 DEF Ordered, Ids
  <2>6. DoneIsClean(h)
    BY <1>1, <1>3, <1>6 DEF Ordered, DoneIsClean
  <2>7. FakeIsClean(h)
    BY <1>1, <1>2, <1>3, <1>6 DEF Ordered, FakeIsClean
  <2>8. Causes(h)
    BY <1>1, <1>3, <1>6, FatherIs DEF Ordered, Causes
  <2>9. Counted(kg, h)
    BY <1>1, <1>2 DEF Ordered, Counted
  <2>10. Outside(r, h)
    BY <1>1, <1>3 DEF Ordered, Outside
  <2> QED BY <2>2, <2>3, <2>4, <2>5, <2>6, <2>7, <2>8, <2>9, <2>10 DEF Ordered
<1>9. \A k \in Nodes : Open(kg, g, k) => Open(kg, h, k)
  BY <1>2, <1>3, <1>6, FatherIs DEF Open
<1>10. \A v \in la \union ru : h.node[v] = g.node[v]
  BY <1>2, <1>4, OwnerIs DEF Dealt
<1>11. Active(h, lo, la, ru) = Active(g, lo, la, ru)
  BY <1>10 DEF Active, Dealt
<1>12. Acts(kg, h, lo, la, ru)
  <2>1. \A v \in Active(g, lo, la, ru) : Attended(kg, h, v)
    <3> SUFFICES ASSUME NEW v \in Active(g, lo, la, ru) PROVE Attended(kg, h, v)
      OBVIOUS
    <3>1. Owner(v) \in Nodes /\ Attended(kg, g, v)
      BY <1>1, ActiveIs DEF Acts
    <3>2. \A k \in Chain(Owner(v)) : k \in Nodes
      BY <3>1, ChainIs
    <3> QED BY <1>2, <1>3, <1>9, <3>1, <3>2 DEF Attended
  <2> QED BY <1>1, <1>10, <1>11, <2>1 DEF Acts
<1>13. Lapsed(kg, h, lo, la, ru)
  <2>1. \A v \in lo : Hard(g, v) => Hard(h, v)
    BY <1>2, <1>10 DEF Hard, Dealt
  <2> QED BY <1>1, <1>2, <1>11, <2>1 DEF Lapsed
<1>14. \A v \in Active(g, lo, la, ru) : h.node[v] = g.node[v]
  BY <1>10, ActiveIs
<1>15. Marked(r, g) => Marked(r, h)
  BY <1>1, <1>5, InsideIs DEF Marked
<1>16. Sound(r, kg, h, lo, la, ru) /\ Follows(r, g, h, lo, la, ru)
  BY <1>2, <1>3, <1>8, <1>12, <1>13, <1>14, <1>15 DEF Sound, Follows, KeepsDone
<1> QED BY <1>16 DEF h

LEMMA WhileClimbs ==
  ASSUME Tame, NEW r \in Schemas, NEW kg \in BOOLEAN, Suits(r, kg),
         NEW lo, NEW la, NEW ru, Dealt(lo, la, ru),
         NEW d, d.start \in Values(Controls \intersect Below[r]),
         NEW l, Sent(r, kg, lo, la, ru, l), l.event = "FINISH",
         NEW f, f = Father[Owner(l.node)], f # NoNode, Kind[f] = "while"
  PROVE  Climbs(r, kg, lo, la, ru, l, WhileFinished(l.graph, f, l.node, d))
<1> DEFINE g == l.graph
           s == Owner(l.node)
           counted == [g EXCEPT !.turns[f] = @ + 1]
           h == RunAgain(counted, l.node, d.start)
<1>1. /\ Sound(r, kg, g, lo, la, ru) /\ g \in Graphs /\ Ordered(r, kg, g)
      /\ kg \in BOOLEAN /\ OpenChain(kg, g, s) /\ s \in Inside(r) /\ g.node[s] = "DONE"
      /\ l.node \in Nodes \union Fakes
  BY HierarchyAssumption DEF Sent, Sound
<1>2. /\ s \in Nodes /\ f \in Nodes /\ Busy(r, kg, g, f) /\ Quiet(g, lo, la, ru, {s}) /\ Clean(g, s)
  BY <1>1, SenderIs, SenderIsQuiet DEF Busy, Ordered, DoneIsClean
<1>3. f \in Controls /\ Children[f] = {s} /\ f \notin ForEachs
  BY <1>2, BodyIs, ComposedAssumption DEF ForEachs
<1>4. Clean(g, f) /\ Quiet(g, lo, la, ru, {f})
  <2>1. \A k \in Children[f] : Quiet(g, lo, la, ru, {k}) /\ Clean(g, k)
    BY <1>2, <1>3
  <2>2. Clean(g, f)
    BY <1>1, <1>2, <1>3, <2>1, CleanAround DEF Ordered
  <2> QED BY <1>1, <1>2, <2>1, <2>2, QuietAround DEF Busy
<1>5. /\ counted \in Graphs /\ counted.node = g.node /\ counted.arrived = g.arrived
      /\ counted.runs = g.runs /\ counted.errors = g.errors /\ counted.ids = g.ids
      /\ Sound(r, kg, counted, lo, la, ru) /\ Follows(r, g, counted, lo, la, ru)
  BY <1>1, <1>3, TurnKeeps
<1>6. CASE f \notin d.again
  <2> HIDE DEF counted
  <2>1. Busy(r, kg, counted, f) /\ Clean(counted, f) /\ Quiet(counted, lo, la, ru, {f})
    BY <1>2, <1>4, <1>5, SameIs
  <2>2. Climbs(r, kg, lo, la, ru, l, Answer(SetState(counted, f, "DONE"), f, "FINISH"))
    BY <1>1, <1>5, <2>1, AnswerClimbs
  <2> QED BY <1>6, <2>2 DEF WhileFinished, counted
<1>7. CASE f \in d.again
  <2>1. Sound(r, kg, h, lo, la, ru) /\ Follows(r, counted, h, lo, la, ru)
    <3> HIDE DEF counted
    <3>1. OpenChain(kg, counted, s) /\ Clean(counted, s) /\ Quiet(counted, lo, la, ru, {s})
      BY <1>1, <1>2, <1>5, SameIs
    <3>2. CASE l.node \in Nodes
      <4>1. l.node = s
        BY <3>2, OwnerIs
      <4>2. Repeatable(r, kg, counted, s)
        BY <1>1, <1>2, <1>3, <3>1 DEF Repeatable
      <4> QED BY <1>5, <3>1, <4>1, <4>2, RunAgainKeeps
    <3>3. CASE l.node \in Fakes
      BY <1>1, <1>5, <3>1, <3>3, FakeAgainKeeps
    <3> QED BY <1>1, <3>2, <3>3
  <2> HIDE DEF counted, h
  <2>2. Climbs(r, kg, lo, la, ru, l, Answer(h, f, "NOEVENT"))
    BY <1>5, <2>1, FollowsTransitive, Silent
  <2> QED BY <1>7, <2>2 DEF WhileFinished, counted, h
<1> QED BY <1>6, <1>7

(* The cases of a switch that are not run are not started.                 *)
LEMMA OtherCases ==
  ASSUME NEW r \in Schemas, NEW kg \in BOOLEAN, NEW g, NEW lo, NEW la, NEW ru, Dealt(lo, la, ru),
         Sound(r, kg, g, lo, la, ru),
         NEW f \in Controls, Kind[f] = "switch", NEW k \in Children[f], g.runs[f] # k
  PROVE  Quiet(g, lo, la, ru, {k}) /\ Clean(g, k)
<1>1. k \in Nodes /\ g.node[k] = "READY" /\ Pristine(g, k) /\ g \in Graphs
  BY OwnerIs DEF Children, Sound, Ordered, Cases, Unstarted
<1> QED BY <1>1, QuietIs, PristineIsClean DEF AtWork

LEMMA SwitchClimbs ==
  ASSUME NEW r \in Schemas, NEW kg \in BOOLEAN, NEW lo, NEW la, NEW ru, Dealt(lo, la, ru),
         NEW l, Sent(r, kg, lo, la, ru, l), l.event = "FINISH",
         NEW f, f = Father[Owner(l.node)], f # NoNode, Kind[f] = "switch"
  PROVE  Climbs(r, kg, lo, la, ru, l, Answer(SetState(l.graph, f, "DONE"), f, "FINISH"))
<1> DEFINE g == l.graph
           s == Owner(l.node)
<1>1. /\ Sound(r, kg, g, lo, la, ru) /\ g \in Graphs /\ Ordered(r, kg, g)
      /\ OpenChain(kg, g, s) /\ s \in Inside(r) /\ g.node[s] = "DONE"
  BY DEF Sent, Sound
<1>2. /\ s \in Nodes /\ f \in Nodes /\ Busy(r, kg, g, f) /\ Quiet(g, lo, la, ru, {s}) /\ Clean(g, s)
      /\ g.runs[f] = s
  BY <1>1, SenderIs, SenderIsQuiet DEF Busy, Ordered, DoneIsClean, Open
<1>3. f \in Controls /\ f \notin ForEachs
  BY <1>2, ComposedAssumption DEF ForEachs
<1>4. \A k \in Children[f] : Quiet(g, lo, la, ru, {k}) /\ Clean(g, k)
  BY <1>1, <1>2, <1>3, OtherCases
<1>5. Clean(g, f)
  BY <1>1, <1>2, <1>3, <1>4, CleanAround DEF Ordered
<1>6. Quiet(g, lo, la, ru, {f})
  BY <1>1, <1>2, <1>4, QuietAround DEF Busy
<1>7. Follows(r, g, g, lo, la, ru)
  BY DEF Follows, KeepsDone
<1> QED BY <1>1, <1>2, <1>5, <1>6, <1>7, AnswerClimbs

(* Any structure but a bloc, and a ForEachLoop that keeps going, fails     *)
(* with the node it runs.                                                  *)
LEMMA AbortClimbs ==
  ASSUME NEW r \in Schemas, NEW kg \in BOOLEAN, NEW lo, NEW la, NEW ru, Dealt(lo, la, ru),
         NEW l, Sent(r, kg, lo, la, ru, l), l.event = "ABORT",
         NEW f, f = Father[Owner(l.node)], f # NoNode,
         Kind[f] \in {"for", "while", "switch"} \/ ~kg
  PROVE  Climbs(r, kg, lo, la, ru, l, Answer(SetState(l.graph, f, "FAILED"), f, "ABORT"))
<1> DEFINE g == l.graph
           s == Owner(l.node)
<1>1. /\ Sound(r, kg, g, lo, la, ru) /\ g \in Graphs /\ Ordered(r, kg, g)
      /\ OpenChain(kg, g, s) /\ s \in Inside(r) /\ ~Clean(g, s)
  BY DEF Sent, Sound
<1>2. /\ s \in Nodes /\ f \in Nodes /\ Busy(r, kg, g, f) /\ ~Clean(g, f) /\ Open(kg, g, s)
      /\ kg => Quiet(g, lo, la, ru, {s})
  BY <1>1, SenderIs, SenderIsQuiet DEF Busy
<1>3. kg => Quiet(g, lo, la, ru, {f})
  <2> SUFFICES ASSUME kg PROVE Quiet(g, lo, la, ru, {f})
    OBVIOUS
  <2>1. f \in Controls
    BY <1>2, ComposedAssumption
  <2>2. \A k \in Children[f] : Quiet(g, lo, la, ru, {k})
    <3>1. CASE Kind[f] \in {"for", "while"}
      BY <1>2, <2>1, <3>1, BodyIs
    <3>2. CASE Kind[f] = "switch"
      BY <1>1, <1>2, <2>1, <3>2, OtherCases DEF Open
    <3> QED BY <3>1, <3>2
  <2> QED BY <1>1, <1>2, <2>2, QuietAround DEF Busy
<1>4. Follows(r, g, g, lo, la, ru)
  BY DEF Follows, KeepsDone
<1> QED BY <1>1, <1>2, <1>3, <1>4, AnswerClimbs

(* A branch of a ForEachLoop has ended its sample, or failed it and the    *)
(* loop has counted that: g from the graph of l.                           *)
LEMMA WorkNodeOverClimbs ==
  ASSUME Tame, NEW r \in Schemas, NEW kg \in BOOLEAN, Suits(r, kg),
         NEW lo, NEW la, NEW ru, Dealt(lo, la, ru),
         NEW d, d.start \in Values(Controls \intersect Below[r]),
         NEW l, NEW g, Sound(r, kg, g, lo, la, ru), Follows(r, l.graph, g, lo, la, ru),
         NEW s \in Nodes, s \in Inside(r), OpenChain(kg, g, s), Quiet(g, lo, la, ru, {s}),
         g.node[s] \notin AtWork,
         NEW f, f = Father[s], f # NoNode, Kind[f] = "foreach",
         Clean(g, s) \/ g.errors[f] # 0
  PROVE  Climbs(r, kg, lo, la, ru, l, WorkNodeOver(g, f, s, d))
<1>1. /\ g \in Graphs /\ Ordered(r, kg, g) /\ kg \in BOOLEAN
      /\ Busy(r, kg, g, f) /\ f \in Nodes
  BY HierarchyAssumption, SenderIs DEF Sound, Busy
<1>2. f \in Controls /\ f \in ForEachs /\ s \in Children[f]
  BY <1>1, ComposedAssumption DEF ForEachs, Children
<1>3. CASE g.current[f] = g.count[f]
  <2> DEFINE h == [g EXCEPT !.ids[s] = NotRunning]
  <2>1. /\ h \in Graphs /\ h.node = g.node /\ h.arrived = g.arrived /\ h.runs = g.runs
        /\ h.errors = g.errors /\ h.ids = [g.ids EXCEPT ![s] = NotRunning]
    BY <1>1 DEF Graphs, NotRunning
  <2>2. WorkNodeOver(g, f, s, d) =
          IF ~NoBranchRunning(h, f) THEN Answer(h, f, "NOEVENT")
          ELSE IF h.errors[f] # 0 THEN Answer(SetState(h, f, "FAILED"), f, "ABORT")
          ELSE Answer(SetState(h, f, "DONE"), f, "FINISH")
    BY <1>3 DEF WorkNodeOver
  <2> HIDE DEF h
  <2>3. Recounted(kg, g, h, f, s)
    <3>1. Clean(h, s) \/ h.errors[f] # 0
      BY <2>1, SameIs
    <3> QED BY <1>2, <2>1, <3>1 DEF Recounted
  <2>4. /\ Sound(r, kg, h, lo, la, ru) /\ Follows(r, l.graph, h, lo, la, ru)
    BY <1>1, <1>2, <2>3, RecountKeeps, FollowsTransitive
  <2>5. Busy(r, kg, h, f)
    BY <1>1, <2>1, SameIs
  <2>6. ASSUME NoBranchRunning(h, f), NEW k \in Children[f]
        PROVE  /\ k \in Nodes /\ h.node[k] \notin AtWork
               /\ Clean(h, k) \/ h.errors[f] # 0
    BY <1>2, <2>4, <2>6, OwnerIs DEF Sound, Ordered, Ids, NoBranchRunning, Children
  <2>7. CASE ~NoBranchRunning(h, f)
    BY <2>2, <2>4, <2>7, Silent
  <2>8. CASE NoBranchRunning(h, f) /\ h.errors[f] # 0
    <3>1. kg
      BY <1>2, <2>4, <2>8 DEF Sound, Ordered, Counted
    <3>2. \A k \in Children[f] : Quiet(h, lo, la, ru, {k})
      BY <2>4, <2>6, <2>8, <3>1, QuietIs
    <3>3. Quiet(h, lo, la, ru, {f})
      BY <2>4, <2>5, <3>2, QuietAround DEF Busy
    <3>4. ~Clean(h, f)
      BY <1>2, <2>8 DEF Clean, Hard, Inside
    <3>5. Climbs(r, kg, lo, la, ru, l, Answer(SetState(h, f, "FAILED"), f, "ABORT"))
      BY <1>1, <2>4, <2>5, <3>3, <3>4, AnswerClimbs
    <3> QED BY <2>2, <2>8, <3>5
  <2>9. CASE NoBranchRunning(h, f) /\ h.errors[f] = 0
    <3>1. \A k \in Children[f] : Clean(h, k) /\ k \in Nodes /\ h.node[k] \notin AtWork
      BY <2>6, <2>9
    <3>2. Clean(h, f)
      BY <2>1, <2>4, <2>5, <2>9, <3>1, CleanAround DEF Sound, Ordered
    <3>3. \A k \in Children[f] : Quiet(h, lo, la, ru, {k})
      BY <2>4, <3>1, QuietIs
    <3>4. Quiet(h, lo, la, ru, {f})
      BY <2>4, <2>5, <3>3, QuietAround DEF Busy
    <3>5. Climbs(r, kg, lo, la, ru, l, Answer(SetState(h, f, "DONE"), f, "FINISH"))
      BY <1>1, <2>4, <2>5, <3>2, <3>4, AnswerClimbs
    <3> QED BY <2>2, <2>9, <3>5
  <2> QED BY <2>7, <2>8, <2>9
<1>4. CASE g.current[f] # g.count[f] /\ g.node[f] = "ACTIVATED"
  <2> DEFINE next == [g EXCEPT !.ids[s] = g.current[f], !.current[f] = @ + 1]
             h == RunAgain(next, s, d.start)
  <2>1. /\ next \in Graphs /\ next.node = g.node /\ next.arrived = g.arrived /\ next.runs = g.runs
        /\ next.errors = g.errors /\ next.ids = [g.ids EXCEPT ![s] = g.current[f]]
        /\ g.current[f] # NotRunning
    <3> DEFINE ids == [g.ids EXCEPT ![s] = g.current[f]]
               current == [g.current EXCEPT ![f] = @ + 1]
    <3>1. g.current[f] \in Nat
      BY <1>1, <1>2 DEF Graphs
    <3>2. ids \in [Nodes -> Int] /\ current \in [Controls -> Nat]
      BY <1>1, <1>2, <3>1 DEF Graphs
    <3>3. next = [g EXCEPT !.ids = ids, !.current = current]
      OBVIOUS
    <3> HIDE DEF next, ids, current
    <3>4. /\ next \in Graphs /\ next.node = g.node /\ next.arrived = g.arrived /\ next.runs = g.runs
          /\ next.errors = g.errors /\ next.ids = ids
      BY <1>1, <3>2, <3>3 DEF Graphs
    <3> QED BY <3>1, <3>4 DEF ids, NotRunning
  <2>2. WorkNodeOver(g, f, s, d) = Answer(h, f, "NOEVENT")
    BY <1>4 DEF WorkNodeOver
  <2> HIDE DEF next
  <2>3. next.ids[s] # NotRunning /\ \A m \in Nodes \ {s} : next.ids[m] = g.ids[m]
    BY <1>1, <2>1 DEF Graphs
  <2>4. Recounted(kg, g, next, f, s)
    BY <1>2, <2>1, <2>3 DEF Recounted
  <2>5. /\ Sound(r, kg, next, lo, la, ru) /\ Follows(r, l.graph, next, lo, la, ru)
    BY <1>1, <1>2, <2>4, RecountKeeps, FollowsTransitive
  <2>6. /\ OpenChain(kg, next, s) /\ Quiet(next, lo, la, ru, {s})
        /\ Clean(next, s) \/ next.errors[f] # 0
    BY <2>1, SameIs
  <2>7. Repeatable(r, kg, next, s)
    BY <1>2, <2>3, <2>6 DEF Repeatable
  <2>8. Sound(r, kg, h, lo, la, ru) /\ Follows(r, next, h, lo, la, ru)
    BY <2>5, <2>6, <2>7, RunAgainKeeps
  <2> HIDE DEF h
  <2> QED BY <2>2, <2>5, <2>8, FollowsTransitive, Silent
<1>5. CASE g.current[f] # g.count[f] /\ g.node[f] # "ACTIVATED"
  <2>1. WorkNodeOver(g, f, s, d) = Answer(g, f, "NOEVENT")
    BY <1>5 DEF WorkNodeOver
  <2> QED BY <2>1, Silent
<1> QED BY <1>3, <1>4, <1>5

-----------------------------------------------------------------------------
(* Inside a bloc.                                                          *)

(* A node whose gate is closed is not at work, and nothing is below.       *)
LEMMA ClosedIs ==
  ASSUME NEW r \in Schemas, NEW kg \in BOOLEAN, NEW g, NEW lo, NEW la, NEW ru, Dealt(lo, la, ru),
         Sound(r, kg, g, lo, la, ru), NEW m \in Nodes, Waiting(g, m)
  PROVE  /\ g.node[m] \in {"READY", "FAILED"} /\ Pristine(g, m) /\ Clean(g, m)
         /\ Quiet(g, lo, la, ru, {m})
<1>1. g \in Graphs /\ g.node[m] \in {"READY", "FAILED"} /\ Pristine(g, m)
  BY DEF Sound, Ordered, Unstarted
<1>2. Clean(g, m)
  BY <1>1, PristineIsClean
<1> QED BY <1>1, <1>2, QuietIs DEF AtWork

(* A node that is not started has no busy structure inside.                *)
LEMMA BusyIsStarted ==
  ASSUME NEW r, NEW kg, NEW g, NEW f, Busy(r, kg, g, f), Unstarted(g), NEW n \in Nodes,
         Waiting(g, n) \/ g.node[n] = "READY"
  PROVE  f \notin Inside(n)
BY DEF Busy, Unstarted, Pristine, Inside

(* What is behind s waits for it, and is beside it.                        *)
LEMMA BehindWaits ==
  ASSUME NEW r, NEW kg, NEW g \in Graphs, Ordered(r, kg, g),
         NEW s \in Nodes, \A a \in g.arrived : a[1] # s
  PROVE  \A m \in Behind[s] : m \in Nodes /\ Father[m] = Father[s] /\ Waiting(g, m)
<1> DEFINE closed == {m \in Nodes : Father[m] = Father[s] /\ Waiting(g, m)}
<1>1. ASSUME NEW k \in Nodes, \A a \in g.arrived : a[1] # k, Father[k] = Father[s]
      PROVE  Successors[k] \subseteq closed
  <2> SUFFICES ASSUME NEW m \in Successors[k] PROVE m \in closed
    OBVIOUS
  <2>1. m \in Nodes /\ k \in Predecessors[m] /\ Father[m] = Father[s]
    BY <1>1, LinkIs, BehindIs
  <2>2. <<k, m>> \notin g.arrived
    BY <1>1
  <2> QED BY <2>1, <2>2 DEF Waiting
<1>2. \A k \in closed : \A a \in g.arrived : a[1] # k
  BY DEF Ordered, Flags, Unstarted
<1>3. Successors[s] \subseteq closed /\ \A k \in closed \intersect Nodes : Successors[k] \subseteq closed
  BY <1>1, <1>2
<1> HIDE DEF closed
<1>4. Behind[s] \subseteq closed
  BY <1>3, BehindLeast
<1> QED BY <1>4 DEF closed

(* The failure of s: what is behind has failed.                            *)
LEMMA FailedIs ==
  ASSUME NEW g \in Graphs, NEW s \in Nodes
  PROVE  LET h == ExForwardFailed(g, s)
         IN  /\ h \in Graphs /\ h.arrived = g.arrived /\ h.runs = g.runs
             /\ h.errors = g.errors /\ h.ids = g.ids
             /\ \A n \in (Nodes \union Fakes) \ Behind[s] : h.node[n] = g.node[n]
             /\ \A n \in Behind[s] : h.node[n] = "FAILED"
<1> DEFINE h == ExForwardFailed(g, s)
           node == [m \in Nodes \union Fakes |-> IF m \in Behind[s] THEN "FAILED" ELSE g.node[m]]
<1>1. h = [g EXCEPT !.node = node]
  BY DEF ExForwardFailed
<1>2. node \in [Nodes \union Fakes -> NodeStates] /\ Behind[s] \subseteq Nodes
  BY BehindIs DEF Graphs, NodeStates, Ended
<1> HIDE DEF node, h
<1>3. /\ h \in Graphs /\ h.arrived = g.arrived /\ h.runs = g.runs
      /\ h.errors = g.errors /\ h.ids = g.ids /\ h.node = node
  BY <1>1, <1>2 DEF Graphs
<1> QED BY <1>2, <1>3 DEF node, h

LEMMA FailedKeeps ==
  ASSUME NEW r \in Schemas, NEW kg \in BOOLEAN, NEW lo, NEW la, NEW ru, Dealt(lo, la, ru),
         NEW g, Sound(r, kg, g, lo, la, ru),
         NEW s \in Nodes, \A a \in g.arrived : a[1] # s, ~Clean(g, s), s \in Inside(r),
         OpenChain(kg, g, s), Father[s] # NoNode
  PROVE  LET h == ExForwardFailed(g, s)
         IN  /\ Sound(r, kg, h, lo, la, ru) /\ Follows(r, g, h, lo, la, ru)
             /\ OpenChain(kg, h, s) /\ h.node[s] = g.node[s]
             /\ ~Clean(h, s)
<1> DEFINE h == ExForwardFailed(g, s)
           f == Father[s]
<1>1. /\ g \in Graphs /\ Ordered(r, kg, g) /\ Acts(kg, g, lo, la, ru) /\ Lapsed(kg, g, lo, la, ru)
      /\ r \in Nodes
  BY ComposedAssumption DEF Sound
<1>2. Busy(r, kg, g, f) /\ ~Clean(g, f) /\ f \in Nodes /\ s \in Below[r]
  BY <1>1, SenderIs DEF Busy
<1>3. /\ h \in Graphs /\ h.arrived = g.arrived /\ h.runs = g.runs
      /\ h.errors = g.errors /\ h.ids = g.ids
      /\ \A n \in (Nodes \union Fakes) \ Behind[s] : h.node[n] = g.node[n]
      /\ \A n \in Behind[s] : h.node[n] = "FAILED"
  BY <1>1, FailedIs
<1> HIDE DEF h
<1>4. \A m \in Behind[s] : /\ m \in Nodes /\ Father[m] = f /\ Waiting(g, m)
                           /\ g.node[m] \in {"READY", "FAILED"} /\ Pristine(g, m)
                           /\ Quiet(g, lo, la, ru, {m})
  <2>1. \A m \in Behind[s] : m \in Nodes /\ Father[m] = f /\ Waiting(g, m)
    BY <1>1, BehindWaits
  <2> QED BY <2>1, ClosedIs
<1>5. \A m \in Behind[s] : Kind[f] = "bloc"
  <2> SUFFICES ASSUME NEW m \in Behind[s] PROVE Kind[f] = "bloc"
    OBVIOUS
  <2>1. m \in Nodes /\ Father[m] = f /\ \E p \in Predecessors[m] : TRUE
    BY <1>4 DEF Waiting
  <2> QED BY <2>1, LinkIs DEF Predecessors
<1>6. s \notin Behind[s] /\ f \notin Behind[s]
  BY <1>2, <1>4, BehindIs, FatherIs, AncestorsAre
<1>7. \A n \in Nodes : (Hard(h, n) <=> Hard(g, n)) /\ (Waiting(h, n) <=> Waiting(g, n))
  BY <1>3, <1>4 DEF Hard, Waiting
<1>8. \A n \in Nodes : Clean(h, n) <=> Clean(g, n)
  BY <1>7, InsideIs DEF Clean
<1>9. Flags(h)
  <2>1. \A a \in g.arrived : a[1] \in Nodes
    BY <1>1, HierarchyAssumption DEF Graphs
  <2>2. \A a \in g.arrived : g.node[a[1]] = "DONE" /\ a[1] \notin Behind[s]
    BY <1>1, <1>4 DEF Ordered, Flags
  <2> QED BY <1>3, <2>1, <2>2 DEF Flags
<1>10. Unstarted(h)
  <2> SUFFICES ASSUME NEW n \in Nodes
               PROVE  /\ Waiting(h, n) => h.node[n] \in {"READY", "FAILED"} /\ Pristine(h, n)
                      /\ h.node[n] = "READY" => Pristine(h, n)
    BY DEF Unstarted
  <2>1. Waiting(h, n) => Waiting(g, n) /\ h.node[n] \in {"READY", "FAILED"}
    BY <1>1, <1>3, <1>7 DEF Ordered, Unstarted
  <2>2. h.node[n] = "READY" => g.node[n] = "READY"
    BY <1>3, <1>4
  <2>3. ASSUME Waiting(g, n) \/ g.node[n] = "READY" PROVE Pristine(h, n)
    <3>1. f \notin Inside(n) /\ Pristine(g, n)
      BY <1>1, <1>2, <2>3, BusyIsStarted DEF Ordered, Unstarted
    <3>2. \A m \in Behind[s] : m \notin Below[n]
      BY <1>4, <3>1, InsideIs
    <3> QED BY <1>3, <3>1, <3>2, InsideIs DEF Pristine
  <2> QED BY <2>1, <2>2, <2>3
<1>11. Cases(h)
  <2>1. \A c \in Controls : Kind[c] = "switch" => \A n \in Children[c] : n \in Nodes /\ n \notin Behind[s]
    BY <1>4, <1>5, OwnerIs DEF Children
  <2> QED BY <1>1, <1>3, <2>1 DEF Ordered, Cases
<1>12. Ids(h)
  <2>1. \A c \in ForEachs : \A n \in Children[c] : n \in Nodes /\ n \notin Behind[s]
    BY <1>4, <1>5, OwnerIs DEF Children, ForEachs
  <2> QED BY <1>1, <1>3, <1>8, <2>1 DEF Ordered, Ids
<1>13. DoneIsClean(h)
  BY <1>1, <1>3, <1>8 DEF Ordered, DoneIsClean
<1>14. FakeIsClean(h)
  BY <1>1, <1>3, <1>8, OwnerIs DEF Ordered, FakeIsClean
<1>15. Causes(h)
  <2> SUFFICES ASSUME NEW n \in Nodes, Father[n] # NoNode, h.node[n] \in {"FAILED", "ERROR"}
               PROVE  ~Clean(h, Father[n])
    BY DEF Causes
  <2>1. CASE n \in Behind[s]
    BY <1>2, <1>4, <1>8, <2>1
  <2>2. CASE n \notin Behind[s]
    BY <1>1, <1>3, <1>8, <2>2, FatherIs DEF Ordered, Causes
  <2> QED BY <2>1, <2>2
<1>16. Counted(kg, h)
  BY <1>1, <1>3 DEF Ordered, Counted
<1>17. Outside(r, h)
  <2>1. \A m \in Behind[s] : m \in Inside(r)
    <3> SUFFICES ASSUME NEW m \in Behind[s] PROVE m \in Inside(r)
      OBVIOUS
    <3>1. m \in Nodes /\ Father[m] = f /\ f # NoNode /\ f \in Inside(r)
      BY <1>2, <1>4 DEF Busy
    <3>2. m \in Below[f]
      BY <3>1, FatherIs
    <3> QED BY <1>1, <1>2, <3>1, <3>2, InsideIs DEF Inside
  <2> QED BY <1>1, <1>3, <2>1 DEF Ordered, Outside
<1>18. Ordered(r, kg, h)
  BY <1>9, <1>10, <1>11, <1>12, <1>13, <1>14, <1>15, <1>16, <1>17 DEF Ordered
<1>19. \A u \in la \union ru : u \in Tasks \union Fakes /\ Owner(u) \in Nodes
  BY OwnerIs DEF Dealt
<1>20. ASSUME NEW u \in Active(g, lo, la, ru)
       PROVE  /\ Owner(u) \in Nodes /\ \A m \in Behind[s] : Owner(u) \notin Inside(m)
              /\ h.node[u] = g.node[u]
  <2>1. u \in la \union ru /\ Owner(u) \in Nodes
    BY <1>19, ActiveIs
  <2>2. \A m \in Behind[s] : Owner(u) \notin Inside(m)
    BY <1>4 DEF Quiet
  <2>3. u \notin Behind[s]
    <3> SUFFICES ASSUME u \in Behind[s] PROVE FALSE
      OBVIOUS
    <3>1. Owner(u) = u
      BY <1>4, OwnerIs
    <3> QED BY <2>2, <3>1 DEF Inside
  <2> QED BY <1>3, <1>19, <2>1, <2>2, <2>3, OwnerIs
<1>21. Active(h, lo, la, ru) = Active(g, lo, la, ru)
  <2>1. \A u \in la \union ru : u \in Behind[s] => /\ h.node[u] = "FAILED"
                                                   /\ g.node[u] \in {"READY", "FAILED"}
    BY <1>3, <1>4
  <2>2. \A u \in la \union ru : u \notin Behind[s] => h.node[u] = g.node[u]
    BY <1>3, <1>19, OwnerIs
  <2> QED BY <2>1, <2>2 DEF Active, Dealt
<1>22. \A k \in Nodes : Open(kg, g, k) /\ Father[k] \notin Behind[s] => Open(kg, h, k)
  BY <1>3, <1>8, FatherIs DEF Open
<1>23. \A u \in Active(g, lo, la, ru) : Attended(kg, h, u)
  <2> SUFFICES ASSUME NEW u \in Active(g, lo, la, ru) PROVE Attended(kg, h, u)
    OBVIOUS
  <2>1. Owner(u) \in Nodes /\ Attended(kg, g, u) /\ \A m \in Behind[s] : Owner(u) \notin Inside(m)
    BY <1>1, <1>20 DEF Acts
  <2>2. ASSUME NEW k \in Chain(Owner(u)) PROVE Open(kg, h, k)
    <3>1. k \in Nodes /\ Owner(u) \in Inside(k) /\ Open(kg, g, k)
      BY <2>1, ChainIs DEF Attended
    <3>2. Father[k] \notin Behind[s]
      <4> SUFFICES ASSUME Father[k] \in Behind[s] PROVE FALSE
        OBVIOUS
      <4>1. Father[k] \in Nodes /\ Father[k] # NoNode
        BY <1>4, ComposedAssumption
      <4>2. Owner(u) \in Inside(Father[k])
        BY <3>1, <4>1, FatherIs, InsideIs DEF Inside
      <4> QED BY <2>1, <4>2
    <3> QED BY <1>22, <3>1, <3>2
  <2>3. Owner(u) \notin Behind[s]
    BY <2>1 DEF Inside
  <2> QED BY <1>3, <2>1, <2>2, <2>3 DEF Attended
<1>24. Acts(kg, h, lo, la, ru)
  BY <1>1, <1>20, <1>21, <1>23 DEF Acts, Active
<1>25. Lapsed(kg, h, lo, la, ru)
  <2>1. \A u \in lo : Hard(g, u) => Hard(h, u)
    <3> SUFFICES ASSUME NEW u \in lo, Hard(g, u) PROVE Hard(h, u)
      OBVIOUS
    <3>1. u \in Nodes \union Fakes
      BY <1>19, OwnerIs DEF Dealt
    <3>2. u \in Behind[s] => u \in Nodes
      BY <1>4
    <3> QED BY <1>3, <1>7, <3>1, <3>2 DEF Hard
  <2> QED BY <1>1, <1>3, <1>21, <2>1 DEF Lapsed
<1>26. OpenChain(kg, h, s)
  <2> SUFFICES ASSUME NEW k \in Chain(s) PROVE Open(kg, h, k)
    BY DEF OpenChain
  <2>1. k \in Nodes /\ Open(kg, g, k) /\ s \in Inside(k)
    BY ChainIs DEF OpenChain
  <2>2. Father[k] \notin Behind[s]
    <3> SUFFICES ASSUME Father[k] \in Behind[s] PROVE FALSE
      OBVIOUS
    <3>1. Father[k] \in Nodes /\ Father[k] # NoNode /\ Waiting(g, Father[k])
      BY <1>4, ComposedAssumption
    <3>2. Father[k] \in Ancestors[s]
      BY <2>1, <3>1, FatherIs, AncestorsTransitive DEF Chain
    <3> QED BY <1>1, <3>1, <3>2, AroundIs DEF Ordered
  <2> QED BY <1>22, <2>1, <2>2
<1>27. Follows(r, g, h, lo, la, ru)
  <2>1. KeepsDone(g, h)
    BY <1>3, <1>4 DEF KeepsDone
  <2> QED BY <1>1, <1>7, <1>20, <2>1, InsideIs DEF Follows, Marked
<1> QED BY <1>3, <1>6, <1>8, <1>18, <1>24, <1>25, <1>26, <1>27 DEF Sound, h

(* The children of the bloc f have all ended.                              *)
LEMMA BlocEndsClimbs ==
  ASSUME NEW r \in Schemas, NEW kg \in BOOLEAN, NEW lo, NEW la, NEW ru, Dealt(lo, la, ru),
         NEW l, NEW g, Sound(r, kg, g, lo, la, ru), Follows(r, l.graph, g, lo, la, ru),
         NEW f, Busy(r, kg, g, f), Kind[f] = "bloc", AllEnded(g, Children[f])
  PROVE  Climbs(r, kg, lo, la, ru, l, BlocEnds(g, f))
<1>1. g \in Graphs /\ Ordered(r, kg, g) /\ f \in Nodes /\ f \notin Controls /\ f \notin ForEachs
  BY ComposedAssumption DEF Sound, Busy, ForEachs
<1>2. \A k \in Children[f] : k \in Nodes /\ Father[k] = f /\ g.node[k] \in Ended /\ f # NoNode
  BY <1>1, ComposedAssumption DEF Children, AllEnded
<1>3. CASE AllDone(g, Children[f])
  <2>1. \A k \in Children[f] : k \in Nodes /\ g.node[k] = "DONE" /\ Clean(g, k)
    BY <1>1, <1>2, <1>3 DEF AllDone, Ordered, DoneIsClean
  <2>2. \A k \in Children[f] : Quiet(g, lo, la, ru, {k})
    BY <2>1, QuietIs DEF AtWork
  <2>3. Clean(g, f)
    BY <1>1, <2>1, CleanAround DEF Ordered
  <2>4. Quiet(g, lo, la, ru, {f})
    BY <1>1, <2>2, QuietAround DEF Busy
  <2>5. Climbs(r, kg, lo, la, ru, l, Answer(SetState(g, f, "DONE"), f, "FINISH"))
    BY <2>3, <2>4, AnswerClimbs
  <2> QED BY <1>3, <2>5 DEF BlocEnds
<1>4. CASE ~AllDone(g, Children[f])
  <2>1. PICK k \in Children[f] : g.node[k] # "DONE"
    BY <1>4 DEF AllDone
  <2>2. ~Clean(g, f)
    BY <1>1, <1>2, <2>1 DEF Ordered, Causes, Ended
  <2>3. kg => \A m \in Children[f] : Quiet(g, lo, la, ru, {m})
    BY <1>2, QuietIs DEF AtWork, Ended
  <2>4. kg => Quiet(g, lo, la, ru, {f})
    BY <1>1, <2>3, QuietAround DEF Busy
  <2>5. Climbs(r, kg, lo, la, ru, l, Answer(SetState(g, f, "FAILED"), f, "ABORT"))
    BY <2>2, <2>4, AnswerClimbs
  <2> QED BY <1>4, <2>5 DEF BlocEnds
<1> QED BY <1>3, <1>4

(* The end of s raises its flags, and what is then ready may be started.   *)
LEMMA FlagsKeep ==
  ASSUME NEW r \in Schemas, NEW kg \in BOOLEAN, NEW lo, NEW la, NEW ru, Dealt(lo, la, ru),
         NEW g, Sound(r, kg, g, lo, la, ru),
         NEW s, s \in Inside(r), OpenChain(kg, g, s), Father[s] # NoNode, g.node[s] = "DONE",
         \A a \in g.arrived : a[1] # s
  PROVE  LET flags == g.arrived \union {<<s, m>> : m \in Successors[s]}
             ready == {m \in Successors[s] : \A p \in Predecessors[m] : <<p, m>> \in flags}
             h == [g EXCEPT !.arrived = flags]
         IN  /\ Sound(r, kg, h, lo, la, ru) /\ Follows(r, g, h, lo, la, ru)
             /\ Startable(r, kg, h, ready) /\ Quiet(h, lo, la, ru, ready)
<1> DEFINE flags == g.arrived \union {<<s, m>> : m \in Successors[s]}
           ready == {m \in Successors[s] : \A p \in Predecessors[m] : <<p, m>> \in flags}
           h == [g EXCEPT !.arrived = flags]
           f == Father[s]
<1>1. /\ g \in Graphs /\ Ordered(r, kg, g) /\ Acts(kg, g, lo, la, ru) /\ Lapsed(kg, g, lo, la, ru)
      /\ r \in Nodes
  BY ComposedAssumption DEF Sound
<1>2. /\ Busy(r, kg, g, f) /\ s \in Nodes /\ Open(kg, g, s) /\ Chain(s) = {s} \union Chain(f)
      /\ s \in Below[r] /\ f \in Nodes /\ f \in Inside(r)
  BY <1>1, SenderIs DEF Busy
<1>3. \A m \in Successors[s] : /\ m \in Nodes /\ <<s, m>> \in Links /\ Father[m] = f
                               /\ Kind[f] = "bloc" /\ Waiting(g, m)
  <2> SUFFICES ASSUME NEW m \in Successors[s]
               PROVE  /\ m \in Nodes /\ <<s, m>> \in Links /\ Father[m] = f
                      /\ Kind[f] = "bloc" /\ Waiting(g, m)
    OBVIOUS
  <2>1. /\ m \in Nodes /\ <<s, m>> \in Links /\ Father[m] = f /\ Kind[f] = "bloc"
        /\ s \in Predecessors[m]
    BY <1>2, BehindIs, LinkIs
  <2>2. <<s, m>> \notin g.arrived
    OBVIOUS
  <2> QED BY <2>1, <2>2 DEF Waiting
<1>4. /\ h \in Graphs /\ h.node = g.node /\ h.arrived = flags /\ h.runs = g.runs
      /\ h.errors = g.errors /\ h.ids = g.ids
  <2>1. flags \subseteq Links
    BY <1>1, <1>3 DEF Graphs
  <2> HIDE DEF flags
  <2> QED BY <1>1, <2>1 DEF Graphs
<1>5. \A a \in flags : a \in g.arrived \/ (a[1] = s /\ a[2] \in Successors[s])
  OBVIOUS
<1>6. g.arrived \subseteq flags
  OBVIOUS
<1>7. \A m \in ready : m \in Successors[s] /\ \A p \in Predecessors[m] : <<p, m>> \in flags
  OBVIOUS
<1> HIDE DEF h, flags, ready
<1>8. \A n : Clean(h, n) <=> Clean(g, n)
  BY <1>4 DEF Clean, Hard
<1>9. \A k : Open(kg, h, k) <=> Open(kg, g, k)
  BY <1>4, <1>8 DEF Open
<1>10. Active(h, lo, la, ru) = Active(g, lo, la, ru)
  BY <1>4 DEF Active
<1>11. \A n \in Nodes : Waiting(h, n) => Waiting(g, n)
  BY <1>4, <1>6 DEF Waiting
<1>12. \A n \in Nodes : Waiting(g, n) \/ g.node[n] = "READY" => Pristine(h, n)
  <2> SUFFICES ASSUME NEW n \in Nodes, Waiting(g, n) \/ g.node[n] = "READY" PROVE Pristine(h, n)
    OBVIOUS
  <2>1. f \notin Inside(n) /\ Pristine(g, n)
    BY <1>1, <1>2, BusyIsStarted DEF Ordered, Unstarted
  <2>2. \A m \in Successors[s] : m \notin Below[n]
    BY <1>3, <2>1, InsideIs
  <2> QED BY <1>4, <1>5, <2>1, <2>2 DEF Pristine
<1>13. Ordered(r, kg, h)
  <2>1. Flags(h)
    BY <1>1, <1>4, <1>5 DEF Ordered, Flags
  <2>2. Unstarted(h)
    BY <1>1, <1>4, <1>11, <1>12 DEF Ordered, Unstarted
  <2>3. Cases(h) /\ Ids(h) /\ DoneIsClean(h) /\ FakeIsClean(h) /\ Causes(h)
    BY <1>1, <1>4, <1>8 DEF Ordered, Cases, Ids, DoneIsClean, FakeIsClean, Causes
  <2>4. Counted(kg, h) /\ Outside(r, h)
    BY <1>1, <1>4 DEF Ordered, Counted, Outside
  <2> QED BY <2>1, <2>2, <2>3, <2>4 DEF Ordered
<1>14. Acts(kg, h, lo, la, ru) /\ Lapsed(kg, h, lo, la, ru) /\ Follows(r, g, h, lo, la, ru)
  BY <1>1, <1>4, <1>9, <1>10 DEF Acts, Attended, Lapsed, Follows, KeepsDone, Marked, Hard
<1>15. Startable(r, kg, h, ready)
  <2>1. \A m \in ready : /\ m \in Nodes /\ Father[m] = f /\ Kind[f] = "bloc" /\ Waiting(g, m)
                         /\ g.node[m] \in {"READY", "FAILED"}
    BY <1>1, <1>3, <1>7 DEF Ordered, Unstarted
  <2>2. ready = {} \/ f \notin Controls \union ForEachs
    BY <1>2, <2>1, ComposedAssumption DEF ForEachs
  <2>3. ASSUME NEW m \in ready
        PROVE  /\ m \in Inside(r) /\ Pristine(h, m) /\ ~Waiting(h, m)
               /\ h.node[m] \in {"READY", "FAILED"} /\ OpenChain(kg, h, m)
    <3>1. Chain(m) = {m} \union Chain(f) /\ m \in Below[f]
      BY <1>2, <2>1, <2>3, FatherIs, ComposedAssumption DEF Chain
    <3>2. m \in Inside(r)
      BY <1>1, <1>2, <3>1, InsideIs DEF Inside
    <3>3. \A k \in Chain(f) : Open(kg, h, k)
      BY <1>2, <1>9 DEF Busy, OpenChain
    <3>4. Open(kg, h, m)
      BY <1>2, <1>9, <2>1, <2>3 DEF Open
    <3>5. ~Waiting(h, m)
      BY <1>4, <1>7, <2>3 DEF Waiting
    <3> QED BY <1>4, <1>12, <2>1, <2>3, <3>1, <3>2, <3>3, <3>4, <3>5 DEF OpenChain
  <2> QED BY <2>1, <2>2, <2>3 DEF Startable
<1>16. Quiet(h, lo, la, ru, ready)
  <2>1. \A m \in ready : Quiet(g, lo, la, ru, {m})
    BY <1>3, <1>7, ClosedIs
  <2> QED BY <1>10, <2>1 DEF Quiet
<1> QED BY <1>4, <1>13, <1>14, <1>15, <1>16 DEF Sound, h, ready, flags

LEMMA BlocFinishedClimbs ==
  ASSUME Tame, NEW r \in Schemas, NEW kg \in BOOLEAN, Suits(r, kg),
         NEW lo, NEW la, NEW ru, Dealt(lo, la, ru),
         NEW d, d.start \in Values(Controls \intersect Below[r]),
         NEW l, Sent(r, kg, lo, la, ru, l), l.event = "FINISH",
         NEW f, f = Father[Owner(l.node)], f # NoNode, Kind[f] = "bloc"
  PROVE  Climbs(r, kg, lo, la, ru, l, BlocFinished(l.graph, f, l.node, d))
<1> DEFINE g == l.graph
           s == Owner(l.node)
           flags == g.arrived \union {<<s, m>> : m \in Successors[s]}
           ready == {m \in Successors[s] : \A p \in Predecessors[m] : <<p, m>> \in flags}
           raised == [g EXCEPT !.arrived = flags]
           h == ExUpdateState(raised, ready, d.start)
<1>1. /\ Sound(r, kg, g, lo, la, ru) /\ g \in Graphs /\ Ordered(r, kg, g) /\ kg \in BOOLEAN
      /\ OpenChain(kg, g, s) /\ s \in Inside(r) /\ g.node[s] = "DONE"
      /\ \A a \in g.arrived : a[1] # s
  BY HierarchyAssumption DEF Sent, Sound
<1>2. Busy(r, kg, g, f)
  BY <1>1, SenderIs
<1>3. CASE AllEnded(g, Children[f])
  <2>1. Follows(r, g, g, lo, la, ru)
    BY DEF Follows, KeepsDone
  <2> QED BY <1>1, <1>2, <1>3, <2>1, BlocEndsClimbs DEF BlocFinished
<1>4. CASE ~AllEnded(g, Children[f])
  <2>1. /\ Sound(r, kg, raised, lo, la, ru) /\ Follows(r, g, raised, lo, la, ru)
        /\ Startable(r, kg, raised, ready) /\ Quiet(raised, lo, la, ru, ready)
    BY <1>1, FlagsKeep
  <2>2. Sound(r, kg, h, lo, la, ru) /\ Follows(r, raised, h, lo, la, ru)
    <3> HIDE DEF raised, ready
    <3> QED BY <2>1, StartKeeps
  <2>3. BlocFinished(g, f, l.node, d) = Answer(h, f, "NOEVENT")
    BY <1>4 DEF BlocFinished, ExForwardFinished
  <2> HIDE DEF h, raised
  <2> QED BY <2>1, <2>2, <2>3, FollowsTransitive, Silent
<1> QED BY <1>3, <1>4

LEMMA BlocFailedClimbs ==
  ASSUME NEW r \in Schemas, NEW kg \in BOOLEAN, NEW lo, NEW la, NEW ru, Dealt(lo, la, ru),
         NEW l, Sent(r, kg, lo, la, ru, l), l.event = "ABORT",
         NEW f, f = Father[Owner(l.node)], f # NoNode, Kind[f] = "bloc"
  PROVE  Climbs(r, kg, lo, la, ru, l, BlocFailed(l.graph, f, l.node))
<1> DEFINE g == l.graph
           s == Owner(l.node)
           h == ExForwardFailed(g, s)
<1>1. /\ Sound(r, kg, g, lo, la, ru) /\ g \in Graphs /\ Ordered(r, kg, g)
      /\ OpenChain(kg, g, s) /\ s \in Inside(r) /\ ~Clean(g, s)
      /\ \A a \in g.arrived : a[1] # s
  BY DEF Sent, Sound
<1>2. s \in Nodes
  BY <1>1, SenderIs
<1>3. /\ Sound(r, kg, h, lo, la, ru) /\ Follows(r, g, h, lo, la, ru) /\ OpenChain(kg, h, s)
  BY <1>1, <1>2, FailedKeeps
<1>4. BlocFailed(g, f, l.node) =
        IF AllEnded(h, Children[f]) THEN BlocEnds(h, f) ELSE Answer(h, f, "NOEVENT")
  BY DEF BlocFailed
<1> HIDE DEF h
<1>5. Busy(r, kg, h, f)
  BY <1>1, <1>3, SenderIs DEF Sound
<1> QED BY <1>3, <1>4, <1>5, BlocEndsClimbs, Silent

(* A ForEachLoop inside the schema tells Lasts from keepGoing.             *)
LEMMA LastingIs ==
  ASSUME NEW r \in Schemas, NEW g, NEW kg, NEW f \in ForEachs, Busy(r, kg, g, f)
  PROVE  Lasts(r) <=> keepGoing
<1>1. f # r /\ f \in Inside(r)
  BY ComposedAssumption DEF ForEachs, Busy
<1>2. f \in ForEachs \intersect Below[r]
  BY <1>1 DEF Inside
<1> QED BY <1>2 DEF Lasts

LEMMA ForEachClimbs ==
  ASSUME Tame, NEW r \in Schemas, NEW kg \in BOOLEAN, Suits(r, kg), (kg <=> Lasts(r)),
         NEW lo, NEW la, NEW ru, Dealt(lo, la, ru),
         NEW d, d.start \in Values(Controls \intersect Below[r]),
         NEW l, Sent(r, kg, lo, la, ru, l),
         l.event = "FINISH" \/ (l.event = "ABORT" /\ kg),
         NEW f, f = Father[Owner(l.node)], f # NoNode, Kind[f] = "foreach"
  PROVE  /\ l.event = "FINISH" =>
              Climbs(r, kg, lo, la, ru, l, OnFinished(l.graph, f, l.node, d))
         /\ l.event = "ABORT" =>
              Climbs(r, kg, lo, la, ru, l, OnFailed(l.graph, f, l.node, d))
<1> DEFINE g == l.graph
           s == Owner(l.node)
           counted == [g EXCEPT !.errors[f] = @ + 1]
<1>1. /\ Sound(r, kg, g, lo, la, ru) /\ g \in Graphs /\ Ordered(r, kg, g)
      /\ kg \in BOOLEAN /\ OpenChain(kg, g, s) /\ s \in Inside(r)
      /\ l.node \in Nodes \union Fakes /\ g.node[s] \in Ended
      /\ l.event = "FINISH" => g.node[s] = "DONE"
  BY HierarchyAssumption DEF Sent, Sound, Ended
<1>2. /\ s \in Nodes /\ f \in Nodes /\ Busy(r, kg, g, f)
      /\ Quiet(g, lo, la, ru, {s}) /\ g.node[s] \notin AtWork
  BY <1>1, SenderIs, SenderIsQuiet DEF Busy, AtWork, Ended
<1>3. f \in Controls /\ f \in ForEachs /\ s \in Children[f]
  BY <1>2, ComposedAssumption DEF ForEachs, Children
<1>4. l.node = s /\ l.node \notin Fakes
  <2>1. l.node \notin Fakes
    BY <1>3, OwnerIs DEF Tame
  <2> QED BY <1>1, <2>1, OwnerIs
<1>5. CASE l.event = "FINISH"
  <2>1. Clean(g, s) /\ Follows(r, g, g, lo, la, ru)
    BY <1>1, <1>2, <1>5 DEF Ordered, DoneIsClean, Follows, KeepsDone
  <2>2. Climbs(r, kg, lo, la, ru, l, WorkNodeOver(g, f, s, d))
    BY <1>1, <1>2, <2>1, WorkNodeOverClimbs
  <2> QED BY <1>4, <1>5, <2>2 DEF OnFinished
<1>6. CASE l.event = "ABORT"
  <2>1. /\ counted \in Graphs /\ counted.node = g.node /\ counted.arrived = g.arrived
        /\ counted.runs = g.runs /\ counted.ids = g.ids
        /\ \A c \in Controls \ {f} : counted.errors[c] = g.errors[c]
        /\ counted.errors[f] # 0
    BY <1>1, <1>3 DEF Graphs
  <2>2. OnFailed(g, f, l.node, d) = WorkNodeOver(counted, f, s, d)
    <3>1. keepGoing
      BY <1>2, <1>3, <1>6, LastingIs
    <3> QED BY <1>4, <1>6, <3>1 DEF OnFailed
  <2> HIDE DEF counted
  <2>3. Recounted(kg, g, counted, f, s)
    BY <1>3, <1>6, <2>1 DEF Recounted
  <2>4. /\ Sound(r, kg, counted, lo, la, ru) /\ Follows(r, g, counted, lo, la, ru)
        /\ OpenChain(kg, counted, s)
        /\ Active(counted, lo, la, ru) = Active(g, lo, la, ru)
    BY <1>1, <1>3, <2>3, RecountKeeps
  <2>5. Quiet(counted, lo, la, ru, {s})
    BY <1>2, <2>4 DEF Quiet
  <2>6. Climbs(r, kg, lo, la, ru, l, WorkNodeOver(counted, f, s, d))
    BY <1>1, <1>2, <2>1, <2>4, <2>5, WorkNodeOverClimbs
  <2> QED BY <1>6, <2>2, <2>6
<1> QED BY <1>5, <1>6

LEMMA UpdateClimbs ==
  ASSUME Tame, NEW r \in Schemas, NEW kg \in BOOLEAN, Suits(r, kg), (kg <=> Lasts(r)),
         NEW lo, NEW la, NEW ru, Dealt(lo, la, ru),
         NEW d, d.start \in Values(Controls \intersect Below[r]),
         NEW l, Sent(r, kg, lo, la, ru, l), l.event # "NOEVENT", Father[Owner(l.node)] # NoNode
  PROVE  Climbs(r, kg, lo, la, ru, l, UpdateStateFrom(l, Father[Owner(l.node)], d))
<1> DEFINE f == Father[Owner(l.node)]
<1>1. l.event \in {"START", "FINISH", "ABORT"} /\ kg \in BOOLEAN
  BY HierarchyAssumption DEF Sent
<1>2. Kind[f] \in {"bloc", "for", "while", "switch", "foreach"}
  <2>1. Owner(l.node) \in Nodes
    BY InsideIs, ComposedAssumption DEF Sent
  <2> QED BY <2>1, FatherIs
<1>3. CASE l.event = "START"
  BY <1>1, <1>3, StartClimbs DEF UpdateStateFrom
<1>4. CASE l.event = "FINISH"
  <2>1. UpdateStateFrom(l, f, d) = OnFinished(l.graph, f, l.node, d)
    BY <1>4 DEF UpdateStateFrom
  <2>2. CASE Kind[f] = "bloc"
    BY <1>4, <2>1, <2>2, BlocFinishedClimbs DEF OnFinished
  <2>3. CASE Kind[f] = "for"
    BY <1>4, <2>1, <2>3, ForClimbs DEF OnFinished
  <2>4. CASE Kind[f] = "while"
    BY <1>4, <2>1, <2>4, WhileClimbs DEF OnFinished
  <2>5. CASE Kind[f] = "switch"
    BY <1>1, <1>4, <2>1, <2>5, SwitchClimbs DEF OnFinished
  <2>6. CASE Kind[f] = "foreach"
    BY <1>4, <2>1, <2>6, ForEachClimbs
  <2> QED BY <1>2, <2>2, <2>3, <2>4, <2>5, <2>6
<1>5. CASE l.event = "ABORT"
  <2>1. UpdateStateFrom(l, f, d) = OnFailed(l.graph, f, l.node, d)
    BY <1>5 DEF UpdateStateFrom
  <2>2. CASE Kind[f] = "bloc"
    BY <1>1, <1>5, <2>1, <2>2, BlocFailedClimbs DEF OnFailed
  <2>3. CASE Kind[f] = "foreach" /\ kg
    BY <1>5, <2>1, <2>3, ForEachClimbs
  <2>4. CASE Kind[f] \in {"for", "while", "switch"}
    BY <1>1, <1>5, <2>1, <2>4, AbortClimbs DEF OnFailed
  <2>5. CASE Kind[f] = "foreach" /\ ~kg
    <3>1. l.node \notin Fakes
      <4> SUFFICES ASSUME l.node \in Fakes PROVE FALSE
        OBVIOUS
      <4>1. Owner(l.node) \in Controls /\ Owner(l.node) \in Nodes
        BY OwnerIs
      <4>2. f \in Nodes /\ Owner(l.node) \in Children[f]
        BY <4>1, FatherIs
      <4>3. f \in ForEachs
        BY <2>5, <4>2, ComposedAssumption DEF ForEachs
      <4> QED BY <4>1, <4>2, <4>3 DEF Tame
    <3>2. ~keepGoing
      <4>1. Owner(l.node) \in Nodes /\ f \in Nodes
        BY InsideIs, ComposedAssumption, FatherIs DEF Sent
      <4>2. f \in ForEachs /\ Busy(r, kg, l.graph, f)
        BY <1>5, <2>5, <4>1, ComposedAssumption, SenderIs DEF ForEachs, Sent, Sound
      <4> QED BY <2>5, <4>2, LastingIs
    <3> QED BY <1>1, <1>5, <2>1, <2>5, <3>1, <3>2, AbortClimbs DEF OnFailed
  <2> QED BY <1>1, <1>2, <2>2, <2>3, <2>4, <2>5
<1> QED BY <1>1, <1>3, <1>4, <1>5

-----------------------------------------------------------------------------
(* notifyFrom: an event climbs until nobody has anything to send.          *)

LEMMA DepthIs ==
  ASSUME Nodes # {}
  PROVE  Depth \in Nat /\ \A n \in Nodes : Cardinality(Ancestors[n]) <= Depth
<1> DEFINE size == Cardinality(Nodes)
           spare == {size - Cardinality(Ancestors[n]) : n \in Nodes}
<1>1. size \in Nat
  BY HierarchyAssumption, FS_CardinalityType
<1>2. \A n \in Nodes : Cardinality(Ancestors[n]) \in Nat /\ Cardinality(Ancestors[n]) <= size
  BY AncestorsAre, HierarchyAssumption, FS_Subset, FS_CardinalityType
<1> HIDE DEF size
<1>3. \A n \in Nodes : size - Cardinality(Ancestors[n]) \in Nat
  BY <1>1, <1>2
<1>4. spare \in SUBSET Nat /\ spare # {}
  BY <1>3
<1>5. PICK k \in spare : \A i \in spare : ~(i < k)
  BY <1>4, LeastIs
<1>6. PICK m \in Nodes : k = size - Cardinality(Ancestors[m])
  BY <1>5
<1>7. \A n \in Nodes : Cardinality(Ancestors[n]) <= Cardinality(Ancestors[m])
  <2> SUFFICES ASSUME NEW n \in Nodes PROVE Cardinality(Ancestors[n]) <= Cardinality(Ancestors[m])
    OBVIOUS
  <2>1. ~(size - Cardinality(Ancestors[n]) < size - Cardinality(Ancestors[m]))
    BY <1>5, <1>6
  <2> QED BY <1>1, <1>2, <2>1
<1>8. Cardinality(Ancestors[m]) \in 0..size
  BY <1>1, <1>2
<1>9. \E j \in 0..size : /\ \E n \in Nodes : Cardinality(Ancestors[n]) = j
                         /\ \A n \in Nodes : Cardinality(Ancestors[n]) <= j
  BY <1>7, <1>8
<1>10. Depth \in 0..size /\ \A n \in Nodes : Cardinality(Ancestors[n]) <= Depth
  <2> DEFINE deepest(j) == /\ \E n \in Nodes : Cardinality(Ancestors[n]) = j
                           /\ \A n \in Nodes : Cardinality(Ancestors[n]) <= j
  <2>1. Depth = CHOOSE j \in 0..size : deepest(j)
    BY DEF Depth, size
  <2>2. \E j \in 0..size : deepest(j)
    BY <1>9
  <2> HIDE DEF deepest
  <2>3. Depth \in 0..size /\ deepest(Depth)
    BY <2>1, <2>2
  <2> QED BY <2>3 DEF deepest
<1> QED BY <1>1, <1>10

(* One level up, if there is an event to send and a father.                *)
Upwards(l, d) ==
  IF l.event = "NOEVENT" \/ Father[Owner(l.node)] = NoNode THEN l
  ELSE UpdateStateFrom(l, Father[Owner(l.node)], d)

(* The levels that notifyFrom goes through.                                *)
LEMMA LevelsAre ==
  ASSUME Nodes # {}, NEW g, NEW t, NEW event, NEW d
  PROVE  /\ Depth \in Nat
         /\ \E level : /\ NotifyFrom(g, t, event, d) = level[Depth].graph
                       /\ level[0] = Answer(g, t, event)
                       /\ \A k \in 1..Depth : level[k] = Upwards(level[k - 1], d)
<1> DEFINE up(l) == Upwards(l, d)
           eq(f, n) == [k \in 0..n |-> IF k = 0 THEN Answer(g, t, event) ELSE up(f[k - 1])]
           level == CHOOSE f : f = eq(f, Depth)
<1>1. Depth \in Nat
  BY DepthIs, ComposedAssumption
<1>2. \E f : f = eq(f, Depth)
  <2> HIDE DEF up
  <2> DEFINE bad == {n \in Nat : ~\E f : f = eq(f, n)}
  <2>1. SUFFICES ASSUME bad # {} PROVE FALSE
    BY <1>1
  <2>2. PICK n \in bad : \A i \in bad : ~(i < n)
    BY <2>1, LeastIs
  <2>3. n # 0
    <3>1. [k \in 0..0 |-> Answer(g, t, event)] = eq([k \in 0..0 |-> Answer(g, t, event)], 0)
      OBVIOUS
    <3> QED BY <3>1
  <2>4. n \in Nat /\ n - 1 \in Nat /\ n - 1 < n
    BY <2>2, <2>3
  <2>5. n - 1 \notin bad
    BY <2>2, <2>4
  <2>6. PICK f : f = eq(f, n - 1)
    BY <2>4, <2>5
  <2> DEFINE next == [k \in 0..n |-> IF k < n THEN f[k] ELSE up(f[n - 1])]
  <2>7. \A k \in 0..n : next[k] = IF k = 0 THEN Answer(g, t, event) ELSE up(next[k - 1])
    <3> SUFFICES ASSUME NEW k \in 0..n
                 PROVE  next[k] = IF k = 0 THEN Answer(g, t, event) ELSE up(next[k - 1])
      OBVIOUS
    <3>1. \A j \in 0..(n - 1) : next[j] = f[j]
      BY <2>4
    <3>2. \A j \in 0..(n - 1) : f[j] = IF j = 0 THEN Answer(g, t, event) ELSE up(f[j - 1])
      BY <2>6
    <3>3. next[n] = up(f[n - 1])
      BY <2>4
    <3>4. k # 0 => k - 1 \in 0..(n - 1)
      BY <2>4
    <3> HIDE DEF next
    <3>5. CASE k = n
      BY <2>3, <3>1, <3>3, <3>4, <3>5
    <3>6. CASE k # n
      <4>1. k \in 0..(n - 1)
        BY <2>4, <3>6
      <4> QED BY <3>1, <3>2, <3>4, <4>1
    <3> QED BY <3>5, <3>6
  <2>8. next = eq(next, n)
    BY <2>7
  <2> QED BY <2>2, <2>8
<1>3. level = eq(level, Depth)
  <2> HIDE DEF eq
  <2> QED BY <1>2
<1>4. NotifyFrom(g, t, event, d) = level[Depth].graph
  BY DEF NotifyFrom, Upwards
<1> HIDE DEF level
<1>5. level[0] = Answer(g, t, event) /\ \A k \in 1..Depth : level[k] = up(level[k - 1])
  <2> HIDE DEF up
  <2>1. \A k \in 0..Depth : level[k] = IF k = 0 THEN Answer(g, t, event) ELSE up(level[k - 1])
    BY <1>3
  <2> QED BY <1>1, <2>1
<1> QED BY <1>1, <1>4, <1>5

LEMMA NotifyKeeps ==
  ASSUME Tame, NEW r \in Schemas, NEW kg \in BOOLEAN, Suits(r, kg), (kg <=> Lasts(r)),
         NEW lo, NEW la, NEW ru, Dealt(lo, la, ru),
         NEW d, d.start \in Values(Controls \intersect Below[r]),
         NEW g, NEW t, NEW event, Sent(r, kg, lo, la, ru, Answer(g, t, event))
  PROVE  LET h == NotifyFrom(g, t, event, d)
         IN  Sound(r, kg, h, lo, la, ru) /\ Follows(r, g, h, lo, la, ru)
<1>1. Depth \in Nat /\ Nodes # {}
  BY DepthIs, ComposedAssumption
<1>4. PICK level : /\ NotifyFrom(g, t, event, d) = level[Depth].graph
                   /\ level[0] = Answer(g, t, event)
                   /\ \A k \in 1..Depth : level[k] = Upwards(level[k - 1], d)
  BY <1>1, LevelsAre
<1>5. level[0] = Answer(g, t, event) /\ \A k \in 1..Depth : level[k] = Upwards(level[k - 1], d)
  BY <1>4
<1> DEFINE up(l) == Upwards(l, d)
<1> DEFINE good(l) == Sent(r, kg, lo, la, ru, l) /\ Follows(r, g, l.graph, lo, la, ru)
<1>6. good(level[0])
  <2>1. level[0].graph = g
    BY <1>5 DEF Answer
  <2> QED BY <1>5, <2>1 DEF Follows, KeepsDone
<1>7. ASSUME NEW l, good(l) PROVE good(up(l))
  <2>1. CASE l.event = "NOEVENT" \/ Father[Owner(l.node)] = NoNode
    BY <1>7, <2>1 DEF Upwards
  <2>2. CASE ~(l.event = "NOEVENT" \/ Father[Owner(l.node)] = NoNode)
    <3> DEFINE m == UpdateStateFrom(l, Father[Owner(l.node)], d)
    <3>1. Climbs(r, kg, lo, la, ru, l, m)
      BY <1>7, <2>2, UpdateClimbs
    <3>2. up(l) = m
      BY <2>2 DEF Upwards
    <3> HIDE DEF m, up
    <3>3. Sent(r, kg, lo, la, ru, m) /\ Follows(r, g, m.graph, lo, la, ru)
      BY <1>7, <3>1, FollowsTransitive DEF Climbs
    <3> QED BY <3>2, <3>3
  <2> QED BY <2>1, <2>2
<1> HIDE DEF good, up
<1>8. \A k \in 0..Depth : good(level[k])
  <2> DEFINE bad == {k \in 0..Depth : ~good(level[k])}
  <2>1. SUFFICES ASSUME bad # {} PROVE FALSE
    OBVIOUS
  <2>2. bad \in SUBSET Nat
    BY <1>1
  <2>3. PICK k \in bad : \A i \in bad : ~(i < k)
    <3> HIDE DEF bad
    <3> QED BY <2>1, <2>2, LeastIs
  <2>4. k \in 0..Depth /\ ~good(level[k]) /\ k # 0
    BY <1>6, <2>3
  <2>5. k \in 1..Depth /\ k - 1 \in 0..Depth /\ k - 1 < k
    BY <1>1, <2>4
  <2>6. good(level[k - 1])
    BY <2>3, <2>5
  <2>7. good(up(level[k - 1])) /\ up(level[k - 1]) = level[k]
    <3> HIDE DEF good
    <3> QED BY <1>5, <1>7, <2>5, <2>6 DEF up
  <2> QED BY <2>4, <2>7
<1> QED BY <1>1, <1>4, <1>8 DEF good, Sent

-----------------------------------------------------------------------------
(* The end of a task.                                                      *)

LEMMA TaskIs ==
  ASSUME NEW t \in Tasks
  PROVE  t \in Nodes /\ Inside(t) = {t} /\ t \notin Controls /\ t \notin Fakes /\ Owner(t) = t
<1>1. t \in Nodes /\ t \notin Controls /\ t \notin Fakes /\ Owner(t) = t /\ Kind[t] = "task"
  BY OwnerIs DEF Tasks
<1>2. Below[t] = {}
  <2> SUFFICES ASSUME NEW m \in Nodes, t \in Ancestors[m] PROVE FALSE
    BY <1>1 DEF Below
  <2>1. PICK k \in Chain(m) : k \in Nodes /\ Father[k] = t /\ t # NoNode
    BY ChildAround DEF Chain
  <2> QED BY <1>1, <2>1, FatherIs
<1> QED BY <1>1, <1>2 DEF Inside

(* A node that runs is of the schema that is run.                          *)
LEMMA ActiveIsInside ==
  ASSUME NEW r, NEW kg, NEW g, Ordered(r, kg, g), NEW n \in Nodes, g.node[n] \in AtWork
  PROVE  n \in Inside(r) /\ ~Waiting(g, n) /\ \A a \in g.arrived : a[1] # n
BY DEF Ordered, Outside, Unstarted, Flags, AtWork

(* t is no longer in progress: its node takes the state b, and says so.    *)
LEMMA OwnerKeeps ==
  ASSUME NEW r \in Schemas, NEW kg \in BOOLEAN, NEW g, NEW lo, NEW la, NEW ru,
         Dealt(lo, la, ru), Sound(r, kg, g, lo, la, ru),
         NEW t \in Tasks \union Fakes, Attended(kg, g, t), g.node[Owner(t)] \in AtWork,
         t \notin ru, NEW b, NEW event,
         \/ b = "DONE" /\ event = "FINISH" /\ t \notin la
         \/ b = "ERROR" /\ event = "ABORT" /\ (t \in la => t \in Unloadable)
  PROVE  LET h == SetState(g, Owner(t), b)
         IN  /\ Sent(r, kg, lo, la, ru, Answer(h, t, event))
             /\ \A u \in Active(g, lo, la, ru) \ {t} : h.node[u] = g.node[u]
             /\ Marked(r, g) => Marked(r, h)
             /\ b = "ERROR" => Marked(r, h)
<1> DEFINE c == Owner(t)
           h == SetState(g, c, b)
<1>1. g \in Graphs /\ Ordered(r, kg, g) /\ r \in Nodes /\ b \in NodeStates /\ c \in Nodes
  BY OwnerIs, ComposedAssumption DEF Sound, NodeStates, Ended
<1>2. c \in Inside(r) /\ ~Waiting(g, c) /\ OpenChain(kg, g, c) /\ \A a \in g.arrived : a[1] # c
  BY <1>1, ActiveIsInside DEF Attended, OpenChain
<1>3. t \in Tasks => c = t /\ Inside(t) = {t} /\ t \notin Controls
  BY TaskIs
<1>4. t \in Fakes => /\ c \in Controls /\ FakeOf[c] = t /\ g.node[c] = "ACTIVATED"
                     /\ g.runs[c] \in FakeRuns /\ c \notin Tasks /\ c \notin Fakes /\ t \notin Nodes
  BY OwnerIs DEF Attended
<1>5. Clean(g, c)
  <2>1. CASE t \in Tasks
    BY <1>3, <2>1 DEF Clean, Hard, AtWork
  <2>2. CASE t \in Fakes
    BY <1>1, <1>4, <2>2 DEF Ordered, FakeIsClean
  <2> QED BY <2>1, <2>2
<1>6. Settable(r, kg, g, c, b)
  BY <1>2, <1>5 DEF Settable
<1>7. Allows(kg, g, lo, la, ru, c, b)
  <2>1. c \in la \union ru => b = "ERROR" /\ c \in Unloadable /\ c \notin ru
    BY <1>3, <1>4 DEF Dealt
  <2>2. ASSUME NEW u \in Active(g, lo, la, ru) \ {c}, Owner(u) \in Inside(c)
        PROVE  FALSE
    <3>1. /\ Owner(u) \in Nodes /\ u \in Tasks \union Fakes /\ u \in la \union ru
          /\ \A k \in Chain(Owner(u)) : Open(kg, g, k)
          /\ u \in Tasks => Owner(u) = u
          /\ u \in Fakes => Owner(u) \in Controls /\ FakeOf[Owner(u)] = u
      BY ActiveIs, OwnerIs
    <3>2. CASE t \in Tasks
      BY <1>3, <2>2, <3>1, <3>2
    <3>3. CASE t \in Fakes
      <4>1. u # t
        BY <1>4, <3>1, <3>3, HierarchyAssumption, TaskIs
      <4>2. Owner(u) # c
        BY <1>4, <2>2, <3>1, <3>3, <4>1
      <4>3. c \in Ancestors[Owner(u)]
        BY <1>1, <2>2, <3>1, <4>2, InsideIs DEF Inside
      <4>4. PICK k \in Chain(Owner(u)) : k \in Nodes /\ Father[k] = c /\ c # NoNode
        BY <3>1, <4>3, ChildAround DEF Chain
      <4> QED BY <1>4, <3>1, <3>3, <4>4, HierarchyAssumption, ComposedAssumption DEF Open, FakeRuns
    <3> QED BY <3>2, <3>3
  <2> QED BY <2>1, <2>2 DEF Allows
<1>8. /\ Sound(r, kg, h, lo, la, ru) /\ (Marked(r, g) => Marked(r, h))
      /\ \A u \in Active(g, lo, la, ru) \ {c} : h.node[u] = g.node[u]
  BY <1>6, <1>7, SetKeeps
<1>9. /\ h.node[c] = b /\ \A n \in (Nodes \union Fakes) \ {c} : h.node[n] = g.node[n]
      /\ h.arrived = g.arrived /\ h.runs = g.runs
  BY <1>1, SetIs
<1>10. \A n \in Nodes : ~Clean(g, n) => ~Clean(h, n)
  BY <1>1, <1>6, SetKeepsOrder
<1> HIDE DEF h
<1>11. OpenChain(kg, h, c)
  <2> SUFFICES ASSUME NEW k \in Chain(c) PROVE Open(kg, h, k)
    BY DEF OpenChain
  <2>1. k \in Nodes /\ Open(kg, g, k) /\ c \in Inside(k)
    BY <1>1, <1>2, ChainIs DEF OpenChain
  <2>2. Father[k] # c
    <3> SUFFICES ASSUME Father[k] = c PROVE FALSE
      OBVIOUS
    <3>1. c # NoNode
      BY <1>1, ComposedAssumption
    <3>2. k \in Below[c] /\ c \notin Below[c]
      BY <1>1, <2>1, <3>1, FatherIs, InsideIs
    <3> QED BY <1>1, <2>1, <3>2, InsideIs
  <2> QED BY <1>9, <1>10, <2>1, <2>2, FatherIs DEF Open
<1>12. \A u \in Active(g, lo, la, ru) \ {t} : h.node[u] = g.node[u]
  <2> SUFFICES ASSUME NEW u \in Active(g, lo, la, ru) \ {t} PROVE h.node[u] = g.node[u]
    OBVIOUS
  <2>1. u # c
    <3>1. u \in Tasks \union Fakes
      BY ActiveIs
    <3> QED BY <1>3, <1>4, <3>1
  <2> QED BY <1>8, <2>1
<1>13. b = "ERROR" => Marked(r, h) /\ ~Clean(h, c)
  BY <1>2, <1>9 DEF Marked, Hard, Clean, Inside
<1>14. Sent(r, kg, lo, la, ru, Answer(h, t, event))
  <2>1. t \in Nodes \union Fakes
    BY <1>1, <1>3
  <2> QED BY <1>2, <1>8, <1>9, <1>11, <1>13, <2>1 DEF Sent, Answer
<1> QED BY <1>8, <1>12, <1>13, <1>14 DEF h

(* A task that runs is let go.                                             *)
LEMMA LetGo ==
  ASSUME NEW r, NEW kg, NEW g, NEW lo, NEW la, NEW ru, Dealt(lo, la, ru),
         Sound(r, kg, g, lo, la, ru), NEW t \in ru, t \notin la
  PROVE  Sound(r, kg, g, lo, la, ru \ {t}) /\ Dealt(lo, la, ru \ {t})
<1>1. Active(g, lo, la, ru \ {t}) = Active(g, lo, la, ru) \ {t}
  BY DEF Active, Dealt
<1> QED BY <1>1 DEF Sound, Acts, Lapsed, Dealt

-----------------------------------------------------------------------------
(* The actions.                                                            *)

FirstTyped ==
  /\ restarts \in Nat /\ root \in Schemas /\ keepGoing \in KeepGoings[root]
  /\ restarts = 0 =>
       /\ graph \in Graphs
       /\ phase \in {"select", "load", "launch", "over"}
       /\ picked \union running \subseteq Tasks \union Fakes /\ pending \subseteq picked

(* The first run, which none of the actions below ends.                    *)
First == FirstTyped /\ FirstRun /\ restarts = 0

LEMMA KeepsGoing ==
  ASSUME keepGoing \in KeepGoings[root]
  PROVE  Lasting \in BOOLEAN /\ Suits(root, Lasting) /\ (Lasting <=> Lasts(root))
<1>1. Lasting \in BOOLEAN /\ (Lasting <=> Lasts(root))
  BY DEF Lasting, Lasts
<1>2. Lasts(root) => keepGoing \/ ForEachs \intersect Below[root] = {}
  BY DEF Lasts
<1>3. keepGoing => keepGoing = TRUE
  OBVIOUS
<1> QED BY <1>1, <1>2, <1>3 DEF Suits

LEMMA FirstIs ==
  ASSUME First
  PROVE  /\ root \in Schemas /\ Lasting \in BOOLEAN /\ Suits(root, Lasting) /\ (Lasting <=> Lasts(root))
         /\ Dealt(ToLoad, ToLaunch, running)
         /\ Sound(root, Lasting, graph, ToLoad, ToLaunch, running)
         /\ running \intersect ToLaunch = {}
         /\ \A t \in loading : phase = "load" /\ t \in picked /\ graph.node[t] = "TOLOAD"
         /\ failed => Marked(root, graph)
<1>1. Lasting \in BOOLEAN /\ Suits(root, Lasting) /\ (Lasting <=> Lasts(root))
  BY KeepsGoing DEF First, FirstTyped
<1> QED BY <1>1 DEF First, FirstTyped, FirstRun, Sound, Dealt, ToLoad, ToLaunch

(* What the next state has to be.                                          *)
LEMMA FirstNext ==
  ASSUME First, root' = root, keepGoing' = keepGoing, restarts' = restarts,
         Sound(root, Lasting, graph', ToLoad', ToLaunch', running'),
         phase' \in {"select", "load", "launch", "over"},
         picked' \union running' \subseteq Tasks \union Fakes, pending' \subseteq picked',
         running' \intersect ToLaunch' = {},
         \A t \in loading' : phase' = "load" /\ t \in picked' /\ graph'.node[t] = "TOLOAD",
         failed' => Marked(root, graph')
  PROVE  First'
<1>1. Lasting' = Lasting
  BY DEF Lasting, Lasts
<1> QED BY <1>1 DEF First, FirstTyped, FirstRun, Sound

LEMMA InitialIs ==
  ASSUME NEW r \in Schemas, NEW kg \in BOOLEAN
  PROVE  /\ Sound(r, kg, InitialGraph, {}, {}, {}) /\ Startable(r, kg, InitialGraph, {r})
         /\ Quiet(InitialGraph, {}, {}, {}, {r}) /\ Dealt({}, {}, {})
<1> DEFINE g == InitialGraph
<1>1. /\ g.node = [n \in Nodes \union Fakes |-> "READY"] /\ g.arrived = {}
      /\ g.runs = [c \in Controls |-> "nothing"] /\ g.errors = [c \in Controls |-> 0]
      /\ g.ids = [n \in Nodes |-> NotRunning]
  BY DEF InitialGraph
<1>2. g \in Graphs
  <2>1. NoValue \in Int /\ NotRunning \in Int /\ "READY" \in NodeStates /\ 0 \in Nat /\ 0 \in Int
    BY DEF NoValue, NotRunning, NodeStates
  <2> QED BY <2>1 DEF InitialGraph, Graphs
<1> HIDE DEF g
<1>3. Controls \subseteq Nodes /\ r \in Nodes /\ Father[r] = NoNode /\ Kind[r] = "bloc" /\ NoNode \notin Nodes
  BY OwnerIs, ComposedAssumption
<1>4. \A n \in Nodes : Pristine(g, n) /\ Clean(g, n) /\ g.node[n] = "READY"
  BY <1>1, <1>3, InsideIs DEF Pristine, Clean, Hard, Inside
<1>5. Flags(g) /\ Unstarted(g) /\ DoneIsClean(g) /\ FakeIsClean(g) /\ Causes(g) /\ Outside(r, g)
  BY <1>1, <1>3, <1>4 DEF Flags, Unstarted, DoneIsClean, FakeIsClean, Causes, Outside
<1>6. Cases(g) /\ Ids(g) /\ Counted(kg, g)
  <2>1. \A c \in Controls : Children[c] \subseteq Nodes
    BY <1>3 DEF Children
  <2> QED BY <1>1, <1>4, <2>1 DEF Cases, Ids, Counted, ForEachs, AtWork
<1>7. Ordered(r, kg, g)
  BY <1>5, <1>6 DEF Ordered
<1>8. Sound(r, kg, g, {}, {}, {})
  BY <1>2, <1>7 DEF Sound, Acts, Lapsed, Active
<1>9. Startable(r, kg, g, {r})
  <2>1. Predecessors[r] = {}
    BY <1>3, LinkIs DEF Predecessors
  <2>2. OpenChain(kg, g, r)
    BY <1>3, RootIs DEF OpenChain, Chain, Open
  <2>3. Father[r] \notin Controls /\ Father[r] \notin ForEachs
    BY <1>3 DEF ForEachs
  <2> QED BY <1>3, <1>4, <2>1, <2>2, <2>3 DEF Startable, Waiting, Inside
<1>10. Quiet(g, {}, {}, {}, {r}) /\ Dealt({}, {}, {})
  BY DEF Quiet, Active, Dealt
<1> QED BY <1>8, <1>9, <1>10 DEF g

LEMMA InitFirst ==
  ASSUME Tame, Init
  PROVE  First
<1>1. root \in Schemas /\ Lasting \in BOOLEAN /\ Suits(root, Lasting) /\ keepGoing \in KeepGoings[root]
  BY KeepsGoing DEF Init
<1>2. PICK start \in Values(Controls \intersect Below[root]) :
        graph = ExUpdateState(InitialGraph, {root}, start)
  BY DEF Init
<1>3. /\ Sound(root, Lasting, InitialGraph, {}, {}, {})
      /\ Startable(root, Lasting, InitialGraph, {root})
      /\ Quiet(InitialGraph, {}, {}, {}, {root}) /\ Dealt({}, {}, {})
  BY <1>1, InitialIs
<1>4. Sound(root, Lasting, graph, {}, {}, {})
  BY <1>1, <1>2, <1>3, StartKeeps
<1>5. /\ phase = "select" /\ picked = {} /\ pending = {} /\ loading = {} /\ running = {}
      /\ failed = FALSE /\ restarts = 0
  BY DEF Init
<1>6. ToLoad = {} /\ ToLaunch = {}
  BY <1>5 DEF ToLoad, ToLaunch
<1> QED BY <1>1, <1>4, <1>5, <1>6 DEF First, FirstTyped, FirstRun, Sound

(* What is selected may run.                                               *)
LEMMA SelectFirst ==
  ASSUME First, Select
  PROVE  First'
<1> DEFINE new == ReadyTasks
<1>1. /\ root \in Schemas /\ Lasting \in BOOLEAN /\ Dealt(ToLoad, ToLaunch, running)
      /\ Sound(root, Lasting, graph, ToLoad, ToLaunch, running)
      /\ \A t \in loading : phase = "load"
      /\ failed => Marked(root, graph)
  BY FirstIs
<1>2. /\ phase = "select" /\ picked' = new /\ pending' = new /\ phase' = "load"
      /\ root' = root /\ keepGoing' = keepGoing /\ restarts' = restarts /\ graph' = graph
      /\ loading' = loading /\ running' = running /\ failed' = failed
  BY DEF Select, runVars
<1>3. ToLoad = {} /\ ToLaunch = {} /\ ToLoad' = new /\ ToLaunch' = new
  BY <1>2 DEF ToLoad, ToLaunch
<1>4. \A t \in new : /\ t \in Tasks \union Fakes /\ graph.node[t] \in {"TOLOAD", "TOACTIVATE"}
                     /\ Listed(graph, t)
  BY DEF ReadyTasks
<1> HIDE DEF new
<1>5. ASSUME NEW t \in new
      PROVE  Attended(Lasting, graph, t)
  <2>1. Owner(t) \in Nodes
    BY <1>4, OwnerIs
  <2>2. ASSUME NEW k \in Chain(Owner(t)) PROVE Open(Lasting, graph, k)
    <3>1. Runs(graph, k) /\ k \in Nodes
      BY <1>4, <2>1, ChainIs DEF Listed, Chain
    <3> QED BY <3>1 DEF Runs, Open
  <2> QED BY <1>4, <2>2 DEF Attended, Listed
<1>6. running \intersect new = {}
  BY <1>1, <1>4 DEF Sound, Acts
<1>7. /\ \A t \in Active(graph, new, new, running) : t \in running \/ t \in new
      /\ \A t \in new : t \in Active(graph, new, new, running)
      /\ \A t \in running : t \in Active(graph, {}, {}, running)
  BY <1>4 DEF Active
<1>8. Acts(Lasting, graph, new, new, running) /\ Lapsed(Lasting, graph, new, new, running)
  BY <1>1, <1>3, <1>5, <1>7 DEF Sound, Acts, Lapsed
<1>9. Sound(root, Lasting, graph', ToLoad', ToLaunch', running')
  BY <1>1, <1>2, <1>3, <1>8 DEF Sound
<1>10. picked' \union running' \subseteq Tasks \union Fakes
  BY <1>1, <1>2, <1>4 DEF Dealt
<1> QED BY <1>1, <1>2, <1>3, <1>6, <1>9, <1>10, FirstNext

LEMMA BeginLoadFirst ==
  ASSUME Tame, First, NEW t \in Tasks \union Fakes, BeginLoad(t)
  PROVE  First' /\ KeepsDone(graph, graph')
<1>1. /\ root \in Schemas /\ Lasting \in BOOLEAN /\ Suits(root, Lasting) /\ (Lasting <=> Lasts(root))
      /\ Dealt(ToLoad, ToLaunch, running)
      /\ Sound(root, Lasting, graph, ToLoad, ToLaunch, running)
      /\ running \intersect ToLaunch = {}
      /\ \A u \in loading : phase = "load" /\ u \in picked /\ graph.node[u] = "TOLOAD"
      /\ failed => Marked(root, graph)
      /\ picked \union running \subseteq Tasks \union Fakes /\ pending \subseteq picked
  BY FirstIs DEF First, FirstTyped
<1>2. /\ phase = "load" /\ t \in pending /\ pending' \subseteq pending
      /\ root' = root /\ keepGoing' = keepGoing /\ restarts' = restarts
      /\ phase' = phase /\ picked' = picked /\ running' = running /\ failed' = failed
  BY DEF BeginLoad, runVars
<1>3. ToLoad = picked /\ ToLaunch = picked /\ ToLoad' = picked /\ ToLaunch' = picked
  BY <1>2 DEF ToLoad, ToLaunch
<1>4. CASE graph.node[t] = "TOLOAD" /\ loading' = loading \union {t}
           /\ \E d \in Decisions : graph' = NotifyFrom(graph, t, "START", d)
  <2>1. PICK d \in Decisions : graph' = NotifyFrom(graph, t, "START", d)
    BY <1>4
  <2>2. d.start \in Values(Controls \intersect Below[root])
    BY DEF Decisions
  <2>3. t \in picked /\ t \in Active(graph, picked, picked, running)
    BY <1>1, <1>2, <1>4 DEF Active
  <2>4. /\ Owner(t) \in Nodes /\ graph.node[Owner(t)] \in AtWork
        /\ OpenChain(Lasting, graph, Owner(t))
    BY <1>1, <1>3, <2>3, ActiveIs DEF OpenChain
  <2>5. /\ Owner(t) \in Inside(root) /\ \A a \in graph.arrived : a[1] # Owner(t)
    BY <1>1, <2>4, ActiveIsInside DEF Sound
  <2>6. Sent(root, Lasting, picked, picked, running, Answer(graph, t, "START"))
    BY <1>1, <1>3, <2>4, <2>5, OwnerIs DEF Sent, Answer
  <2>7. /\ Sound(root, Lasting, graph', picked, picked, running)
        /\ Follows(root, graph, graph', picked, picked, running)
    BY <1>1, <1>3, <2>1, <2>2, <2>6, NotifyKeeps
  <2>8. \A u \in loading' : u \in picked /\ graph'.node[u] = "TOLOAD"
    <3>1. \A u \in loading' : u \in picked /\ graph.node[u] = "TOLOAD"
      BY <1>1, <1>4, <2>3
    <3>2. \A u \in loading' : u \in Active(graph, picked, picked, running)
      BY <3>1 DEF Active
    <3> QED BY <2>7, <3>1, <3>2 DEF Follows
  <2>9. failed' => Marked(root, graph')
    BY <1>1, <1>2, <2>7 DEF Follows
  <2> QED BY <1>1, <1>2, <1>3, <2>7, <2>8, <2>9, FirstNext DEF Follows
<1>5. CASE UNCHANGED <<graph, loading>>
  BY <1>1, <1>2, <1>3, <1>5, FirstNext DEF KeepsDone
<1> QED BY <1>4, <1>5 DEF BeginLoad

(* The task t is over, and its node, which takes the state b, says so.     *)
LEMMA TaskOver ==
  ASSUME Tame, First, NEW t \in Tasks \union Fakes,
         Attended(Lasting, graph, t), graph.node[Owner(t)] \in AtWork,
         NEW ru, ru \subseteq running, t \notin ru,
         Sound(root, Lasting, graph, ToLoad, ToLaunch, ru),
         NEW b, NEW event,
         \/ b = "DONE" /\ event = "FINISH" /\ t \notin ToLaunch
         \/ b = "ERROR" /\ event = "ABORT" /\ (t \in ToLaunch => t \in Unloadable),
         NEW d \in Decisions
  PROVE  LET h == NotifyFrom(SetState(graph, Owner(t), b), t, event, d)
         IN  /\ Sound(root, Lasting, h, ToLoad, ToLaunch, ru)
             /\ \A u \in loading \ {t} : h.node[u] = "TOLOAD"
             /\ failed => Marked(root, h)
             /\ b = "ERROR" => Marked(root, h)
             /\ KeepsDone(graph, h)
<1> DEFINE i == SetState(graph, Owner(t), b)
           h == NotifyFrom(i, t, event, d)
<1>1. /\ root \in Schemas /\ Lasting \in BOOLEAN /\ Suits(root, Lasting) /\ (Lasting <=> Lasts(root))
      /\ Dealt(ToLoad, ToLaunch, ru)
      /\ \A u \in loading : phase = "load" /\ u \in picked /\ graph.node[u] = "TOLOAD"
      /\ failed => Marked(root, graph)
  BY FirstIs DEF Dealt
<1>2. d.start \in Values(Controls \intersect Below[root])
  BY DEF Decisions
<1>3. /\ Sent(root, Lasting, ToLoad, ToLaunch, ru, Answer(i, t, event))
      /\ \A u \in Active(graph, ToLoad, ToLaunch, ru) \ {t} : i.node[u] = graph.node[u]
      /\ Marked(root, graph) => Marked(root, i)
      /\ b = "ERROR" => Marked(root, i)
  BY <1>1, OwnerKeeps
<1> HIDE DEF i
<1>4. /\ Sound(root, Lasting, h, ToLoad, ToLaunch, ru)
      /\ Follows(root, i, h, ToLoad, ToLaunch, ru)
  BY <1>1, <1>2, <1>3, NotifyKeeps
<1> HIDE DEF h
<1>5. \A u \in loading \ {t} : h.node[u] = "TOLOAD"
  <2> SUFFICES ASSUME NEW u \in loading \ {t} PROVE h.node[u] = "TOLOAD"
    OBVIOUS
  <2>1. u \in ToLoad /\ graph.node[u] = "TOLOAD" /\ u \in Active(graph, ToLoad, ToLaunch, ru)
    BY <1>1 DEF ToLoad, Active
  <2>2. i.node[u] = "TOLOAD" /\ u \in Active(i, ToLoad, ToLaunch, ru)
    BY <1>3, <2>1 DEF Active
  <2> QED BY <1>4, <2>2 DEF Follows
<1>6. KeepsDone(graph, h)
  <2>1. KeepsDone(graph, i)
    <3>1. /\ graph \in Graphs /\ Owner(t) \in Nodes /\ b \in NodeStates
          /\ graph.node[Owner(t)] # "DONE"
      BY OwnerIs DEF AtWork, Sound, NodeStates, Ended
    <3> QED BY <3>1, SetIs DEF KeepsDone, i
  <2> QED BY <1>4, <2>1 DEF Follows, KeepsDone
<1> QED BY <1>1, <1>3, <1>4, <1>5, <1>6 DEF Follows, h, i

LEMMA EndLoadFirst ==
  ASSUME Tame, First, NEW t \in Tasks \union Fakes, EndLoad(t)
  PROVE  First' /\ KeepsDone(graph, graph')
<1>1. /\ root \in Schemas /\ Lasting \in BOOLEAN /\ Suits(root, Lasting) /\ (Lasting <=> Lasts(root))
      /\ Dealt(ToLoad, ToLaunch, running)
      /\ Sound(root, Lasting, graph, ToLoad, ToLaunch, running)
      /\ running \intersect ToLaunch = {}
      /\ \A u \in loading : phase = "load" /\ u \in picked /\ graph.node[u] = "TOLOAD"
      /\ failed => Marked(root, graph)
      /\ picked \union running \subseteq Tasks \union Fakes /\ pending \subseteq picked
  BY FirstIs DEF First, FirstTyped
<1>2. /\ t \in loading /\ loading' = loading \ {t} /\ pending' = pending
      /\ root' = root /\ keepGoing' = keepGoing /\ restarts' = restarts
      /\ phase' = phase /\ picked' = picked /\ running' = running
  BY DEF EndLoad, runVars
<1>3. /\ phase = "load" /\ ToLoad = picked /\ ToLaunch = picked /\ ToLoad' = picked /\ ToLaunch' = picked
      /\ t \in picked /\ graph.node[t] = "TOLOAD"
  BY <1>1, <1>2 DEF ToLoad, ToLaunch
<1>4. CASE t \in Unloadable /\ Fail(t)
  <2>1. PICK d \in Decisions : graph' = NotifyFrom(SetState(graph, Owner(t), "ERROR"), t, "ABORT", d)
    BY <1>4 DEF Fail
  <2>2. t \in Active(graph, ToLoad, ToLaunch, running)
    BY <1>3 DEF Active
  <2>3. Attended(Lasting, graph, t) /\ graph.node[Owner(t)] \in AtWork
    BY <1>1, <2>2, ActiveIs DEF Sound, Acts
  <2>4. t \notin running
    BY <1>1, <1>3
  <2>5. /\ Sound(root, Lasting, graph', ToLoad, ToLaunch, running)
        /\ \A u \in loading \ {t} : graph'.node[u] = "TOLOAD"
        /\ Marked(root, graph') /\ KeepsDone(graph, graph')
    BY <1>1, <1>4, <2>1, <2>3, <2>4, TaskOver
  <2> QED BY <1>1, <1>2, <1>3, <2>5, FirstNext
<1>5. CASE UNCHANGED <<graph, failed>>
  BY <1>1, <1>2, <1>3, <1>5, FirstNext DEF KeepsDone
<1> QED BY <1>4, <1>5 DEF EndLoad

LEMMA FinishFirst ==
  ASSUME Tame, First, NEW t \in Tasks \union Fakes, Finish(t)
  PROVE  First' /\ KeepsDone(graph, graph')
<1>1. /\ root \in Schemas /\ Lasting \in BOOLEAN /\ Suits(root, Lasting) /\ (Lasting <=> Lasts(root))
      /\ Dealt(ToLoad, ToLaunch, running)
      /\ Sound(root, Lasting, graph, ToLoad, ToLaunch, running)
      /\ running \intersect ToLaunch = {}
      /\ \A u \in loading : phase = "load" /\ u \in picked /\ graph.node[u] = "TOLOAD"
      /\ failed => Marked(root, graph)
      /\ picked \union running \subseteq Tasks \union Fakes /\ pending \subseteq picked
      /\ phase \in {"select", "load", "launch", "over"}
  BY FirstIs DEF First, FirstTyped
<1>2. /\ t \in running /\ running' = running \ {t}
      /\ root' = root /\ keepGoing' = keepGoing /\ restarts' = restarts /\ failed' = failed
      /\ phase' = phase /\ picked' = picked /\ pending' = pending /\ loading' = loading
  BY DEF Finish, runVars
<1>3. ToLoad' = ToLoad /\ ToLaunch' = ToLaunch
  BY <1>2 DEF ToLoad, ToLaunch
<1>4. PICK d \in Decisions : graph' = NotifyFrom(SetState(graph, Owner(t), "DONE"), t, "FINISH", d)
  BY DEF Finish
<1>5. /\ t \in Active(graph, ToLoad, ToLaunch, running) /\ t \notin ToLaunch
      /\ t \notin loading
  BY <1>1, <1>2 DEF Active, ToLaunch
<1>6. Attended(Lasting, graph, t) /\ graph.node[Owner(t)] \in AtWork
  BY <1>1, <1>5, ActiveIs DEF Sound, Acts
<1>7. Sound(root, Lasting, graph, ToLoad, ToLaunch, running \ {t})
  BY <1>1, <1>2, <1>5, LetGo
<1>8. /\ Sound(root, Lasting, graph', ToLoad, ToLaunch, running \ {t})
      /\ \A u \in loading \ {t} : graph'.node[u] = "TOLOAD"
      /\ failed => Marked(root, graph')
      /\ KeepsDone(graph, graph')
  BY <1>4, <1>5, <1>6, <1>7, TaskOver
<1> QED BY <1>1, <1>2, <1>3, <1>5, <1>8, FirstNext

LEMMA AbortFirst ==
  ASSUME Tame, First, NEW t \in Tasks \union Fakes, Abort(t)
  PROVE  First' /\ KeepsDone(graph, graph')
<1>1. /\ root \in Schemas /\ Lasting \in BOOLEAN /\ Suits(root, Lasting) /\ (Lasting <=> Lasts(root))
      /\ Dealt(ToLoad, ToLaunch, running)
      /\ Sound(root, Lasting, graph, ToLoad, ToLaunch, running)
      /\ running \intersect ToLaunch = {}
      /\ \A u \in loading : phase = "load" /\ u \in picked /\ graph.node[u] = "TOLOAD"
      /\ picked \union running \subseteq Tasks \union Fakes /\ pending \subseteq picked
      /\ phase \in {"select", "load", "launch", "over"}
  BY FirstIs DEF First, FirstTyped
<1>2. /\ t \in running /\ running' = running \ {t}
      /\ root' = root /\ keepGoing' = keepGoing /\ restarts' = restarts
      /\ phase' = phase /\ picked' = picked /\ pending' = pending /\ loading' = loading
  BY DEF Abort, runVars
<1>3. ToLoad' = ToLoad /\ ToLaunch' = ToLaunch
  BY <1>2 DEF ToLoad, ToLaunch
<1>4. PICK d \in Decisions : graph' = NotifyFrom(SetState(graph, Owner(t), "ERROR"), t, "ABORT", d)
  BY DEF Abort, Fail
<1>5. /\ t \in Active(graph, ToLoad, ToLaunch, running) /\ t \notin ToLaunch
      /\ t \notin loading
  BY <1>1, <1>2 DEF Active, ToLaunch
<1>6. Attended(Lasting, graph, t) /\ graph.node[Owner(t)] \in AtWork
  BY <1>1, <1>5, ActiveIs DEF Sound, Acts
<1>7. Sound(root, Lasting, graph, ToLoad, ToLaunch, running \ {t})
  BY <1>1, <1>2, <1>5, LetGo
<1>8. /\ Sound(root, Lasting, graph', ToLoad, ToLaunch, running \ {t})
      /\ \A u \in loading \ {t} : graph'.node[u] = "TOLOAD"
      /\ Marked(root, graph') /\ KeepsDone(graph, graph')
  BY <1>4, <1>5, <1>6, <1>7, TaskOver
<1> QED BY <1>1, <1>2, <1>3, <1>5, <1>8, FirstNext


(* From g to h tasks and fake nodes, that were at work, are still at work. *)
Goes(g, h) ==
  /\ h \in Graphs /\ h.arrived = g.arrived /\ h.runs = g.runs /\ h.errors = g.errors /\ h.ids = g.ids
  /\ \A n \in Nodes \union Fakes :
       h.node[n] # g.node[n] => n \in Tasks \union Fakes /\ g.node[n] \in AtWork /\ h.node[n] \in AtWork

LEMMA GoesKeeps ==
  ASSUME NEW r \in Schemas, NEW kg, NEW g \in Graphs, Ordered(r, kg, g), NEW h, Goes(g, h)
  PROVE  /\ Ordered(r, kg, h)
         /\ \A u \in Tasks \union Fakes : Attended(kg, g, u) => Attended(kg, h, u)
         /\ Marked(r, g) => Marked(r, h)
         /\ \A n \in Nodes : Hard(h, n) <=> Hard(g, n)
<1>1. /\ h \in Graphs /\ h.arrived = g.arrived /\ h.runs = g.runs /\ h.errors = g.errors /\ h.ids = g.ids
      /\ \A n \in Nodes : h.node[n] # g.node[n] =>
           n \in Tasks /\ g.node[n] \in AtWork /\ h.node[n] \in AtWork
  BY OwnerIs DEF Goes
<1>2. \A n \in Nodes : /\ g.node[n] \notin AtWork \/ n \notin Tasks => h.node[n] = g.node[n]
                       /\ h.node[n] \in AtWork <=> g.node[n] \in AtWork
  BY <1>1
<1>3. \A n \in Nodes : Inside(n) \subseteq Nodes /\ Below[n] \subseteq Nodes /\ Children[n] \subseteq Nodes
  BY InsideIs DEF Inside, Children
<1>4. \A c \in Controls : c \in Nodes /\ c \notin Tasks /\ h.node[c] = g.node[c]
  BY <1>2, OwnerIs, TaskIs
<1>5. \A n \in Nodes : Hard(h, n) <=> Hard(g, n)
  BY <1>1, <1>2 DEF Hard, AtWork
<1>6. \A n \in Nodes : Clean(h, n) <=> Clean(g, n)
  BY <1>3, <1>5 DEF Clean
<1>7. \A n \in Nodes : (Waiting(h, n) <=> Waiting(g, n)) /\ (Pristine(g, n) => Pristine(h, n))
  BY <1>1, <1>2, <1>3 DEF Waiting, Pristine, AtWork
<1>8. Flags(h)
  <2>1. \A l \in g.arrived : l[1] \in Nodes
    BY HierarchyAssumption DEF Graphs
  <2> QED BY <1>1, <1>2, <2>1 DEF Flags, Ordered, AtWork
<1>9. Unstarted(h)
  BY <1>2, <1>7 DEF Unstarted, Ordered, AtWork
<1>10. Cases(h)
  BY <1>1, <1>2, <1>3, <1>4 DEF Cases, Ordered, AtWork
<1>11. Ids(h)
  BY <1>1, <1>2, <1>3, <1>4, <1>6 DEF Ids, Ordered, ForEachs
<1>12. DoneIsClean(h)
  BY <1>2, <1>6 DEF DoneIsClean, Ordered, AtWork
<1>13. FakeIsClean(h)
  BY <1>1, <1>4, <1>6 DEF FakeIsClean, Ordered
<1>14. Causes(h)
  <2>1. \A n \in Nodes : Father[n] # NoNode => Father[n] \in Nodes
    BY ComposedAssumption
  <2> QED BY <1>2, <1>6, <2>1 DEF Causes, Ordered, AtWork
<1>15. Counted(kg, h) /\ Outside(r, h)
  BY <1>1, <1>2 DEF Counted, Outside, Ordered, AtWork
<1>16. Ordered(r, kg, h)
  BY <1>8, <1>9, <1>10, <1>11, <1>12, <1>13, <1>14, <1>15 DEF Ordered
<1>17. ASSUME NEW u \in Tasks \union Fakes, Attended(kg, g, u) PROVE Attended(kg, h, u)
  <2>1. ASSUME NEW k \in Chain(Owner(u)) PROVE Open(kg, h, k)
    <3>1. k \in Nodes /\ Open(kg, g, k)
      BY <1>17, OwnerIs, ChainIs DEF Attended
    <3>2. Father[k] # NoNode => Father[k] \in Nodes /\ Father[k] \notin Tasks
      BY <3>1, FatherIs, ComposedAssumption DEF Tasks
    <3> QED BY <1>1, <1>2, <1>6, <3>1, <3>2 DEF Open
  <2>2. u \in Fakes => Owner(u) \in Controls
    BY OwnerIs
  <2> QED BY <1>1, <1>4, <1>17, <2>1, <2>2 DEF Attended
<1>18. Marked(r, g) => Marked(r, h)
  <2>1. r \in Nodes
    BY ComposedAssumption
  <2> QED BY <1>3, <1>5, <2>1 DEF Marked
<1> QED BY <1>5, <1>16, <1>17, <1>18

LEMMA StartLaunchFirst ==
  ASSUME First, StartLaunch
  PROVE  First' /\ KeepsDone(graph, graph')
<1> DEFINE h == graph'
<1>1. /\ root \in Schemas /\ Lasting \in BOOLEAN
      /\ Dealt(ToLoad, ToLaunch, running)
      /\ Sound(root, Lasting, graph, ToLoad, ToLaunch, running)
      /\ running \intersect ToLaunch = {}
      /\ failed => Marked(root, graph)
      /\ picked \union running \subseteq Tasks \union Fakes
  BY FirstIs DEF First, FirstTyped
<1>2. /\ phase = "load" /\ phase' = "launch" /\ picked' = picked /\ pending' = picked
      /\ loading' = {} /\ running' = running /\ failed' = failed
      /\ root' = root /\ keepGoing' = keepGoing /\ restarts' = restarts
      /\ h = [graph EXCEPT !.node = [n \in Nodes \union Fakes |->
                IF n \in picked /\ @[n] = "TOLOAD" THEN "TOACTIVATE" ELSE @[n]]]
  BY DEF StartLaunch, runVars
<1>3. ToLoad = picked /\ ToLaunch = picked /\ ToLoad' = {} /\ ToLaunch' = picked
  BY <1>2 DEF ToLoad, ToLaunch
<1>4. /\ h \in Graphs /\ h.arrived = graph.arrived /\ h.runs = graph.runs
      /\ h.errors = graph.errors /\ h.ids = graph.ids
      /\ \A n \in Nodes \union Fakes :
           h.node[n] = IF n \in picked /\ graph.node[n] = "TOLOAD" THEN "TOACTIVATE" ELSE graph.node[n]
  <2>1. graph \in Graphs
    BY <1>1 DEF Sound
  <2>2. DEFINE f == [n \in Nodes \union Fakes |->
                       IF n \in picked /\ graph.node[n] = "TOLOAD" THEN "TOACTIVATE" ELSE graph.node[n]]
  <2>3. f \in [Nodes \union Fakes -> NodeStates]
    BY <2>1 DEF Graphs, NodeStates
  <2>4. h = [graph EXCEPT !.node = f]
    BY <1>2
  <2> HIDE DEF h
  <2>5. h \in Graphs /\ h.node = f /\ h.arrived = graph.arrived /\ h.runs = graph.runs
        /\ h.errors = graph.errors /\ h.ids = graph.ids
    <3> HIDE DEF f
    <3> QED BY <2>1, <2>3, <2>4 DEF Graphs
  <2> QED BY <2>5
<1> HIDE DEF h
<1>5. Goes(graph, h)
  BY <1>1, <1>4 DEF Goes, AtWork
<1>6. /\ Ordered(root, Lasting, h)
      /\ \A u \in Tasks \union Fakes : Attended(Lasting, graph, u) => Attended(Lasting, h, u)
      /\ Marked(root, graph) => Marked(root, h)
  BY <1>1, <1>5, GoesKeeps DEF Sound
<1>7. running \subseteq Nodes \union Fakes /\ picked \subseteq Nodes \union Fakes
  BY <1>1, TaskIs
<1>8. Active(h, {}, picked, running) = Active(graph, picked, picked, running)
  BY <1>4, <1>7 DEF Active
<1>9. Active(graph, picked, picked, running) \subseteq Tasks \union Fakes
  BY <1>1 DEF Active
<1>10. Acts(Lasting, h, {}, picked, running)
  BY <1>1, <1>3, <1>4, <1>6, <1>7, <1>8, <1>9 DEF Acts, Sound
<1>11. Lapsed(Lasting, h, {}, picked, running)
  BY <1>1, <1>3, <1>8 DEF Lapsed, Sound
<1>12. Sound(root, Lasting, h, ToLoad', ToLaunch', running')
  BY <1>2, <1>3, <1>4, <1>6, <1>10, <1>11 DEF Sound
<1>13. KeepsDone(graph, h)
  BY <1>4 DEF KeepsDone
<1> QED BY <1>1, <1>2, <1>3, <1>6, <1>12, <1>13, FirstNext DEF h

LEMMA LaunchFirst ==
  ASSUME First, NEW t \in Tasks \union Fakes, Launch(t)
  PROVE  First' /\ KeepsDone(graph, graph')
<1>1. /\ root \in Schemas /\ Lasting \in BOOLEAN
      /\ Dealt(ToLoad, ToLaunch, running)
      /\ Sound(root, Lasting, graph, ToLoad, ToLaunch, running)
      /\ running \intersect ToLaunch = {}
      /\ \A u \in loading : phase = "load"
      /\ failed => Marked(root, graph)
      /\ picked \union running \subseteq Tasks \union Fakes /\ pending \subseteq picked
  BY FirstIs DEF First, FirstTyped
<1>2. /\ phase = "launch" /\ t \in pending /\ pending' = pending \ {t} /\ phase' = phase
      /\ picked' = picked /\ loading' = loading /\ failed' = failed
      /\ root' = root /\ keepGoing' = keepGoing /\ restarts' = restarts
  BY DEF Launch, runVars
<1>3. ToLoad = {} /\ ToLaunch = pending /\ ToLoad' = {} /\ ToLaunch' = pending \ {t}
  BY <1>2 DEF ToLoad, ToLaunch
<1>4. /\ \A u \in pending : graph.node[u] = "TOACTIVATE" \/ u \in running \/ u \in Unloadable
      /\ t \notin running
  BY <1>1, <1>2, <1>3 DEF Sound, Lapsed, Active
<1>5. CASE /\ graph.node[t] = "TOACTIVATE" /\ graph' = SetState(graph, t, "ACTIVATED")
           /\ running' = running \union {t}
  <2> DEFINE h == graph'
  <2>1. graph \in Graphs /\ t \in Nodes \union Fakes /\ "ACTIVATED" \in NodeStates
    BY <1>1, TaskIs DEF Sound, NodeStates
  <2>2. /\ h \in Graphs /\ h.node[t] = "ACTIVATED"
        /\ \A n \in (Nodes \union Fakes) \ {t} : h.node[n] = graph.node[n]
        /\ h.arrived = graph.arrived /\ h.runs = graph.runs
        /\ h.errors = graph.errors /\ h.ids = graph.ids
    BY <1>5, <2>1, SetIs
  <2> HIDE DEF h
  <2>3. Goes(graph, h)
    BY <1>5, <2>2 DEF Goes, AtWork
  <2>4. /\ Ordered(root, Lasting, h)
        /\ \A u \in Tasks \union Fakes : Attended(Lasting, graph, u) => Attended(Lasting, h, u)
        /\ Marked(root, graph) => Marked(root, h)
    BY <1>1, <2>3, GoesKeeps DEF Sound
  <2>5. pending \subseteq Nodes \union Fakes /\ running \subseteq Nodes \union Fakes
    BY <1>1, TaskIs
  <2>6. /\ Active(h, {}, pending \ {t}, running \union {t}) = Active(graph, {}, pending, running)
    BY <1>2, <1>5, <2>2, <2>5 DEF Active
  <2>7. Active(graph, {}, pending, running) \subseteq Tasks \union Fakes
    BY <1>1 DEF Active
  <2>8. Acts(Lasting, h, {}, pending \ {t}, running \union {t})
    <3>1. \A u \in running : h.node[u] = "ACTIVATED"
      BY <1>1, <1>4, <2>2, <2>5 DEF Sound, Acts
    <3> QED BY <1>1, <1>3, <2>2, <2>4, <2>6, <2>7, <3>1 DEF Acts, Sound
  <2>9. Lapsed(Lasting, h, {}, pending \ {t}, running \union {t})
    BY <1>1, <1>3, <2>6 DEF Lapsed, Sound
  <2>10. KeepsDone(graph, h)
    BY <1>5, <2>2 DEF KeepsDone
  <2>11. Sound(root, Lasting, h, ToLoad', ToLaunch', running')
    BY <1>3, <1>5, <2>2, <2>4, <2>8, <2>9 DEF Sound
  <2> QED BY <1>1, <1>2, <1>3, <1>5, <2>4, <2>10, <2>11, FirstNext DEF First, FirstTyped, h
<1>6. CASE graph.node[t] # "TOACTIVATE" /\ UNCHANGED <<graph, running>>
  <2>1. Active(graph, {}, pending \ {t}, running) = Active(graph, {}, pending, running)
    BY <1>6 DEF Active
  <2>2. Sound(root, Lasting, graph', ToLoad', ToLaunch', running')
    BY <1>1, <1>3, <1>6, <2>1 DEF Sound, Acts, Lapsed
  <2> QED BY <1>1, <1>2, <1>3, <1>6, <2>2, FirstNext DEF First, FirstTyped, KeepsDone
<1> QED BY <1>5, <1>6 DEF Launch


(* The turns of RunB end, and the run with them.                           *)
LEMMA EndFirst ==
  ASSUME First, EndTurn \/ EndRun \/ UNCHANGED vars
  PROVE  First'
<1>1. /\ root \in Schemas /\ Lasting \in BOOLEAN
      /\ Dealt(ToLoad, ToLaunch, running)
      /\ Sound(root, Lasting, graph, ToLoad, ToLaunch, running)
      /\ running \intersect ToLaunch = {}
      /\ \A u \in loading : phase = "load" /\ u \in picked /\ graph.node[u] = "TOLOAD"
      /\ failed => Marked(root, graph)
      /\ picked \union running \subseteq Tasks \union Fakes /\ pending \subseteq picked
      /\ phase \in {"select", "load", "launch", "over"}
  BY FirstIs DEF First, FirstTyped
<1>2. CASE EndTurn \/ EndRun
  <2>1. /\ phase # "load" /\ phase' \in {"select", "over"}
        /\ pending' \subseteq picked' /\ picked' \subseteq picked
        /\ root' = root /\ keepGoing' = keepGoing /\ restarts' = restarts /\ graph' = graph
        /\ loading' = loading /\ running' = running /\ failed' = failed
    BY <1>1, <1>2 DEF EndTurn, EndRun, runVars
  <2>2. ToLoad = {} /\ ToLaunch = {} /\ ToLoad' = {} /\ ToLaunch' = {}
    BY <1>2, <2>1 DEF EndTurn, EndRun, ToLoad, ToLaunch
  <2> QED BY <1>1, <2>1, <2>2, FirstNext
<1>3. CASE UNCHANGED vars
  <2>1. /\ phase' = phase /\ picked' = picked /\ pending' = pending
        /\ root' = root /\ keepGoing' = keepGoing /\ restarts' = restarts /\ graph' = graph
        /\ loading' = loading /\ running' = running /\ failed' = failed
    BY <1>3 DEF vars, runVars
  <2>2. ToLoad' = ToLoad /\ ToLaunch' = ToLaunch
    BY <2>1 DEF ToLoad, ToLaunch
  <2> QED BY <1>1, <2>1, <2>2, FirstNext
<1> QED BY <1>2, <1>3

(* The later runs are not those FirstRun is about.                         *)
LEMMA LaterIs ==
  ASSUME FirstTyped, Next \/ UNCHANGED vars, restarts # 0 \/ Restart \/ Reload
  PROVE  root' = root /\ keepGoing' = keepGoing /\ restarts' \in Nat /\ restarts' # 0
<1>1. CASE Restart \/ Reload
  BY <1>1 DEF Restart, Reload, RestartFrom, FirstTyped
<1>2. CASE ~(Restart \/ Reload) /\ restarts # 0
  <2>1. root' = root /\ keepGoing' = keepGoing /\ restarts' = restarts
    BY <1>2 DEF Next, Advance, Over, Select, StartLaunch, EndTurn, EndRun, BeginLoad, EndLoad,
                Launch, Finish, Abort, vars, runVars
  <2> QED BY <1>2, <2>1 DEF FirstTyped
<1> QED BY <1>1, <1>2

LEMMA FirstRunStep ==
  ASSUME Tame, FirstTyped, FirstRun, [Next]_vars
  PROVE  (FirstTyped /\ FirstRun)'
<1>1. CASE restarts # 0 \/ Restart \/ Reload
  BY <1>1, LaterIs DEF FirstTyped, FirstRun
<1>2. CASE restarts = 0 /\ ~(Restart \/ Reload)
  <2>1. First
    BY <1>2 DEF First
  <2>2. First'
    <3>1. CASE Select
      BY <2>1, <3>1, SelectFirst
    <3>2. CASE StartLaunch
      BY <2>1, <3>2, StartLaunchFirst
    <3>3. CASE EndTurn \/ EndRun \/ UNCHANGED vars
      BY <2>1, <3>3, EndFirst
    <3>4. ASSUME NEW t \in Tasks \union Fakes,
                 BeginLoad(t) \/ EndLoad(t) \/ Launch(t) \/ Finish(t) \/ Abort(t)
          PROVE  First'
      BY <2>1, <3>4, BeginLoadFirst, EndLoadFirst, LaunchFirst, FinishFirst, AbortFirst
    <3> QED BY <1>2, <3>1, <3>2, <3>3, <3>4 DEF Next, Advance, Over
  <2> QED BY <2>2 DEF First
<1> QED BY <1>1, <1>2

(* The first run of any schema that is tame is in order: what is at work   *)
(* is in a structure that runs it, nothing that waits has begun, and a     *)
(* failure is found again until the run is over.                           *)
THEOREM FirstRunInvariant ==
  ASSUME Tame
  PROVE  Spec => [](FirstTyped /\ FirstRun)
<1>1. Init => FirstTyped /\ FirstRun
  BY InitFirst DEF First
<1>2. FirstTyped /\ FirstRun /\ [Next]_vars => (FirstTyped /\ FirstRun)'
  BY FirstRunStep
<1> QED BY <1>1, <1>2, PTL DEF Spec

-----------------------------------------------------------------------------
(* What it says of the tasks that run.                                     *)

LEMMA FirstInOrder ==
  ASSUME First
  PROVE  RunsInOrder
<1>1. /\ root \in Schemas /\ Lasting \in BOOLEAN
      /\ Dealt(ToLoad, ToLaunch, running)
      /\ Sound(root, Lasting, graph, ToLoad, ToLaunch, running)
  BY FirstIs
<1>2. graph \in Graphs /\ Ordered(root, Lasting, graph)
  BY <1>1 DEF Sound
<1> SUFFICES ASSUME NEW t \in running, NEW n \in Chain(Owner(t))
             PROVE  /\ AllDone(graph, Predecessors[n])
                    /\ Father[n] # NoNode =>
                         CASE Kind[Father[n]] = "bloc"   -> TRUE
                           [] Kind[Father[n]] = "switch" -> graph.runs[Father[n]] = n
                           [] OTHER                      -> graph.runs[Father[n]] = "body"
  BY DEF RunsInOrder, Chain
<1>3. t \in Active(graph, ToLoad, ToLaunch, running)
  BY DEF Active
<1>4. /\ Owner(t) \in Nodes /\ graph.node[Owner(t)] \in AtWork
      /\ OpenChain(Lasting, graph, Owner(t))
  BY <1>1, <1>3, ActiveIs DEF OpenChain
<1>5. n \in Nodes /\ ~Waiting(graph, n)
  <2>1. CASE n = Owner(t)
    BY <1>2, <1>4, <2>1, ActiveIsInside
  <2>2. CASE n \in Ancestors[Owner(t)]
    BY <1>2, <1>4, <2>2, AroundIs DEF Ordered
  <2> QED BY <2>1, <2>2 DEF Chain
<1>6. AllDone(graph, Predecessors[n])
  <2> SUFFICES ASSUME NEW p \in Predecessors[n] PROVE graph.node[p] = "DONE"
    BY DEF AllDone
  <2>1. <<p, n>> \in graph.arrived
    BY <1>5 DEF Waiting
  <2> QED BY <1>2, <2>1 DEF Ordered, Flags
<1>7. Open(Lasting, graph, n)
  BY <1>4 DEF OpenChain
<1> QED BY <1>6, <1>7 DEF Open

LEMMA FirstIsQuiet ==
  ASSUME First
  PROVE  DoneMeansQuiet
<1>1. /\ root \in Schemas /\ Lasting \in BOOLEAN
      /\ Dealt(ToLoad, ToLaunch, running)
      /\ Sound(root, Lasting, graph, ToLoad, ToLaunch, running)
      /\ \A t \in loading : phase = "load" /\ t \in picked /\ graph.node[t] = "TOLOAD"
  BY FirstIs
<1>2. graph \in Graphs /\ Ordered(root, Lasting, graph)
  BY <1>1 DEF Sound
<1> SUFFICES ASSUME NEW n \in Nodes, graph.node[n] = "DONE", NEW t \in loading \union running,
                    n \in Ancestors[Owner(t)] \/ t = n
             PROVE  FALSE
  BY DEF DoneMeansQuiet
<1>3. t \in Active(graph, ToLoad, ToLaunch, running)
  BY <1>1 DEF Active, ToLoad
<1>4. /\ Owner(t) \in Nodes /\ graph.node[Owner(t)] \in AtWork
      /\ OpenChain(Lasting, graph, Owner(t))
  BY <1>1, <1>3, ActiveIs DEF OpenChain
<1>5. CASE t = n
  BY <1>4, <1>5, OwnerIs DEF AtWork
<1>6. CASE n \in Ancestors[Owner(t)]
  BY <1>2, <1>4, <1>6, AroundIs DEF Ordered
<1> QED BY <1>5, <1>6

LEMMA FirstReachesRoot ==
  ASSUME First
  PROVE  FailureReachesRoot
<1>1. root \in Nodes /\ Ordered(root, Lasting, graph) /\ (failed => Marked(root, graph))
  BY FirstIs, ComposedAssumption DEF Sound
<1> QED BY <1>1 DEF Ordered, DoneIsClean, Clean, Marked, FailureReachesRoot

(* In the first run a task runs only when what its node and the nodes      *)
(* around it wait for is done, and in structures that run it               *)
(* (ElementaryNode::getReadyTasks, ComposedNode::updateStateFrom).         *)
THEOREM FirstRunsInOrder ==
  ASSUME Tame
  PROVE  Spec => [](restarts = 0 => RunsInOrder)
<1>1. FirstTyped /\ FirstRun => (restarts = 0 => RunsInOrder)
  BY FirstInOrder DEF First
<1> QED BY <1>1, FirstRunInvariant, PTL

(* In the first run a node that is DONE has no task in progress below it   *)
(* (ForEachLoop::updateStateOnFinishedEventFrom, Bloc::areAllSubNodesDone).*)
THEOREM FirstDoneMeansQuiet ==
  ASSUME Tame
  PROVE  Spec => [](restarts = 0 => DoneMeansQuiet)
<1>1. FirstTyped /\ FirstRun => (restarts = 0 => DoneMeansQuiet)
  BY FirstIsQuiet DEF First
<1> QED BY <1>1, FirstRunInvariant, PTL

(* In the first run the failure of a task, at any depth, is never lost     *)
(* (ComposedNode::notifyFrom, DynParaLoop::_failedCounter).                *)
THEOREM FirstFailureReachesRoot ==
  ASSUME Tame
  PROVE  Spec => [](restarts = 0 => FailureReachesRoot)
<1>1. FirstTyped /\ FirstRun => (restarts = 0 => FailureReachesRoot)
  BY FirstReachesRoot DEF First
<1> QED BY <1>1, FirstRunInvariant, PTL

-----------------------------------------------------------------------------
(* What is done is kept.                                                   *)

(* The graph after resetState: what has not finished is new.               *)
LEMMA ResetIs ==
  ASSUME NEW g \in Graphs, root \in Nodes
  PROVE  LET h == ResetState(g)
         IN  /\ h \in Graphs /\ KeepsDone(g, h)
             /\ \A n \in Nodes : h.node[n] \in {"READY", g.node[n]}
<1> DEFINE new == Deleted(Cleaned(g))
           reset == ToReset(g) \ new
           fresh == Fresh(g, new)
           node == [n \in Nodes \union Fakes |-> IF Owner(n) \in new THEN "READY" ELSE g.node[n]]
           arrived == {l \in g.arrived : l[2] \notin new}
           runs == [c \in Controls |-> IF c \in new THEN "nothing" ELSE g.runs[c]]
           turns == [c \in Controls |-> IF c \in new THEN 0 ELSE g.turns[c]]
           count == [c \in Controls |-> IF c \in new THEN NoValue ELSE g.count[c]]
           errors == [c \in Controls |-> IF c \in new THEN 0 ELSE g.errors[c]]
           current == [c \in Controls |-> IF c \in new \union Cleaned(g) THEN 0 ELSE g.current[c]]
           ids == [n \in Nodes |-> IF n \in new THEN NotRunning ELSE g.ids[n]]
           after == [n \in Nodes \union Fakes |-> IF n \in reset THEN "READY" ELSE node[n]]
           gates == arrived \union Precursors(g, reset)
<1>1. /\ node \in [Nodes \union Fakes -> NodeStates] /\ after \in [Nodes \union Fakes -> NodeStates]
      /\ arrived \subseteq Links /\ gates \subseteq Links
      /\ runs \in [Controls -> Nodes \union {"nothing", "body"} \union FakeRuns]
      /\ turns \in [Controls -> Int] /\ count \in [Controls -> Int] /\ current \in [Controls -> Nat]
      /\ ids \in [Nodes -> Int] /\ errors \in [Controls -> Nat]
  BY DEF Graphs, NodeStates, NoValue, NotRunning, Precursors
<1>2. fresh = [g EXCEPT !.node = node, !.arrived = arrived, !.runs = runs, !.turns = turns,
                        !.count = count, !.errors = errors, !.current = current, !.ids = ids]
  BY DEF Fresh
<1> HIDE DEF node, arrived, runs, turns, count, errors, current, ids
<1>3. fresh \in Graphs /\ fresh.node = node /\ fresh.arrived = arrived
  <2> HIDE DEF fresh
  <2> QED BY <1>1, <1>2 DEF Graphs
<1>4. ResetState(g) = [fresh EXCEPT !.node = after, !.arrived = gates]
  BY <1>3 DEF ResetState
<1> HIDE DEF fresh
<1>5. ResetState(g) \in Graphs /\ ResetState(g).node = after
  <2> HIDE DEF after, gates
  <2> QED BY <1>1, <1>3, <1>4 DEF Graphs
<1>6. ASSUME NEW n \in Nodes, ~InLoop(n), g.node[n] = "DONE"
      PROVE  after[n] = "DONE"
  <2>1. n \notin new
    <3> SUFFICES ASSUME NEW c \in Cleaned(g), n \in Below[c] PROVE FALSE
      BY DEF Deleted
    <3> QED BY <1>6, OwnerIs, InsideIs DEF Cleaned, InLoop
  <2>2. n \notin ToReset(g)
    BY <1>6 DEF ToReset, Unfinished
  <2> QED BY <1>6, <2>1, <2>2, OwnerIs DEF node
<1>7. \A n \in Nodes : after[n] \in {"READY", g.node[n]}
  BY DEF node
<1> QED BY <1>5, <1>6, <1>7 DEF KeepsDone

(* The graph another process has read.                                     *)
LEMMA LoadedIs ==
  ASSUME NEW g \in Graphs
  PROVE  LET h == Loaded(g)
         IN  /\ h \in Graphs /\ KeepsDone(g, h)
             /\ \A n \in Nodes : h.node[n] \in {"READY", g.node[n]}
<1> DEFINE saved == Nodes \ Deleted(Controls \intersect {c \in Nodes : Kind[c] = "foreach"})
           i == InitialGraph
           node == [n \in Nodes \union Fakes |-> IF n \in saved THEN g.node[n] ELSE i.node[n]]
           arrived == Precursors(g, saved)
           turns == [c \in Controls |-> IF c \in saved THEN g.turns[c] ELSE i.turns[c]]
           count == [c \in Controls |-> IF c \in saved THEN g.count[c] ELSE i.count[c]]
<1>1. i \in Graphs
  <2>1. NoValue \in Int /\ NotRunning \in Int /\ "READY" \in NodeStates /\ 0 \in Nat /\ 0 \in Int
    BY DEF NoValue, NotRunning, NodeStates
  <2> QED BY <2>1 DEF InitialGraph, Graphs
<1>2. Loaded(g) = [i EXCEPT !.node = node, !.arrived = arrived, !.turns = turns, !.count = count]
  BY DEF Loaded
<1> HIDE DEF i
<1>3. /\ node \in [Nodes \union Fakes -> NodeStates] /\ arrived \subseteq Links
      /\ turns \in [Controls -> Int] /\ count \in [Controls -> Int]
  <2> HIDE DEF saved
  <2> QED BY <1>1 DEF Graphs, Precursors
<1>4. Loaded(g) \in Graphs /\ Loaded(g).node = node
  <2> HIDE DEF node, arrived, turns, count
  <2> QED BY <1>1, <1>2, <1>3 DEF Graphs
<1>5. ASSUME NEW n \in Nodes, ~InLoop(n)
      PROVE  node[n] = g.node[n]
  <2>1. n \in saved
    <3> SUFFICES ASSUME NEW c \in Nodes, Kind[c] = "foreach", n \in Below[c] PROVE FALSE
      BY DEF Deleted
    <3> QED BY <1>5, InsideIs DEF InLoop
  <2> QED BY <2>1
<1>6. \A n \in Nodes : node[n] \in {"READY", g.node[n]}
  BY DEF i, InitialGraph
<1> QED BY <1>4, <1>5, <1>6 DEF KeepsDone

(* Unless it is spoiled, the run that a restart begins has kept what was   *)
(* done.                                                                   *)
LEMMA RestartKeepsDone ==
  ASSUME NEW g \in Graphs, root \in Schemas, g.node[root] # "DONE", RestartFrom(g), ~spoiled'
  PROVE  KeepsDone(g, graph')
<1> DEFINE i == ResetState(g)
<1>1. PICK start \in Kept(g) : graph' = ExUpdateState(i, {root}, start)
  BY DEF RestartFrom
<1>2. start \in Values(Controls \intersect Below[root])
  BY DEF Kept
<1>3. /\ root \in Nodes /\ i \in Graphs /\ KeepsDone(g, i)
      /\ i.node[root] # "DONE"
  BY ResetIs, ComposedAssumption
<1> HIDE DEF i
<1> DEFINE R == Reached(i, {root}, start)
<1>4. \A n \in Nodes \ Controls : i.node[n] = "DONE" => graph'.node[n] = "DONE"
  <2>1. {root} \subseteq Inside(root) /\ \A n \in {root} : ~StaysDone(i, n)
    BY <1>3 DEF Inside, StaysDone
  <2>2. /\ \A n \in Nodes \ R : graph'.node[n] = i.node[n]
        /\ \A n \in R : graph'.node[n] = IF n \notin Tasks THEN "ACTIVATED"
                                          ELSE IF i.node[n] = "READY" THEN "TOLOAD" ELSE i.node[n]
    <3>1. \A a, b \in {root} : Father[a] = Father[b]
      OBVIOUS
    <3> QED BY <1>1, <1>2, <1>3, <2>1, <3>1, StartedIs
  <2>3. \A n \in R : n = root \/ ~StaysDone(i, n)
    <3>1. \A n \in R \ {root} : Entered(i, n, start)
      <4>1. {root} \in SUBSET Nodes
        BY <1>3
      <4> QED BY <2>1, <4>1, ReachedIs
    <3> HIDE DEF R
    <3> QED BY <3>1 DEF Entered
  <2>4. \A n \in Nodes \ Controls : n \in Tasks \/ Kind[n] = "bloc"
    BY ComposedAssumption, HierarchyAssumption DEF Tasks
  <2> HIDE DEF R
  <2> QED BY <1>3, <2>2, <2>3, <2>4 DEF StaysDone
<1>5. \A c \in Controls : g.node[c] = "DONE" => graph'.node[c] = "DONE"
  BY DEF RestartFrom, Spoils
<1> QED BY <1>3, <1>4, <1>5 DEF KeepsDone

LEMMA StepKeepsDone ==
  ASSUME Tame, First, [Next]_vars, ~spoiled'
  PROVE  KeepsDone(graph, graph')
<1>1. graph \in Graphs /\ root \in Schemas
  BY DEF First, FirstTyped
<1>2. CASE Restart
  <2> graph.node[root] # "DONE" /\ RestartFrom(graph)
    BY <1>2 DEF Restart
  <2> QED BY <1>1, RestartKeepsDone
<1>3. CASE Reload
  <2>1. /\ Loaded(graph) \in Graphs /\ KeepsDone(graph, Loaded(graph))
        /\ Loaded(graph).node[root] # "DONE"
    <3>1. root \in Nodes /\ graph.node[root] # "DONE"
      BY <1>1, <1>3, ComposedAssumption DEF Reload
    <3> QED BY <1>1, <3>1, LoadedIs
  <2>2. KeepsDone(Loaded(graph), graph')
    BY <1>1, <1>3, <2>1, RestartKeepsDone DEF Reload
  <2> QED BY <2>1, <2>2 DEF KeepsDone
<1>4. CASE Select \/ EndTurn \/ EndRun \/ UNCHANGED vars
  BY <1>4 DEF Select, EndTurn, EndRun, vars, KeepsDone
<1>5. CASE StartLaunch
  BY <1>5, StartLaunchFirst
<1>6. ASSUME NEW t \in Tasks \union Fakes,
             BeginLoad(t) \/ EndLoad(t) \/ Launch(t) \/ Finish(t) \/ Abort(t)
      PROVE  KeepsDone(graph, graph')
  BY <1>6, BeginLoadFirst, EndLoadFirst, LaunchFirst, FinishFirst, AbortFirst
<1> QED BY <1>2, <1>3, <1>4, <1>5, <1>6 DEF Next, Advance, Over

(* What is done outside the loops is done for good, in the first run and   *)
(* through the restart that follows it, whether in the same process or in  *)
(* another (Bloc::updateStateOnFailedEventFrom, ComposedNode::resetState,  *)
(* graphParser::onEnd): the second conjunct says that no step is taken     *)
(* after that restart.                                                     *)
THEOREM FirstDoneIsKept ==
  ASSUME Tame
  PROVE  Spec /\ [][restarts = 0]_vars => DoneIsKept
<1>1. FirstTyped /\ FirstRun /\ [Next]_vars /\ [restarts = 0]_vars =>
        [~spoiled' => KeepsDone(graph, graph')]_vars
  BY StepKeepsDone DEF First
<1> QED BY <1>1, FirstRunInvariant, PTL DEF Spec, DoneIsKept

-----------------------------------------------------------------------------
(* The first run ends with its graph: what has not ended has something in  *)
(* it that is at work, down to a task that RunB knows.                     *)

(* A schema that may stop at a failure has no ForEachLoop, which a task of *)
(* another branch would start again (ComposedNode.cxx:1436).  The body of  *)
(* a WhileLoop is not a structure, whose fake node the loop would take for *)
(* its body (WhileLoop.cxx:117).  A bloc has nodes, one of which will be   *)
(* the last to end.  And a ForEachLoop that may have nothing to run is in  *)
(* no loop: it never forgets its fake node (ForEachLoop.cxx:542).          *)
Sturdy ==
  /\ \A s \in Schemas : FALSE \in KeepGoings[s] => ForEachs \intersect Below[s] = {}
  /\ \A c \in Controls : Kind[c] = "while" => Children[c] \intersect Controls = {}
  /\ \A n \in Nodes : Kind[n] = "bloc" => Children[n] # {}
  /\ \A c \in ForEachs : /\ Options[c] \subseteq Nat
                         /\ 0 \in Options[c] \/ Branches[c] = <<>> => ~InLoop(c)

(* x is the node that has ended and whose father has not answered, if any. *)

(* A bloc at work has a node that has not ended; those that are not        *)
(* started wait for a node before them.                                    *)
BlocGoes(g, f, x) ==
  /\ x \in Children[f] \/ \E n \in Children[f] : g.node[n] \notin Ended
  /\ \A n \in Children[f] :
       /\ g.node[n] = "READY" => Waiting(g, n)
       /\ \A p \in Predecessors[n] \ {x} :
            /\ g.node[p] = "DONE" => <<p, n>> \in g.arrived
            /\ g.node[p] \in {"FAILED", "ERROR"} => g.node[n] = "FAILED"

(* A structure at work has a node at work, unless it has nothing to run.   *)
ControlGoes(g, f, x) ==
  g.runs[f] \notin FakeRuns =>
    x \in Children[f] \/ \E n \in Children[f] : g.node[n] \in AtWork /\ Runs(g, n)

ForEachGoes(g, f, x) ==
  \A n \in Children[f] \ {x} : g.ids[n] # NotRunning => g.node[n] \in AtWork

Settled(g, f, x) ==
  g.node[f] = "ACTIVATED" =>
    /\ Kind[f] = "bloc" => BlocGoes(g, f, x)
    /\ f \in Controls => ControlGoes(g, f, x)
    /\ f \in ForEachs => ForEachGoes(g, f, x)

(* A structure with nothing to run has its fake node to launch, or running.*)
FakeHeld(g, ru) ==
  \A c \in Controls : g.node[c] = "ACTIVATED" /\ g.runs[c] \in FakeRuns =>
    g.node[FakeOf[c]] = "TOACTIVATE" \/ FakeOf[c] \in ru

(* A task that is activated has its thread.                                *)
TaskHeld(g, ru) == \A t \in Tasks : g.node[t] = "ACTIVATED" => t \in ru

(* Only tasks are loaded and launched, and nothing puts a bloc in error.   *)
Typed(g) ==
  \A n \in Nodes \ Tasks : /\ g.node[n] \notin {"TOLOAD", "TOACTIVATE"}
                           /\ Kind[n] = "bloc" => g.node[n] # "ERROR"

(* The ForEachLoops that have had nothing to run, and will not be run again.*)
Spent(g) == \A c \in ForEachs : g.runs[c] \in FakeRuns => ~InLoop(c) /\ g.node[c] # "READY"

(* A node that still waits fails only for the failure of a node before it. *)
Blamed(g) ==
  \A n \in Nodes : Waiting(g, n) /\ g.node[n] = "FAILED" =>
    \E p \in Predecessors[n] : g.node[p] \in {"FAILED", "ERROR"}

(* fl: something has failed.                                               *)
Untroubled(fl, g) ==
  ~fl => /\ \A n \in Nodes : g.node[n] \notin {"FAILED", "ERROR"}
         /\ \A c \in Controls : g.errors[c] = 0

Steady(g, ru, fl) ==
  FakeHeld(g, ru) /\ TaskHeld(g, ru) /\ Typed(g) /\ Spent(g) /\ Blamed(g) /\ Untroubled(fl, g)

(* The graph g of r, where the tasks of ru run, has something to do for    *)
(* every node that has not ended, but for the father of x.                 *)
Going(r, g, ru, x, fl) ==
  Steady(g, ru, fl) /\ g.node[r] # "READY" /\ \A f \in Nodes : Settled(g, f, x)

FirstGoing ==
  restarts = 0 =>
    /\ Going(root, graph, running, NoNode, failed)
    /\ phase = "over" => running = {} /\ graph.node[root] \in Ended

-----------------------------------------------------------------------------
(* A start, and the structures around it.                                  *)

LEMMA ChildIs ==
  ASSUME NEW k \in Nodes, NEW n \in Children[k]
  PROVE  n \in Nodes /\ Father[n] = k /\ k # NoNode /\ n \in Below[k] /\ n # k
<1>1. n \in Nodes /\ Father[n] = k /\ k # NoNode
  BY ComposedAssumption DEF Children
<1> QED BY <1>1, FatherIs, InsideIs

(* What a start reaches is ready, and goes.                                *)
LEMMA StartSettles ==
  ASSUME Sturdy, NEW r \in Schemas, NEW d \in Values(Controls \intersect Below[r]),
         NEW g \in Graphs, NEW ns, \A n \in ns : g.node[n] = "READY", NEW f, \A n \in ns : Father[n] = f,
         NEW h, Started(r, g, h, Reached(g, ns, d), ns, d),
         ns \subseteq Nodes, \A n \in ns : ~StaysDone(g, n),
         NEW k \in Nodes \ {f}, Settled(g, k, NoNode)
  PROVE  Settled(h, k, NoNode)
<1> DEFINE R == Reached(g, ns, d)
<1>1. /\ \A m \in R : g.node[m] = "READY"
      /\ \A m \in R : h.node[m] \in {"ACTIVATED", "TOLOAD"}
      /\ \A m \in Nodes \ R : h.node[m] = g.node[m]
      /\ R \subseteq Nodes
  BY DEF Started
<1>2. SUFFICES ASSUME h.node[k] = "ACTIVATED"
               PROVE  /\ Kind[k] = "bloc" => BlocGoes(h, k, NoNode)
                      /\ k \in Controls => ControlGoes(h, k, NoNode)
                      /\ k \in ForEachs => ForEachGoes(h, k, NoNode)
  BY DEF Settled
<1>3. \A n \in Children[k] : n \in Nodes /\ Father[n] = k /\ n \in Below[k]
  BY ChildIs
<1>4. \A n \in Children[k] : \A p \in Predecessors[n] : p \in Children[k]
  BY <1>3, LinkIs DEF Children, Predecessors
<1>5. CASE k \in R
  <2>1. \A n \in Children[k] : g.node[n] = "READY"
    BY <1>3, <1>5 DEF Started
  <2>2. \A n \in Children[k] : IF n \in R THEN h.node[n] \in {"ACTIVATED", "TOLOAD"}
                                          ELSE h.node[n] = "READY" /\ ~Entered(g, n, d)
    <3> SUFFICES ASSUME NEW n \in Children[k], n \notin R PROVE h.node[n] = "READY" /\ ~Entered(g, n, d)
      BY <1>1
    <3>1. ~Entered(g, n, d)
      BY <1>3, <1>5, ReachedDown
    <3> QED BY <1>1, <1>3, <2>1, <3>1
  <2>3. ASSUME Kind[k] = "bloc" PROVE BlocGoes(h, k, NoNode)
    <3>1. \E n \in Children[k] : h.node[n] \notin Ended
      BY <2>2, <2>3 DEF Sturdy, Ended
    <3>2. \A n \in Children[k] : h.node[n] = "READY" => Waiting(h, n)
      <4> SUFFICES ASSUME NEW n \in Children[k], h.node[n] = "READY" PROVE Waiting(h, n)
        OBVIOUS
      <4>1. ~Entered(g, n, d) /\ ~StaysDone(g, n)
        BY <2>1, <2>2 DEF StaysDone
      <4>2. Waiting(g, n)
        BY <1>3, <2>3, <4>1 DEF Entered, Waiting
      <4> QED BY <1>3, <4>2 DEF Started
    <3> QED BY <1>4, <2>2, <3>1, <3>2 DEF BlocGoes
  <2>4. ASSUME k \in Controls PROVE ControlGoes(h, k, NoNode)
    <3>1. SUFFICES ASSUME h.runs[k] \notin FakeRuns
                   PROVE  \E n \in Children[k] : n \in R /\ Runs(h, n)
      BY <2>2 DEF ControlGoes, AtWork
    <3>2. h.runs[k] = RunOf(g, k, d[k]) /\ Kind[k] \in {"for", "while", "switch", "foreach"}
      BY <1>5, <2>4, ComposedAssumption DEF Started
    <3>3. d[k] \in Options[k] /\ d[k] \in Int
      <4>1. k \in Inside(r)
        BY <1>5 DEF Started
      <4>2. k \in Controls \intersect Below[r]
        BY <2>4, <4>1, ComposedAssumption DEF Inside
      <4> QED BY <4>1, <4>2, <2>4, ValueIs DEF Values
    <3>4. ~MakesFake(k, d[k])
      BY <2>4, <3>1, <3>2, <3>3, RunOfIs
    <3>5. \A n \in Children[k] : Entered(g, n, d) => n \in R
      BY <2>2
    <3>6. \A n \in Children[k] : ~StaysDone(g, n)
      BY <2>1 DEF StaysDone
    <3>7. CASE Kind[k] \in {"for", "while"}
      <4>1. PICK n \in Children[k] : TRUE
        BY <2>4, <3>7, HierarchyAssumption
      <4>2. h.runs[k] = "body"
        BY <2>4, <3>2, <3>3, <3>4, <3>7, RunOfIs
      <4> QED BY <1>2, <1>3, <3>5, <3>6, <3>7, <4>1, <4>2 DEF Entered, Runs
    <3>8. CASE Kind[k] = "switch"
      <4>1. h.runs[k] \in Children[k] /\ d[k] \in DOMAIN Branches[k] /\ h.runs[k] = Branches[k][d[k]]
        BY <2>4, <3>2, <3>3, <3>4, <3>8, RunOfIs
      <4> QED BY <1>2, <1>3, <3>5, <3>6, <3>8, <4>1 DEF Entered, Runs
    <3>9. CASE Kind[k] = "foreach"
      <4>1. h.runs[k] = "body"
        BY <2>4, <3>1, <3>2, <3>4, <3>9 DEF RunOf
      <4>2. d[k] \in Nat /\ d[k] # 0 /\ Branches[k] # <<>> /\ Branches[k] \in Seq(Children[k])
        BY <2>4, <3>3, <3>4, <3>9, HierarchyAssumption DEF Sturdy, ForEachs, MakesFake
      <4>3. Len(Branches[k]) >= 1 /\ Branches[k][1] \in Children[k]
        BY <4>2
      <4>4. Branches[k][1] \in FirstBranches(k, d[k])
        BY <4>2, <4>3 DEF FirstBranches, Smaller
      <4>5. Entered(g, Branches[k][1], d)
        BY <1>3, <3>6, <3>9, <4>3, <4>4 DEF Entered
      <4> QED BY <1>2, <1>3, <3>5, <3>9, <4>1, <4>3, <4>5 DEF Runs
    <3> QED BY <3>2, <3>7, <3>8, <3>9
  <2>5. ASSUME k \in ForEachs PROVE ForEachGoes(h, k, NoNode)
    BY <1>3, <1>5, <2>2, <2>5 DEF ForEachGoes, Started, AtWork
  <2> QED BY <2>3, <2>4, <2>5
<1>6. CASE k \notin R
  <2>1. \A n \in Children[k] : n \notin R /\ h.node[n] = g.node[n] /\ h.ids[n] = g.ids[n]
    BY <1>3, <1>6 DEF Started
  <2>2. h.node[k] = g.node[k] /\ (k \in Controls => h.runs[k] = g.runs[k])
    BY <1>6 DEF Started
  <2>3. \A n \in Children[k] : k \in Controls => (Runs(h, n) <=> Runs(g, n))
    BY <1>3, <2>2 DEF Runs
  <2>4. \A n \in Children[k] : Waiting(h, n) <=> Waiting(g, n)
    BY <1>3 DEF Started
  <2>5. h.arrived = g.arrived
    BY DEF Started
  <2>6. Kind[k] = "bloc" => BlocGoes(h, k, NoNode)
    BY <1>2, <1>4, <2>1, <2>2, <2>4, <2>5 DEF Settled, BlocGoes
  <2>7. k \in Controls => ControlGoes(h, k, NoNode)
    BY <1>2, <2>1, <2>2, <2>3 DEF Settled, ControlGoes
  <2>8. k \in ForEachs => ForEachGoes(h, k, NoNode)
    BY <1>2, <2>1, <2>2 DEF Settled, ForEachGoes
  <2> QED BY <2>6, <2>7, <2>8
<1> QED BY <1>5, <1>6

(* Nothing else changes that matters.                                      *)
LEMMA StartSteadies ==
  ASSUME Sturdy, NEW r \in Schemas, NEW d \in Values(Controls \intersect Below[r]),
         NEW g \in Graphs, NEW ns, \A n \in ns : g.node[n] = "READY", NEW ru, NEW fl, Steady(g, ru, fl),
         NEW h, Started(r, g, h, Reached(g, ns, d), ns, d)
  PROVE  Steady(h, ru, fl) /\ \A n \in Nodes : h.node[n] = "READY" => g.node[n] = "READY"
<1> DEFINE R == Reached(g, ns, d)
<1>1. /\ \A m \in R : g.node[m] = "READY"
      /\ \A m \in R : h.node[m] = IF m \in Tasks THEN "TOLOAD" ELSE "ACTIVATED"
      /\ \A m \in Nodes \ R : h.node[m] = g.node[m]
      /\ R \subseteq Nodes
  BY DEF Started
<1>2. \A c \in Controls : c \in Nodes /\ FakeOf[c] \in Fakes /\ Owner(FakeOf[c]) = c
  BY OwnerIs
<1>3. \A c \in Controls : c \notin R =>
        h.node[c] = g.node[c] /\ h.runs[c] = g.runs[c] /\ h.node[FakeOf[c]] = g.node[FakeOf[c]]
  BY <1>1, <1>2 DEF Started
<1>4. ASSUME NEW c \in Controls, c \in R, h.runs[c] \in FakeRuns
      PROVE  MakesFake(c, d[c]) /\ h.node[FakeOf[c]] = "TOACTIVATE" /\ (c \in ForEachs => ~InLoop(c))
  <2>1. c \in Inside(r) /\ c \in Below[r]
    BY <1>4, ComposedAssumption DEF Started, Inside
  <2>2. d[c] \in Options[c] /\ d[c] \in Int
    BY <1>4, <2>1, ValueIs DEF Values
  <2>3. h.runs[c] = RunOf(g, c, d[c])
    BY <1>4 DEF Started
  <2>4. MakesFake(c, d[c])
    <3> SUFFICES ASSUME ~MakesFake(c, d[c]) PROVE FALSE
      OBVIOUS
    <3>1. c \notin ForEachs
      BY <1>1, <1>4, <2>3, HierarchyAssumption DEF RunOf, Steady, Spent, ForEachs, FakeRuns
    <3>2. Kind[c] \in {"for", "while", "switch"}
      BY <1>4, <3>1, ComposedAssumption DEF ForEachs
    <3>3. CASE Kind[c] = "switch"
      <4>1. h.runs[c] \in Nodes
        <5>1. h.runs[c] \in Children[c]
          BY <1>4, <2>2, <2>3, <3>3, RunOfIs
        <5> QED BY <1>2, <5>1, ChildIs
      <4> QED BY <1>4, <4>1, HierarchyAssumption DEF FakeRuns
    <3>4. CASE Kind[c] \in {"for", "while"}
      BY <1>4, <2>2, <2>3, <3>4, RunOfIs DEF FakeRuns
    <3> QED BY <3>2, <3>3, <3>4
  <2>5. h.node[FakeOf[c]] = "TOACTIVATE"
    BY <1>2, <1>4, <2>4 DEF Started
  <2>6. c \in ForEachs => ~InLoop(c)
    BY <2>2, <2>4 DEF Sturdy, MakesFake, ForEachs
  <2> QED BY <2>4, <2>5, <2>6
<1>5. FakeHeld(h, ru)
  BY <1>2, <1>3, <1>4 DEF Steady, FakeHeld
<1>6. TaskHeld(h, ru)
  BY <1>1, OwnerIs DEF Steady, TaskHeld
<1>7. Typed(h)
  BY <1>1 DEF Steady, Typed
<1>8. Spent(h)
  <2> SUFFICES ASSUME NEW c \in ForEachs, h.runs[c] \in FakeRuns PROVE ~InLoop(c) /\ h.node[c] # "READY"
    BY DEF Spent
  <2>1. c \in Controls
    BY DEF ForEachs
  <2>2. CASE c \in R
    BY <1>1, <1>4, <2>1, <2>2
  <2>3. CASE c \notin R
    BY <1>3, <2>1, <2>3 DEF Steady, Spent
  <2> QED BY <2>2, <2>3
<1>9. Blamed(h)
  <2> SUFFICES ASSUME NEW n \in Nodes, Waiting(h, n), h.node[n] = "FAILED"
               PROVE  \E p \in Predecessors[n] : h.node[p] \in {"FAILED", "ERROR"}
    BY DEF Blamed
  <2>1. n \notin R /\ Waiting(g, n) /\ g.node[n] = "FAILED"
    BY <1>1 DEF Started
  <2>2. PICK p \in Predecessors[n] : g.node[p] \in {"FAILED", "ERROR"}
    BY <2>1 DEF Steady, Blamed
  <2>3. p \in Nodes /\ p \notin R
    BY <1>1, <2>2 DEF Predecessors
  <2> QED BY <1>1, <2>2, <2>3
<1>10. Untroubled(fl, h)
  <2>1. h.errors = g.errors
    BY DEF Started
  <2> QED BY <1>1, <2>1 DEF Steady, Untroubled
<1> QED BY <1>1, <1>5, <1>6, <1>7, <1>8, <1>9, <1>10 DEF Steady

-----------------------------------------------------------------------------
(* A node of a loop is reset.                                              *)

(* From g to h nothing has changed in k and its children.                  *)
Alike(g, h, k) ==
  /\ h.node[k] = g.node[k] /\ (k \in Controls => h.runs[k] = g.runs[k])
  /\ \A m \in Children[k] : h.node[m] = g.node[m] /\ h.ids[m] = g.ids[m]
  /\ \A p, m \in Children[k] : <<p, m>> \in h.arrived <=> <<p, m>> \in g.arrived

LEMMA AlikeSettles ==
  ASSUME NEW g, NEW h, NEW k \in Nodes, Alike(g, h, k), NEW x, NEW y, Settled(g, k, x),
         x \in Children[k] => y = x
  PROVE  Settled(h, k, y)
<1>1. SUFFICES ASSUME h.node[k] = "ACTIVATED"
               PROVE  /\ Kind[k] = "bloc" => BlocGoes(h, k, y)
                      /\ k \in Controls => ControlGoes(h, k, y)
                      /\ k \in ForEachs => ForEachGoes(h, k, y)
  BY DEF Settled
<1>2. /\ Kind[k] = "bloc" => BlocGoes(g, k, x)
      /\ k \in Controls => ControlGoes(g, k, x)
      /\ k \in ForEachs => ForEachGoes(g, k, x)
  BY <1>1 DEF Alike, Settled
<1>3. \A n \in Children[k] : n \in Nodes /\ Father[n] = k
  BY ChildIs
<1>4. \A n \in Children[k] : \A p \in Predecessors[n] :
        p \in Children[k] /\ (<<p, n>> \in h.arrived <=> <<p, n>> \in g.arrived)
  BY <1>3, LinkIs DEF Children, Predecessors, Alike
<1>5. \A n \in Children[k] : (Waiting(h, n) <=> Waiting(g, n)) /\ (k \in Controls => (Runs(h, n) <=> Runs(g, n)))
  BY <1>3, <1>4 DEF Alike, Waiting, Runs
<1>6. \A n \in Children[k] : h.node[n] = g.node[n] /\ h.ids[n] = g.ids[n]
  BY DEF Alike
<1>7. Kind[k] = "bloc" => BlocGoes(h, k, y)
  BY <1>2, <1>4, <1>5, <1>6 DEF BlocGoes
<1>8. k \in Controls => ControlGoes(h, k, y)
  BY <1>2, <1>5, <1>6 DEF ControlGoes, Alike
<1>9. k \in ForEachs => ForEachGoes(h, k, y)
  BY <1>2, <1>6 DEF ForEachGoes
<1> QED BY <1>7, <1>8, <1>9

LEMMA InitMoves ==
  ASSUME NEW g \in Graphs, NEW n \in Nodes, NEW f, f = Father[n], f \in Controls, Kind[f] # "switch",
         NEW ru, NEW fl, Steady(g, ru, fl), NEW i, Renewed(g, i, n)
  PROVE  /\ Steady(i, ru, fl)
         /\ \A k \in Nodes \ {f} : Settled(g, k, n) => Settled(i, k, NoNode)
<1>1. /\ \A m \in Inside(n) : i.node[m] = "READY"
      /\ \A m \in Nodes \ Inside(n) : i.node[m] = g.node[m]
      /\ \A m \in Fakes : i.node[m] = g.node[m]
      /\ i.ids = g.ids
  BY InsideIs, OwnerIs DEF Renewed
<1>2. \A p, m \in Nodes : m \notin Inside(n) => (<<p, m>> \in i.arrived <=> <<p, m>> \in g.arrived)
  BY DEF Renewed
<1>3. f \in Nodes /\ f # NoNode /\ Kind[f] \in {"for", "while", "foreach"} /\ n # f
  BY ComposedAssumption, OwnerIs, ChildIs, FatherIs
<1>4. \A k \in Nodes, m \in Nodes : Father[m] = k /\ m \in Inside(n) => k = f \/ k \in Inside(n)
  BY InsideIs DEF Inside
<1>5. ASSUME NEW k \in Nodes \ {f}, Settled(g, k, n)
      PROVE  Settled(i, k, NoNode)
  <2>1. CASE k \in Inside(n)
    BY <1>1, <2>1 DEF Settled
  <2>2. CASE k \notin Inside(n)
    <3>1. \A m \in Children[k] : m \in Nodes /\ m \notin Inside(n) /\ n # m
      BY <1>4, <2>2, ChildIs DEF Inside
    <3>2. Alike(g, i, k)
      BY <1>1, <1>2, <2>2, <3>1 DEF Alike, Renewed
    <3> QED BY <1>5, <3>1, <3>2, AlikeSettles
  <2> QED BY <2>1, <2>2
<1>6. \A c \in Controls : c \in Nodes /\ FakeOf[c] \in Fakes
  BY OwnerIs
<1>7. FakeHeld(i, ru)
  BY <1>1, <1>6 DEF Steady, FakeHeld, Renewed
<1>8. TaskHeld(i, ru) /\ Typed(i)
  BY <1>1, OwnerIs DEF Steady, TaskHeld, Typed
<1>9. Spent(i)
  <2> SUFFICES ASSUME NEW c \in ForEachs, i.runs[c] \in FakeRuns PROVE ~InLoop(c) /\ i.node[c] # "READY"
    BY DEF Spent
  <2>1. c \in Nodes /\ ~InLoop(c) /\ g.node[c] # "READY"
    BY <1>6 DEF ForEachs, Steady, Spent, Renewed
  <2>2. c \notin Inside(n)
    <3> SUFFICES ASSUME c \in Inside(n) PROVE FALSE
      OBVIOUS
    <3>1. f \in Ancestors[c]
      <4>1. n \in Chain(c)
        BY <2>1, InsideIs
      <4>2. f \in Ancestors[n]
        BY <1>3, FatherIs
      <4> QED BY <2>1, <4>1, <4>2, AncestorsTransitive DEF Chain
    <3> QED BY <1>3, <2>1, <3>1 DEF InLoop
  <2> QED BY <1>1, <2>1, <2>2
<1>10. Blamed(i)
  <2> SUFFICES ASSUME NEW m \in Nodes, Waiting(i, m), i.node[m] = "FAILED"
               PROVE  \E p \in Predecessors[m] : i.node[p] \in {"FAILED", "ERROR"}
    BY DEF Blamed
  <2>1. m \notin Inside(n) /\ g.node[m] = "FAILED"
    BY <1>1
  <2>2. Waiting(g, m)
    BY <1>2, <2>1 DEF Waiting, Predecessors
  <2>3. PICK p \in Predecessors[m] : g.node[p] \in {"FAILED", "ERROR"}
    BY <2>1, <2>2 DEF Steady, Blamed
  <2>4. p \in Nodes /\ Father[p] = Father[m] /\ Kind[Father[p]] = "bloc" /\ Father[p] # NoNode
    BY <2>3, LinkIs DEF Predecessors
  <2>5. p \notin Inside(n)
    <3> SUFFICES ASSUME p \in Inside(n) PROVE FALSE
      OBVIOUS
    <3>1. Father[m] \in Inside(n)
      BY <1>3, <1>4, <2>4, FatherIs
    <3>2. Father[m] \in Nodes /\ n \in Chain(Father[m])
      BY <2>4, <3>1, FatherIs, InsideIs
    <3>3. n \in Ancestors[m]
      BY <2>4, <3>2, FatherIs DEF Chain
    <3> QED BY <2>1, <3>3, InsideIs DEF Inside
  <2> QED BY <1>1, <2>3, <2>4, <2>5
<1>11. Untroubled(fl, i)
  BY <1>1, <1>6 DEF Steady, Untroubled, Renewed
<1> QED BY <1>5, <1>7, <1>8, <1>9, <1>10, <1>11 DEF Steady

(* A node that is run once more goes, and so does its loop.                *)
LEMMA LoopGoesOn ==
  ASSUME Sturdy, NEW r \in Schemas, NEW kg \in BOOLEAN, NEW d \in Values(Controls \intersect Below[r]),
         NEW g \in Graphs, Ordered(r, kg, g), NEW s, Repeatable(r, kg, g, s),
         g.node[Father[s]] = "ACTIVATED", NEW ru, NEW fl, Going(r, g, ru, s, fl)
  PROVE  Going(r, RunAgain(g, s, d), ru, NoNode, fl)
<1> DEFINE f == Father[s]
           i == InitNode(g, s)
           h == RunAgain(g, s, d)
           R == Reached(i, {s}, d)
<1>1. /\ s \in Nodes /\ f \in Controls /\ f \in Nodes /\ f # NoNode
      /\ Kind[f] \in {"for", "while", "foreach"} /\ s \in Children[f]
      /\ g.node[f] = "ACTIVATED" /\ g.runs[f] = "body"
  <2>1. s \in Nodes /\ f \in Controls /\ f \in Nodes /\ f # NoNode /\ Open(kg, g, s)
    BY OwnerIs, ComposedAssumption DEF Repeatable, OpenChain, Chain
  <2>2. Kind[f] \in {"for", "while", "foreach"}
    BY <2>1, ComposedAssumption DEF Repeatable
  <2> QED BY <2>1, <2>2 DEF Open, Children
<1>2. Renewed(g, i, s)
  BY <1>1, InitIs
<1>0. kg \in BOOLEAN /\ Ordered(r, kg, g) /\ Repeatable(r, kg, g, s)
  BY HierarchyAssumption
<1> HIDE DEF i
<1>3. i \in Graphs /\ Ordered(r, kg, i) /\ Startable(r, kg, i, {s})
  BY <1>0, <1>2, InitKeepsOrder DEF Renewed
<1>4. Started(r, i, h, R, {s}, d)
  <2>1. Started(r, i, ExUpdateState(i, {s}, d), R, {s}, d)
    BY <1>0, <1>3, StartIs
  <2> QED BY <2>1 DEF RunAgain, i
<1>5. Steady(i, ru, fl) /\ \A k \in Nodes \ {f} : Settled(i, k, NoNode)
  BY <1>1, <1>2, InitMoves DEF Going
<1>6. i.node[s] = "READY" /\ ~StaysDone(i, s)
  BY <1>1, <1>2 DEF Renewed, Inside, StaysDone
<1> HIDE DEF h
<1>7. \A k \in Nodes \ {f} : Settled(h, k, NoNode)
  BY <1>1, <1>3, <1>4, <1>5, <1>6, StartSettles
<1>8. Steady(h, ru, fl) /\ \A n \in Nodes : h.node[n] = "READY" => i.node[n] = "READY"
  BY <1>3, <1>4, <1>5, <1>6, StartSteadies
<1>9. f \notin Inside(s) /\ f \notin R /\ s \in R
  <2>1. f \notin R /\ s \in R
    BY <1>4 DEF Started
  <2>2. f \notin Inside(s)
    BY <1>1, ChildIs, InsideIs, FatherIs, AncestorsTransitive, AncestorsAre DEF Inside
  <2> QED BY <2>1, <2>2
<1>10. h.node[f] = "ACTIVATED" /\ h.runs[f] = "body"
  <2>1. i.node[f] = g.node[f] /\ i.runs[f] = g.runs[f]
    BY <1>1, <1>2, <1>9 DEF Renewed
  <2>2. h.node[f] = i.node[f] /\ h.runs[f] = i.runs[f]
    BY <1>1, <1>4, <1>9 DEF Started
  <2> QED BY <1>1, <2>1, <2>2
<1>11. h.node[s] \in AtWork /\ Runs(h, s)
  <2>1. h.node[s] \in AtWork
    BY <1>1, <1>4, <1>6, <1>9 DEF Started, AtWork
  <2> QED BY <1>1, <1>10, <2>1 DEF Runs
<1>12. \A m \in Children[f] \ {s} : h.node[m] = g.node[m] /\ h.ids[m] = g.ids[m]
  <2> SUFFICES ASSUME NEW m \in Children[f], m # s PROVE h.node[m] = g.node[m] /\ h.ids[m] = g.ids[m]
    OBVIOUS
  <2>1. m \in Nodes /\ Father[m] = f
    BY <1>1, ChildIs
  <2>2. m \notin Inside(s)
    BY <1>1, <2>1, SiblingsApart DEF Inside
  <2>3. m \notin R
    BY <1>4, <2>2 DEF Started
  <2>4. i.node[m] = g.node[m] /\ i.ids[m] = g.ids[m]
    BY <1>2, <2>1, <2>2 DEF Renewed
  <2>5. h.node[m] = i.node[m] /\ h.ids[m] = i.ids[m]
    BY <1>4, <1>9, <2>1, <2>3 DEF Started
  <2> QED BY <2>4, <2>5
<1>13. Settled(h, f, NoNode)
  <2>1. ControlGoes(h, f, NoNode)
    BY <1>1, <1>11 DEF ControlGoes
  <2>2. f \in ForEachs => ForEachGoes(h, f, NoNode)
    <3>1. f \in ForEachs => ForEachGoes(g, f, s)
      BY <1>1 DEF Going, Settled
    <3> QED BY <1>1, <1>11, <1>12, <3>1 DEF ForEachGoes
  <2> QED BY <1>1, <2>1, <2>2 DEF Settled
<1>14. h.node[r] # "READY"
  <2>1. r \in Nodes /\ r \notin Inside(s)
    <3>1. r \in Nodes /\ Father[r] = NoNode
      BY ComposedAssumption
    <3>2. r # s
      BY <1>1, <3>1
    <3> QED BY <1>1, <3>1, <3>2, InsideIs DEF Inside
  <2> QED BY <1>2, <1>8, <2>1, OwnerIs DEF Renewed, Going
<1>15. Going(r, h, ru, NoNode, fl)
  BY <1>7, <1>8, <1>13, <1>14 DEF Going
<1> QED BY <1>15 DEF h

-----------------------------------------------------------------------------
(* A node ends, and its father has not answered yet.                       *)

LEMMA HoleElsewhere ==
  ASSUME NEW r, NEW g, NEW ru, NEW x, NEW fl, Going(r, g, ru, x, fl),
         NEW f, f = NoNode, \A k \in Nodes : x \in Children[k] => k = f
  PROVE  Going(r, g, ru, NoNode, fl)
<1>1. \A k \in Nodes : x \notin Children[k]
  BY ComposedAssumption
<1>2. \A k \in Nodes : Settled(g, k, x)
  BY DEF Going
<1>3. \A k \in Nodes : Settled(g, k, NoNode)
  BY <1>1, <1>2, AlikeSettles DEF Alike
<1> QED BY <1>3 DEF Going

LEMMA EndMoves ==
  ASSUME NEW r \in Schemas, NEW g \in Graphs, NEW ru, NEW x, NEW fl, Going(r, g, ru, x, fl),
         NEW f \in Nodes, \A k \in Nodes : x \in Children[k] => k = f,
         g.node[f] \in AtWork, ~Waiting(g, f),
         NEW b \in Ended, Kind[f] = "bloc" => b # "ERROR",
         NEW later, fl => later, b # "DONE" => later,
         NEW left, \A u \in ru : u \in left \/ Owner(u) = f
  PROVE  Going(r, SetState(g, f, b), left, f, later)
<1> DEFINE h == SetState(g, f, b)
<1>1. /\ h.node[f] = b /\ \A n \in (Nodes \union Fakes) \ {f} : h.node[n] = g.node[n]
      /\ h.arrived = g.arrived /\ h.runs = g.runs /\ h.errors = g.errors /\ h.ids = g.ids
  <2>1. b \in NodeStates
    BY DEF NodeStates
  <2> QED BY <2>1, SetIs
<1> HIDE DEF h
<1>2. ASSUME NEW k \in Nodes PROVE Settled(h, k, f)
  <2>0. Settled(g, k, x)
    BY DEF Going
  <2>1. CASE k = f
    BY <1>1, <2>1 DEF Settled, Ended
  <2>2. CASE k # f /\ f \notin Children[k]
    <3>1. \A m \in Children[k] : m \in Nodes /\ m # f
      BY <2>2, ChildIs
    <3>2. Alike(g, h, k)
      BY <1>1, <2>2, <3>1 DEF Alike
    <3> QED BY <2>0, <2>2, <3>2, AlikeSettles
  <2>3. CASE k # f /\ f \in Children[k]
    <3>1. SUFFICES ASSUME g.node[k] = "ACTIVATED"
                   PROVE  /\ Kind[k] = "bloc" => BlocGoes(h, k, f)
                          /\ k \in ForEachs => ForEachGoes(h, k, f)
      BY <1>1, <2>3 DEF Settled, ControlGoes
    <3>2. \A m \in Children[k] : m \in Nodes /\ m # x /\ (m # f => h.node[m] = g.node[m])
      BY <1>1, <2>3, ChildIs
    <3>3. \A m \in Children[k] : \A p \in Predecessors[m] : p \in Children[k]
      BY <3>2, LinkIs, ChildIs DEF Children, Predecessors
    <3>4. \A m \in Nodes : Waiting(h, m) <=> Waiting(g, m)
      BY <1>1 DEF Waiting
    <3>5. ASSUME Kind[k] = "bloc" PROVE BlocGoes(h, k, f)
      <4>1. BlocGoes(g, k, x)
        BY <2>0, <3>1, <3>5 DEF Settled
      <4>2. SUFFICES ASSUME NEW n \in Children[k]
                     PROVE  /\ h.node[n] = "READY" => Waiting(h, n)
                            /\ \A p \in Predecessors[n] \ {f} :
                                 /\ h.node[p] = "DONE" => <<p, n>> \in h.arrived
                                 /\ h.node[p] \in {"FAILED", "ERROR"} => h.node[n] = "FAILED"
        BY <2>3 DEF BlocGoes
      <4>3. h.node[n] = "READY" => Waiting(h, n)
        BY <1>1, <3>2, <3>4, <4>1 DEF BlocGoes, Ended
      <4>4. ASSUME NEW p \in Predecessors[n] \ {f}
            PROVE  /\ h.node[p] = "DONE" => <<p, n>> \in h.arrived
                   /\ h.node[p] \in {"FAILED", "ERROR"} => h.node[n] = "FAILED"
        <5>1. p \in Predecessors[n] \ {x} /\ h.node[p] = g.node[p]
          BY <3>2, <3>3
        <5>2. /\ g.node[p] = "DONE" => <<p, n>> \in g.arrived
              /\ g.node[p] \in {"FAILED", "ERROR"} => g.node[n] = "FAILED"
          BY <4>1, <5>1 DEF BlocGoes
        <5>3. g.node[n] = "FAILED" => n # f
          BY DEF AtWork
        <5> QED BY <1>1, <3>2, <5>1, <5>2, <5>3
      <4> QED BY <4>3, <4>4
    <3>6. ASSUME k \in ForEachs PROVE ForEachGoes(h, k, f)
      <4>1. ForEachGoes(g, k, x)
        BY <2>0, <3>1, <3>6 DEF Settled
      <4> QED BY <1>1, <3>2, <4>1 DEF ForEachGoes
    <3> QED BY <3>5, <3>6
  <2> QED BY <2>1, <2>2, <2>3
<1>3. Steady(g, ru, fl)
  BY DEF Going
<1>4. FakeHeld(h, left)
  <2> SUFFICES ASSUME NEW c \in Controls, h.node[c] = "ACTIVATED", h.runs[c] \in FakeRuns
               PROVE  h.node[FakeOf[c]] = "TOACTIVATE" \/ FakeOf[c] \in left
    BY DEF FakeHeld
  <2>1. c \in Nodes /\ c # f /\ FakeOf[c] \in Fakes /\ FakeOf[c] # f /\ Owner(FakeOf[c]) = c
    BY <1>1, OwnerIs DEF Ended
  <2> QED BY <1>1, <1>3, <2>1 DEF Steady, FakeHeld
<1>5. TaskHeld(h, left)
  <2> SUFFICES ASSUME NEW t \in Tasks, h.node[t] = "ACTIVATED" PROVE t \in left
    BY DEF TaskHeld
  <2>1. t \in Nodes /\ t # f /\ Owner(t) = t
    BY <1>1, OwnerIs DEF Ended
  <2> QED BY <1>1, <1>3, <2>1 DEF Steady, TaskHeld
<1>6. Typed(h)
  BY <1>1, <1>3 DEF Steady, Typed, Ended
<1>7. Spent(h)
  BY <1>1, <1>3, OwnerIs DEF Steady, Spent, Ended, ForEachs
<1>8. Blamed(h)
  <2> SUFFICES ASSUME NEW n \in Nodes, Waiting(h, n), h.node[n] = "FAILED"
               PROVE  \E p \in Predecessors[n] : h.node[p] \in {"FAILED", "ERROR"}
    BY DEF Blamed
  <2>1. Waiting(g, n) /\ n # f
    BY <1>1 DEF Waiting
  <2>2. PICK p \in Predecessors[n] : g.node[p] \in {"FAILED", "ERROR"}
    BY <1>1, <1>3, <2>1 DEF Steady, Blamed
  <2>3. p \in Nodes /\ p # f
    BY <2>2 DEF Predecessors, AtWork
  <2> QED BY <1>1, <2>2, <2>3
<1>9. Untroubled(later, h)
  BY <1>1, <1>3 DEF Steady, Untroubled, Ended
<1>10. h.node[r] # "READY"
  BY <1>1, ComposedAssumption DEF Going, Ended
<1>11. Going(r, h, left, f, later)
  BY <1>2, <1>4, <1>5, <1>6, <1>7, <1>8, <1>9, <1>10 DEF Going, Steady
<1> QED BY <1>11 DEF h

(* The counters of its loop change.                                        *)
LEMMA RecountMoves ==
  ASSUME NEW r, NEW g, NEW ru, NEW s, NEW fl, Going(r, g, ru, s, fl),
         NEW h, h.node = g.node, h.arrived = g.arrived, h.runs = g.runs,
         \A m \in Nodes \ {s} : h.ids[m] = g.ids[m],
         ~fl => h.errors = g.errors
  PROVE  Going(r, h, ru, s, fl)
<1>1. ASSUME NEW k \in Nodes PROVE Settled(h, k, s)
  <2>1. \A m \in Children[k] : m \in Nodes
    BY ChildIs
  <2> QED BY <2>1 DEF Going, Settled, BlocGoes, Waiting, ControlGoes, Runs, ForEachGoes
<1>2. Steady(h, ru, fl)
  BY DEF Going, Steady, FakeHeld, TaskHeld, Typed, Spent, Blamed, Waiting, Untroubled
<1> QED BY <1>1, <1>2 DEF Going

LEMMA SameState ==
  ASSUME NEW g \in Graphs, NEW f \in Nodes, NEW b, g.node[f] = b
  PROVE  SetState(g, f, b) = g
BY DEF SetState, Graphs

-----------------------------------------------------------------------------
(* Inside a bloc.                                                          *)

LEMMA BehindClosed ==
  ASSUME NEW s \in Nodes, NEW p \in Behind[s]
  PROVE  Successors[p] \subseteq Behind[s]
<1> DEFINE good == {n \in Nodes : \A m \in Behind[n] : Successors[m] \subseteq Behind[n]}
<1>1. ASSUME NEW n \in Nodes, Successors[n] \subseteq good
      PROVE  n \in good
  <2> SUFFICES ASSUME NEW m \in Behind[n] PROVE Successors[m] \subseteq Behind[n]
    OBVIOUS
  <2>1. Behind[n] = Successors[n] \union UNION {Behind[k] : k \in Successors[n]}
    BY BehindIs
  <2>2. CASE m \in Successors[n]
    <3>1. m \in Nodes
      BY <1>1, <2>2
    <3>2. Successors[m] \subseteq Behind[m]
      BY <3>1, BehindIs
    <3> QED BY <2>1, <2>2, <3>2
  <2>3. ASSUME NEW k \in Successors[n], m \in Behind[k] PROVE Successors[m] \subseteq Behind[n]
    BY <1>1, <2>1, <2>3
  <2> QED BY <2>1, <2>2, <2>3
<1>2. Nodes \subseteq good
  <2>1. \A n \in Nodes : Successors[n] \subseteq good => n \in good
    BY <1>1
  <2> HIDE DEF good
  <2> QED BY <2>1, BehindIs, FarInduction
<1> QED BY <1>2

(* What is behind s is one step from s, or from something behind s.        *)
LEMMA BehindLast ==
  ASSUME NEW s \in Nodes, NEW m \in Behind[s]
  PROVE  \E p \in {s} \union Behind[s] : p \in Nodes /\ p \in Predecessors[m]
<1> DEFINE near == {k \in Nodes : \E p \in {s} \union Behind[s] : p \in Nodes /\ k \in Successors[p]}
<1>1. Behind[s] \subseteq Nodes /\ \A n \in Nodes : Successors[n] \subseteq Nodes
  BY BehindIs
<1>2. near \subseteq Behind[s]
  <2> SUFFICES ASSUME NEW p \in {s} \union Behind[s], p \in Nodes PROVE Successors[p] \subseteq Behind[s]
    OBVIOUS
  <2>1. CASE p = s
    BY <2>1, BehindIs
  <2>2. CASE p \in Behind[s]
    BY <2>2, BehindClosed
  <2> QED BY <2>1, <2>2
<1>3. Successors[s] \subseteq near /\ \A k \in near \intersect Nodes : Successors[k] \subseteq near
  BY <1>1, <1>2
<1>4. Behind[s] \subseteq near
  <2> HIDE DEF near
  <2> QED BY <1>3, BehindLeast
<1>5. m \in Nodes /\ \E p \in {s} \union Behind[s] : p \in Nodes /\ m \in Successors[p]
  BY <1>4
<1> QED BY <1>5, LinkIs

(* The failure of s settles the nodes behind it.                           *)
LEMMA FailedMoves ==
  ASSUME NEW r \in Schemas, NEW kg \in BOOLEAN, NEW g \in Graphs, Ordered(r, kg, g),
         NEW s \in Nodes, \A a \in g.arrived : a[1] # s, g.node[s] \in {"FAILED", "ERROR"},
         NEW f \in Nodes, f = Father[s], g.node[f] = "ACTIVATED", Kind[f] = "bloc",
         NEW ru, NEW fl, Going(r, g, ru, s, fl)
  PROVE  LET h == ExForwardFailed(g, s)
         IN  /\ Going(r, h, ru, s, fl)
             /\ ~AllEnded(h, Children[f]) => Going(r, h, ru, NoNode, fl)
             /\ h \in Graphs /\ h.node[f] = "ACTIVATED" /\ (Waiting(h, f) <=> Waiting(g, f))
<1> DEFINE h == ExForwardFailed(g, s)
<1>1. /\ h.arrived = g.arrived /\ h.runs = g.runs /\ h.errors = g.errors /\ h.ids = g.ids
      /\ \A n \in (Nodes \union Fakes) \ Behind[s] : h.node[n] = g.node[n]
      /\ \A n \in Behind[s] : h.node[n] = "FAILED"
  BY FailedIs
<1>2. \A m \in Behind[s] : m \in Nodes /\ Father[m] = f /\ Waiting(g, m)
  BY BehindWaits
<1>3. /\ \A m \in Nodes : Waiting(h, m) <=> Waiting(g, m)
      /\ f # NoNode /\ f \notin Controls
  BY <1>1, ComposedAssumption DEF Waiting
<1>4. h.node[s] \in {"FAILED", "ERROR"}
  BY <1>1
<1>5. s \in Children[f] /\ f \notin Behind[s] /\ h.node[f] = "ACTIVATED"
  <2>1. s \in Children[f]
    BY DEF Children
  <2>2. f \notin Behind[s]
    BY <1>2, ChildIs DEF Children
  <2> QED BY <1>1, <2>1, <2>2
<1> HIDE DEF h
<1>6. \A k \in Nodes \ {f} : Settled(h, k, NoNode)
  <2> SUFFICES ASSUME NEW k \in Nodes \ {f} PROVE Settled(h, k, NoNode)
    OBVIOUS
  <2>1. CASE k \in Behind[s]
    BY <1>1, <2>1 DEF Settled
  <2>2. CASE k \notin Behind[s]
    <3>1. \A m \in Children[k] : m \in Nodes /\ m \notin Behind[s] /\ m # s
      BY <1>2, ChildIs
    <3>2. Alike(g, h, k)
      BY <1>1, <2>2, <3>1 DEF Alike
    <3> QED BY <3>1, <3>2, AlikeSettles DEF Going
  <2> QED BY <2>1, <2>2
<1>7. \A n \in Children[f] :
        /\ h.node[n] = "READY" => Waiting(h, n)
        /\ \A p \in Predecessors[n] : /\ h.node[p] = "DONE" => <<p, n>> \in h.arrived
                                      /\ h.node[p] \in {"FAILED", "ERROR"} => h.node[n] = "FAILED"
  <2> SUFFICES ASSUME NEW n \in Children[f]
               PROVE  /\ h.node[n] = "READY" => Waiting(h, n)
                      /\ \A p \in Predecessors[n] :
                           /\ h.node[p] = "DONE" => <<p, n>> \in h.arrived
                           /\ h.node[p] \in {"FAILED", "ERROR"} => h.node[n] = "FAILED"
    OBVIOUS
  <2>1. n \in Nodes /\ Father[n] = f /\ (n \notin Behind[s] => h.node[n] = g.node[n])
    BY <1>1, ChildIs
  <2>2. BlocGoes(g, f, s)
    BY DEF Going, Settled
  <2>3. h.node[n] = "READY" => Waiting(h, n)
    BY <1>1, <1>3, <2>1, <2>2 DEF BlocGoes
  <2>4. ASSUME NEW p \in Predecessors[n]
        PROVE  /\ h.node[p] = "DONE" => <<p, n>> \in h.arrived
               /\ h.node[p] \in {"FAILED", "ERROR"} => h.node[n] = "FAILED"
    <3>1. p \in Nodes /\ n \in Successors[p]
      BY <2>1, LinkIs DEF Predecessors
    <3>2. CASE p = s
      <4>1. n \in Behind[s]
        BY <3>1, <3>2, BehindIs
      <4> QED BY <1>1, <1>4, <3>2, <4>1
    <3>3. CASE p \in Behind[s]
      <4>1. n \in Behind[s]
        BY <3>1, <3>3, BehindClosed
      <4> QED BY <1>1, <3>3, <4>1
    <3>4. CASE p # s /\ p \notin Behind[s]
      <4>1. /\ g.node[p] = "DONE" => <<p, n>> \in g.arrived
            /\ g.node[p] \in {"FAILED", "ERROR"} => g.node[n] = "FAILED"
        BY <2>2, <3>4 DEF BlocGoes
      <4> QED BY <1>1, <2>1, <3>1, <3>4, <4>1
    <3> QED BY <3>2, <3>3, <3>4
  <2> QED BY <2>3, <2>4
<1>8. Settled(h, f, s) /\ (~AllEnded(h, Children[f]) => Settled(h, f, NoNode))
  BY <1>3, <1>5, <1>7 DEF Settled, BlocGoes, AllEnded, ForEachs
<1>9. \A k \in Nodes \ {f} : Settled(h, k, s)
  <2> SUFFICES ASSUME NEW k \in Nodes \ {f} PROVE Settled(h, k, s)
    OBVIOUS
  <2>1. NoNode \notin Children[k]
    BY ComposedAssumption, ChildIs
  <2>2. Alike(h, h, k)
    BY DEF Alike
  <2> QED BY <1>6, <2>1, <2>2, AlikeSettles
<1>10. Steady(h, ru, fl)
  <2>1. \A c \in Controls : c \in Nodes /\ FakeOf[c] \in Fakes /\ FakeOf[c] \notin Nodes
    BY OwnerIs
  <2>2. FakeHeld(h, ru)
    BY <1>1, <1>2, <2>1 DEF Going, Steady, FakeHeld
  <2>3. TaskHeld(h, ru) /\ Typed(h)
    BY <1>1, OwnerIs DEF Going, Steady, TaskHeld, Typed
  <2>4. Spent(h)
    BY <1>1, <2>1 DEF Going, Steady, Spent, ForEachs
  <2>5. Blamed(h)
    <3> SUFFICES ASSUME NEW n \in Nodes, Waiting(h, n), h.node[n] = "FAILED"
                 PROVE  \E p \in Predecessors[n] : h.node[p] \in {"FAILED", "ERROR"}
      BY DEF Blamed
    <3>1. CASE n \in Behind[s]
      BY <1>1, <1>4, <3>1, BehindLast
    <3>2. CASE n \notin Behind[s]
      <4>1. Waiting(g, n) /\ g.node[n] = "FAILED"
        BY <1>1, <1>3, <3>2
      <4>2. PICK p \in Predecessors[n] : g.node[p] \in {"FAILED", "ERROR"}
        BY <4>1 DEF Going, Steady, Blamed
      <4> QED BY <1>1, <4>2 DEF Predecessors
    <3> QED BY <3>1, <3>2
  <2>6. Untroubled(fl, h)
    BY DEF Going, Steady, Untroubled
  <2> QED BY <2>2, <2>3, <2>4, <2>5, <2>6 DEF Steady
<1>11. h.node[r] # "READY"
  BY <1>1, ComposedAssumption DEF Going
<1>12. Going(r, h, ru, s, fl) /\ (~AllEnded(h, Children[f]) => Going(r, h, ru, NoNode, fl))
  BY <1>6, <1>8, <1>9, <1>10, <1>11 DEF Going
<1>13. h \in Graphs
  BY FailedIs DEF h
<1> QED BY <1>3, <1>5, <1>12, <1>13 DEF h

(* The end of s raises its flags, and starts what is then ready.           *)
LEMMA FinishedMoves ==
  ASSUME Sturdy, NEW r \in Schemas, NEW kg \in BOOLEAN, NEW lo, NEW la, NEW ru, Dealt(lo, la, ru),
         NEW d \in Values(Controls \intersect Below[r]),
         NEW g, Sound(r, kg, g, lo, la, ru),
         NEW s, s \in Inside(r), OpenChain(kg, g, s), g.node[s] = "DONE",
         \A a \in g.arrived : a[1] # s,
         NEW f, f = Father[s], f # NoNode, Kind[f] = "bloc", g.node[f] = "ACTIVATED",
         ~AllEnded(g, Children[f]),
         NEW fl, Going(r, g, ru, s, fl)
  PROVE  Going(r, ExForwardFinished(g, s, d), ru, NoNode, fl)
<1> DEFINE flags == g.arrived \union {<<s, m>> : m \in Successors[s]}
           ready == {m \in Successors[s] : \A p \in Predecessors[m] : <<p, m>> \in flags}
           i == [g EXCEPT !.arrived = flags]
           h == ExUpdateState(i, ready, d)
           R == Reached(i, ready, d)
<1>0. kg \in BOOLEAN /\ Sound(r, kg, g, lo, la, ru) /\ OpenChain(kg, g, s)
  BY HierarchyAssumption
<1>1. Sound(r, kg, i, lo, la, ru) /\ Startable(r, kg, i, ready)
  BY <1>0, FlagsKeep
<1>2. s \in Nodes /\ f \in Nodes /\ s \in Children[f] /\ g.node[f] = "ACTIVATED" /\ f \notin Controls
  <2>1. s \in Nodes
    BY InsideIs, ComposedAssumption
  <2>2. Open(kg, g, s)
    BY DEF OpenChain, Chain
  <2> QED BY <2>1, <2>2, FatherIs, ComposedAssumption DEF Open
<1>3. i.node = g.node /\ i.arrived = flags /\ i.runs = g.runs /\ i.errors = g.errors /\ i.ids = g.ids
  BY DEF Sound, Graphs
<1>4. \A m \in ready : m \in Nodes /\ Father[m] = f /\ s \in Predecessors[m] /\ Waiting(g, m)
  <2> SUFFICES ASSUME NEW m \in Successors[s] PROVE m \in Nodes /\ Father[m] = f /\ s \in Predecessors[m] /\ Waiting(g, m)
    OBVIOUS
  <2>1. m \in Nodes /\ <<s, m>> \in Links
    BY <1>2, LinkIs DEF Successors
  <2>2. <<s, m>> \notin g.arrived
    OBVIOUS
  <2> QED BY <1>2, <2>1, <2>2, LinkIs DEF Waiting
<1>5. Steady(i, ru, fl)
  <2>1. \A n \in Nodes : Waiting(i, n) => Waiting(g, n)
    BY <1>3 DEF Waiting
  <2> HIDE DEF i
  <2> QED BY <1>3, <2>1 DEF Going, Steady, FakeHeld, TaskHeld, Typed, Spent, Blamed, Untroubled
<1>6. \A m \in ready : i.node[m] = "READY" /\ ~StaysDone(i, m)
  <2> SUFFICES ASSUME NEW m \in ready PROVE i.node[m] = "READY"
    BY DEF StaysDone
  <2>1. g.node[m] \in {"READY", "FAILED"}
    BY <1>1, <1>3 DEF Startable
  <2>2. ASSUME g.node[m] = "FAILED" PROVE FALSE
    <3>1. PICK p \in Predecessors[m] : g.node[p] \in {"FAILED", "ERROR"}
      BY <1>4, <2>2 DEF Going, Steady, Blamed
    <3>2. <<p, m>> \in flags
      OBVIOUS
    <3>3. p # s
      BY <3>1
    <3>4. <<p, m>> \in g.arrived
      BY <3>2, <3>3
    <3> QED BY <3>1, <3>4 DEF Sound, Ordered, Flags
  <2> QED BY <1>3, <2>1, <2>2
<1>7. i \in Graphs /\ Ordered(r, kg, i)
  BY <1>1 DEF Sound
<1>8. /\ \A p, m \in Nodes : Father[m] # f => (<<p, m>> \in i.arrived <=> <<p, m>> \in g.arrived)
      /\ \A n \in Nodes : n \notin Successors[s] => (Waiting(i, n) <=> Waiting(g, n))
      /\ \A n \in Successors[s] : n \notin ready => Waiting(i, n)
      /\ \A p \in Nodes, n \in Nodes : <<p, n>> \in g.arrived => <<p, n>> \in i.arrived
      /\ \A n \in Nodes : s \in Predecessors[n] => <<s, n>> \in i.arrived
  <2>1. \A n \in Nodes : n \notin Successors[s] => (Waiting(i, n) <=> Waiting(g, n))
    BY <1>3 DEF Waiting
  <2>2. \A n \in Successors[s] : n \notin ready => Waiting(i, n)
    BY <1>3 DEF Waiting
  <2>3. \A n \in Nodes : s \in Predecessors[n] => <<s, n>> \in i.arrived
    BY <1>2, <1>3, LinkIs
  <2>4. \A m \in Successors[s] : m \in Nodes /\ Father[m] = f
    BY <1>2, LinkIs DEF Successors
  <2>5. \A p, m \in Nodes : Father[m] # f => (<<p, m>> \in i.arrived <=> <<p, m>> \in g.arrived)
    BY <1>3, <2>4
  <2> QED BY <1>3, <2>1, <2>2, <2>3, <2>5
<1>9. \A k \in Nodes \ {f} : Settled(i, k, NoNode)
  <2> SUFFICES ASSUME NEW k \in Nodes \ {f} PROVE Settled(i, k, NoNode)
    OBVIOUS
  <2>1. \A m \in Children[k] : m \in Nodes /\ Father[m] # f /\ m # s
    BY <1>2, ChildIs
  <2>2. Alike(g, i, k)
    BY <1>3, <1>8, <2>1 DEF Alike
  <2> QED BY <2>1, <2>2, AlikeSettles DEF Going
<1>10. Started(r, i, h, R, ready, d)
  BY <1>0, <1>1, <1>7, StartIs
<1>11. ready \subseteq Nodes /\ \A m \in ready : Father[m] = f
  BY <1>4
<1>12. s \notin ready
  BY <1>3, <1>6
<1> HIDE DEF i, ready, flags
<1>13. \A k \in Nodes \ {f} : Settled(h, k, NoNode)
  <2> HIDE DEF h
  <2> QED BY <1>5, <1>6, <1>7, <1>9, <1>10, <1>11, StartSettles
<1>14. Steady(h, ru, fl) /\ \A n \in Nodes : h.node[n] = "READY" => i.node[n] = "READY"
  <2> HIDE DEF h
  <2> QED BY <1>5, <1>6, <1>7, <1>10, StartSteadies
<1> HIDE DEF h
<1>15. /\ \A n \in Children[f] : n \in R <=> n \in ready
       /\ \A n \in ready : h.node[n] \in {"ACTIVATED", "TOLOAD"}
       /\ \A n \in Children[f] \ ready : h.node[n] = g.node[n]
       /\ h.arrived = i.arrived /\ \A n \in Nodes : Waiting(h, n) <=> Waiting(i, n)
  <2>1. ready \subseteq R /\ R \subseteq Nodes /\ \A m \in R \ ready : Father[m] \in R
    BY <1>10 DEF Started
  <2>2. f \notin R
    <3>1. CASE ready = {}
      BY <1>10, <3>1 DEF Started
    <3>2. CASE ready # {}
      BY <1>10, <1>11, <3>2 DEF Started
    <3> QED BY <3>1, <3>2
  <2>3. \A n \in Children[f] : n \in Nodes /\ Father[n] = f
    BY <1>2, ChildIs
  <2>4. \A n \in Children[f] : n \in R <=> n \in ready
    BY <2>1, <2>2, <2>3
  <2>5. \A n \in R : h.node[n] \in {"ACTIVATED", "TOLOAD"}
    BY <1>6, <1>10 DEF Started
  <2>6. \A n \in Nodes \ R : h.node[n] = i.node[n]
    BY <1>10 DEF Started
  <2> QED BY <1>3, <1>10, <2>1, <2>3, <2>4, <2>5, <2>6 DEF Started
<1>16. BlocGoes(h, f, NoNode)
  <2>1. BlocGoes(g, f, s)
    BY <1>2 DEF Going, Settled
  <2>2. \E n \in Children[f] : h.node[n] \notin Ended
    <3>1. PICK n \in Children[f] : g.node[n] \notin Ended
      BY DEF AllEnded
    <3> QED BY <1>15, <3>1 DEF Ended
  <2>3. ASSUME NEW n \in Children[f], h.node[n] = "READY" PROVE Waiting(h, n)
    <3>1. n \in Nodes /\ n \notin ready /\ g.node[n] = "READY"
      BY <1>2, <1>15, <2>3, ChildIs
    <3> QED BY <1>8, <1>15, <2>1, <3>1 DEF BlocGoes
  <2>4. ASSUME NEW n \in Children[f], NEW p \in Predecessors[n]
        PROVE  /\ h.node[p] = "DONE" => <<p, n>> \in h.arrived
               /\ h.node[p] \in {"FAILED", "ERROR"} => h.node[n] = "FAILED"
    <3>1. n \in Nodes /\ p \in Nodes /\ p \in Children[f]
      BY <1>2, <2>4, ChildIs, LinkIs DEF Predecessors, Children
    <3>2. CASE p = s
      BY <1>8, <1>12, <1>15, <2>4, <3>1, <3>2
    <3>3. CASE p # s
      <4>1. /\ g.node[p] = "DONE" => <<p, n>> \in g.arrived
            /\ g.node[p] \in {"FAILED", "ERROR"} => g.node[n] = "FAILED"
        BY <2>1, <2>4, <3>3 DEF BlocGoes
      <4>2. h.node[p] \in Ended => h.node[p] = g.node[p]
        BY <1>15, <3>1 DEF Ended
      <4>3. g.node[n] = "FAILED" => h.node[n] = "FAILED"
        BY <1>3, <1>6, <1>15
      <4> QED BY <1>8, <1>15, <3>1, <4>1, <4>2, <4>3 DEF Ended
    <3> QED BY <3>2, <3>3
  <2> QED BY <2>2, <2>3, <2>4 DEF BlocGoes
<1>17. Settled(h, f, NoNode)
  BY <1>2, <1>16 DEF Settled, ForEachs
<1>18. h.node[r] # "READY"
  BY <1>3, <1>14, ComposedAssumption DEF Going
<1>19. Going(r, h, ru, NoNode, fl)
  BY <1>13, <1>14, <1>17, <1>18 DEF Going
<1>20. ExForwardFinished(g, s, d) = h
  BY DEF ExForwardFinished, h, i, ready, flags
<1> QED BY <1>19, <1>20

-----------------------------------------------------------------------------
(* What a father makes of an event.                                        *)

(* The father of the hole has yet to answer.                               *)
Hole(l) == IF l.event \in {"FINISH", "ABORT"} THEN Owner(l.node) ELSE NoNode

Told(r, ru, fl, l) == Going(r, l.graph, ru, Hole(l), fl)

(* No structure ends before what it runs.                                  *)
Patient(r, kg) == kg /\ Lasts(r)

(* The father finds itself at work.                                        *)
LEMMA FatherWorks ==
  ASSUME NEW r \in Schemas, NEW kg \in BOOLEAN, Patient(r, kg), NEW lo, NEW la, NEW ru,
         NEW l, Sent(r, kg, lo, la, ru, l), l.event # "NOEVENT",
         NEW f, f = Father[Owner(l.node)], f # NoNode
  PROVE  LET g == l.graph
             s == Owner(l.node)
         IN  /\ g \in Graphs /\ Sound(r, kg, g, lo, la, ru) /\ Ordered(r, kg, g)
             /\ s \in Nodes /\ s \in Inside(r) /\ OpenChain(kg, g, s) /\ s \in Children[f]
             /\ \A k \in Nodes : s \in Children[k] => k = f
             /\ f \in Nodes /\ f \notin Tasks /\ Busy(r, kg, g, f)
             /\ g.node[f] = "ACTIVATED" /\ ~Waiting(g, f)
             /\ \A a \in g.arrived : a[1] # s
<1> DEFINE g == l.graph
           s == Owner(l.node)
<1>1. /\ Sound(r, kg, g, lo, la, ru) /\ s \in Inside(r) /\ OpenChain(kg, g, s)
      /\ \A a \in g.arrived : a[1] # s
  BY DEF Sent
<1>2. g \in Graphs /\ Ordered(r, kg, g)
  BY <1>1 DEF Sound
<1>3. s \in Nodes /\ Busy(r, kg, g, f)
  BY <1>1, <1>2, SenderIs
<1>4. f \in Nodes /\ f \notin Tasks /\ ~Waiting(g, f) /\ g.node[f] = "ACTIVATED"
  BY <1>3 DEF Busy, Patient
<1>5. s \in Children[f] /\ \A k \in Nodes : s \in Children[k] => k = f
  BY <1>3, <1>4 DEF Children
<1> QED BY <1>1, <1>2, <1>3, <1>4, <1>5

(* It ends, and says so.                                                   *)
LEMMA EndTold ==
  ASSUME NEW r \in Schemas, NEW g \in Graphs, NEW ru, NEW s, NEW fl, Going(r, g, ru, s, fl),
         NEW f \in Nodes, \A k \in Nodes : s \in Children[k] => k = f,
         g.node[f] = "ACTIVATED", ~Waiting(g, f),
         NEW b, NEW event,
         \/ event = "FINISH" /\ b = "DONE"
         \/ event = "ABORT" /\ b = "FAILED" /\ fl
  PROVE  Told(r, ru, fl, Answer(SetState(g, f, b), f, event))
<1>1. b \in Ended /\ b # "ERROR" /\ g.node[f] \in AtWork /\ (b # "DONE" => fl)
  BY DEF Ended, AtWork
<1>2. Going(r, SetState(g, f, b), ru, f, fl)
  BY <1>1, EndMoves
<1>3. Owner(f) = f
  BY OwnerIs
<1> QED BY <1>2, <1>3 DEF Told, Hole, Answer

LEMMA SilentTold ==
  ASSUME NEW r, NEW g, NEW ru, NEW fl, Going(r, g, ru, NoNode, fl), NEW f
  PROVE  Told(r, ru, fl, Answer(g, f, "NOEVENT"))
BY DEF Told, Hole, Answer

(* A turn of a ForLoop or of a WhileLoop is counted: it is the last, or    *)
(* the loop goes on.                                                       *)
LEMMA TurnTold ==
  ASSUME Sturdy, NEW r \in Schemas, NEW kg \in BOOLEAN, Patient(r, kg),
         NEW lo, NEW la, NEW ru, Dealt(lo, la, ru), NEW fl,
         NEW d \in Values(Controls \intersect Below[r]),
         NEW l, Sent(r, kg, lo, la, ru, l), l.event = "FINISH", Told(r, ru, fl, l),
         NEW f, f = Father[Owner(l.node)], f # NoNode, Kind[f] \in {"for", "while"}
  PROVE  LET counted == [l.graph EXCEPT !.turns[f] = @ + 1]
         IN  /\ Told(r, ru, fl, Answer(SetState(counted, f, "DONE"), f, "FINISH"))
             /\ Told(r, ru, fl, Answer(RunAgain(counted, Owner(l.node), d), f, "NOEVENT"))
             /\ SetState(counted, f, "ACTIVATED") = counted
             /\ f \in Controls /\ Body(f) = Owner(l.node)
<1> DEFINE g == l.graph
           s == Owner(l.node)
           h == [g EXCEPT !.turns[f] = @ + 1]
<1>1. /\ g \in Graphs /\ Sound(r, kg, g, lo, la, ru) /\ Ordered(r, kg, g)
      /\ s \in Nodes /\ s \in Inside(r) /\ OpenChain(kg, g, s) /\ s \in Children[f]
      /\ \A k \in Nodes : s \in Children[k] => k = f
      /\ f \in Nodes /\ f \notin Tasks /\ Busy(r, kg, g, f)
      /\ g.node[f] = "ACTIVATED" /\ ~Waiting(g, f) /\ kg \in BOOLEAN
  <2>1. kg \in BOOLEAN /\ Sent(r, kg, lo, la, ru, l) /\ Patient(r, kg)
    BY HierarchyAssumption
  <2> QED BY <2>1, FatherWorks
<1>2. f \in Controls /\ f \notin ForEachs /\ g.node[s] = "DONE" /\ Body(f) = s
  <2>1. f \in Controls
    BY <1>1, ComposedAssumption
  <2> QED BY <1>1, <2>1, BodyIs DEF ForEachs, Sent
<1>3. /\ h \in Graphs /\ h.node = g.node /\ h.arrived = g.arrived /\ h.runs = g.runs
      /\ h.errors = g.errors /\ h.ids = g.ids /\ Sound(r, kg, h, lo, la, ru)
  BY <1>1, <1>2, TurnKeeps
<1> HIDE DEF h
<1>4. Going(r, g, ru, s, fl)
  BY DEF Told, Hole
<1>5. Going(r, h, ru, s, fl)
  BY <1>3, <1>4, RecountMoves
<1>6. Told(r, ru, fl, Answer(SetState(h, f, "DONE"), f, "FINISH"))
  <2>1. h.node[f] = "ACTIVATED" /\ ~Waiting(h, f)
    BY <1>1, <1>3 DEF Waiting
  <2> QED BY <1>1, <1>3, <1>5, <2>1, EndTold
<1>7. SetState(h, f, "ACTIVATED") = h
  BY <1>1, <1>3, SameState
<1>8. Going(r, RunAgain(h, s, d), ru, NoNode, fl)
  <2>1. OpenChain(kg, h, s) /\ Ordered(r, kg, h)
    BY <1>1, <1>3, SameIs DEF Sound
  <2>2. Clean(h, s)
    BY <1>1, <1>2, <1>3, <2>1 DEF Ordered, DoneIsClean
  <2>3. Repeatable(r, kg, h, s) /\ h.node[Father[s]] = "ACTIVATED" /\ kg \in BOOLEAN
    BY <1>1, <1>2, <1>3, <2>1, <2>2 DEF Repeatable
  <2> QED BY <1>3, <1>5, <2>1, <2>3, LoopGoesOn
<1>9. Told(r, ru, fl, Answer(RunAgain(h, s, d), f, "NOEVENT"))
  BY <1>8, SilentTold
<1> QED BY <1>2, <1>6, <1>7, <1>9 DEF h

(* All that a bloc runs has ended.                                         *)
LEMMA BlocEndsTold ==
  ASSUME NEW r \in Schemas, NEW g \in Graphs, NEW ru, NEW s, NEW fl, Going(r, g, ru, s, fl),
         NEW f \in Nodes, \A k \in Nodes : s \in Children[k] => k = f,
         g.node[f] = "ACTIVATED", ~Waiting(g, f), AllEnded(g, Children[f])
  PROVE  Told(r, ru, fl, BlocEnds(g, f))
<1>1. CASE AllDone(g, Children[f])
  BY <1>1, EndTold DEF BlocEnds
<1>2. CASE ~AllDone(g, Children[f])
  <2>1. fl
    <3> SUFFICES ASSUME ~fl PROVE FALSE
      OBVIOUS
    <3>1. PICK n \in Children[f] : g.node[n] \in {"FAILED", "ERROR"}
      BY <1>2 DEF AllDone, AllEnded, Ended
    <3>2. n \in Nodes
      BY ChildIs
    <3> QED BY <3>1, <3>2 DEF Going, Steady, Untroubled
  <2> QED BY <1>2, <2>1, EndTold DEF BlocEnds
<1> QED BY <1>1, <1>2

LEMMA BlocTold ==
  ASSUME Sturdy, NEW r \in Schemas, NEW kg \in BOOLEAN, Patient(r, kg),
         NEW lo, NEW la, NEW ru, Dealt(lo, la, ru), NEW fl,
         NEW d, d.start \in Values(Controls \intersect Below[r]),
         NEW l, Sent(r, kg, lo, la, ru, l), Told(r, ru, fl, l),
         NEW f, f = Father[Owner(l.node)], f # NoNode, Kind[f] = "bloc"
  PROVE  /\ l.event = "FINISH" => Told(r, ru, fl, BlocFinished(l.graph, f, l.node, d))
         /\ l.event = "ABORT" => Told(r, ru, fl, BlocFailed(l.graph, f, l.node))
<1> DEFINE g == l.graph
           s == Owner(l.node)
           h == ExForwardFailed(g, s)
<1>1. SUFFICES ASSUME l.event \in {"FINISH", "ABORT"}
               PROVE  /\ l.event = "FINISH" => Told(r, ru, fl, BlocFinished(g, f, l.node, d))
                      /\ l.event = "ABORT" => Told(r, ru, fl, BlocFailed(g, f, l.node))
  OBVIOUS
<1>2. /\ g \in Graphs /\ Sound(r, kg, g, lo, la, ru) /\ Ordered(r, kg, g)
      /\ s \in Nodes /\ s \in Inside(r) /\ OpenChain(kg, g, s)
      /\ \A k \in Nodes : s \in Children[k] => k = f
      /\ f \in Nodes /\ g.node[f] = "ACTIVATED" /\ ~Waiting(g, f)
      /\ \A a \in g.arrived : a[1] # s
      /\ kg \in BOOLEAN
  <2>1. kg \in BOOLEAN /\ Sent(r, kg, lo, la, ru, l) /\ Patient(r, kg)
    BY HierarchyAssumption
  <2> QED BY <1>1, <2>1, FatherWorks
<1>3. Going(r, g, ru, s, fl)
  BY <1>1 DEF Told, Hole
<1>4. ASSUME l.event = "FINISH" PROVE Told(r, ru, fl, BlocFinished(g, f, l.node, d))
  <2>1. CASE AllEnded(g, Children[f])
    BY <1>2, <1>3, <2>1, BlocEndsTold DEF BlocFinished
  <2>2. CASE ~AllEnded(g, Children[f])
    <3>1. g.node[s] = "DONE"
      BY <1>4 DEF Sent
    <3>2. Going(r, ExForwardFinished(g, s, d.start), ru, NoNode, fl)
      BY <1>2, <1>3, <2>2, <3>1, FinishedMoves
    <3> QED BY <2>2, <3>2, SilentTold DEF BlocFinished
  <2> QED BY <2>1, <2>2
<1>5. ASSUME l.event = "ABORT" PROVE Told(r, ru, fl, BlocFailed(g, f, l.node))
  <2>1. g.node[s] \in {"FAILED", "ERROR"}
    BY <1>5 DEF Sent
  <2>2. /\ Going(r, h, ru, s, fl)
        /\ ~AllEnded(h, Children[f]) => Going(r, h, ru, NoNode, fl)
        /\ h \in Graphs /\ h.node[f] = "ACTIVATED" /\ (Waiting(h, f) <=> Waiting(g, f))
    BY <1>2, <1>3, <2>1, FailedMoves
  <2>3. BlocFailed(g, f, l.node) =
          IF AllEnded(h, Children[f]) THEN BlocEnds(h, f) ELSE Answer(h, f, "NOEVENT")
    BY DEF BlocFailed
  <2> HIDE DEF h
  <2> QED BY <1>2, <2>2, <2>3, BlocEndsTold, SilentTold
<1> QED BY <1>4, <1>5

(* A branch of a ForEachLoop has ended its sample.                         *)
LEMMA WorkNodeTold ==
  ASSUME Sturdy, NEW r \in Schemas, NEW kg \in BOOLEAN,
         NEW lo, NEW la, NEW ru, Dealt(lo, la, ru), NEW fl,
         NEW d, d.start \in Values(Controls \intersect Below[r]),
         NEW g, Sound(r, kg, g, lo, la, ru),
         NEW s \in Nodes, s \in Inside(r), OpenChain(kg, g, s), g.node[s] \notin AtWork,
         NEW f, f = Father[s], f # NoNode, Kind[f] = "foreach",
         Clean(g, s) \/ g.errors[f] # 0,
         g.node[f] = "ACTIVATED", ~Waiting(g, f), Going(r, g, ru, s, fl)
  PROVE  Told(r, ru, fl, WorkNodeOver(g, f, s, d))
<1>1. /\ g \in Graphs /\ kg \in BOOLEAN /\ f \in Nodes /\ f \in ForEachs /\ f \in Controls
      /\ s \in Children[f] /\ \A k \in Nodes : s \in Children[k] => k = f
      /\ Sound(r, kg, g, lo, la, ru)
  BY HierarchyAssumption, FatherIs, ComposedAssumption DEF Sound, Children, ForEachs
<1>2. CASE g.current[f] = g.count[f]
  <2> DEFINE h == [g EXCEPT !.ids[s] = NotRunning]
  <2>1. /\ h \in Graphs /\ h.node = g.node /\ h.arrived = g.arrived /\ h.runs = g.runs
        /\ h.errors = g.errors /\ h.ids = [g.ids EXCEPT ![s] = NotRunning]
    BY <1>1 DEF Graphs, NotRunning
  <2>2. WorkNodeOver(g, f, s, d) =
          IF ~NoBranchRunning(h, f) THEN Answer(h, f, "NOEVENT")
          ELSE IF h.errors[f] # 0 THEN Answer(SetState(h, f, "FAILED"), f, "ABORT")
          ELSE Answer(SetState(h, f, "DONE"), f, "FINISH")
    BY <1>2 DEF WorkNodeOver
  <2> HIDE DEF h
  <2>3. h.ids[s] = NotRunning /\ \A m \in Nodes \ {s} : h.ids[m] = g.ids[m]
    BY <1>1, <2>1 DEF Graphs
  <2>4. Going(r, h, ru, s, fl)
    <3>1. h.node = g.node /\ h.arrived = g.arrived /\ h.runs = g.runs /\ h.errors = g.errors
      BY <2>1
    <3>2. \A m \in Nodes \ {s} : h.ids[m] = g.ids[m]
      BY <2>3
    <3> QED BY <3>1, <3>2, RecountMoves
  <2>5. h.node[f] = "ACTIVATED" /\ ~Waiting(h, f)
    BY <2>1 DEF Waiting
  <2>6. CASE ~NoBranchRunning(h, f)
    <3>1. PICK n \in Children[f] : h.ids[n] # NotRunning
      BY <2>6 DEF NoBranchRunning
    <3>2. n \in Nodes /\ Father[n] = f /\ n # s
      BY <1>1, <2>3, <3>1, ChildIs
    <3>3. ForEachGoes(h, f, s)
      BY <1>1, <2>4, <2>5 DEF Going, Settled
    <3>4. h.node[n] \in AtWork
      BY <3>1, <3>2, <3>3 DEF ForEachGoes
    <3>5. h.runs[f] = "body"
      <4>1. Open(kg, g, s)
        BY DEF OpenChain, Chain
      <4> QED BY <2>1, <4>1 DEF Open
    <3>6. Runs(h, n)
      BY <2>5, <3>2, <3>5 DEF Runs
    <3>7. ControlGoes(h, f, NoNode) /\ ForEachGoes(h, f, NoNode)
      BY <2>3, <3>1, <3>3, <3>4, <3>6 DEF ControlGoes, ForEachGoes
    <3>8. Settled(h, f, NoNode)
      BY <3>7 DEF Settled
    <3>9. \A k \in Nodes \ {f} : Settled(h, k, NoNode)
      <4> SUFFICES ASSUME NEW k \in Nodes \ {f} PROVE Settled(h, k, NoNode)
        OBVIOUS
      <4>1. s \notin Children[k] /\ Alike(h, h, k) /\ Settled(h, k, s)
        BY <1>1, <2>4 DEF Alike, Going
      <4> QED BY <4>1, AlikeSettles
    <3>10. Going(r, h, ru, NoNode, fl)
      BY <2>4, <3>8, <3>9 DEF Going
    <3> QED BY <2>2, <2>6, <3>10, SilentTold
  <2>7. CASE NoBranchRunning(h, f) /\ h.errors[f] # 0
    <3>1. fl
      BY <1>1, <2>4, <2>7 DEF Going, Steady, Untroubled
    <3>2. Told(r, ru, fl, Answer(SetState(h, f, "FAILED"), f, "ABORT"))
      BY <1>1, <2>1, <2>4, <2>5, <3>1, EndTold
    <3> QED BY <2>2, <2>7, <3>2
  <2>8. CASE NoBranchRunning(h, f) /\ h.errors[f] = 0
    <3>1. Told(r, ru, fl, Answer(SetState(h, f, "DONE"), f, "FINISH"))
      BY <1>1, <2>1, <2>4, <2>5, EndTold
    <3> QED BY <2>2, <2>8, <3>1
  <2> QED BY <2>6, <2>7, <2>8
<1>3. CASE g.current[f] # g.count[f]
  <2> DEFINE next == [g EXCEPT !.ids[s] = g.current[f], !.current[f] = @ + 1]
             h == RunAgain(next, s, d.start)
  <2>1. /\ next \in Graphs /\ next.node = g.node /\ next.arrived = g.arrived /\ next.runs = g.runs
        /\ next.errors = g.errors /\ next.ids = [g.ids EXCEPT ![s] = g.current[f]]
        /\ g.current[f] # NotRunning
    <3> DEFINE ids == [g.ids EXCEPT ![s] = g.current[f]]
               current == [g.current EXCEPT ![f] = @ + 1]
    <3>1. g.current[f] \in Nat
      BY <1>1 DEF Graphs
    <3>2. ids \in [Nodes -> Int] /\ current \in [Controls -> Nat]
      BY <1>1, <3>1 DEF Graphs
    <3>3. next = [g EXCEPT !.ids = ids, !.current = current]
      OBVIOUS
    <3> HIDE DEF next, ids, current
    <3>4. /\ next \in Graphs /\ next.node = g.node /\ next.arrived = g.arrived /\ next.runs = g.runs
          /\ next.errors = g.errors /\ next.ids = ids
      BY <1>1, <3>2, <3>3 DEF Graphs
    <3> QED BY <3>1, <3>4 DEF ids, NotRunning
  <2>2. WorkNodeOver(g, f, s, d) = Answer(h, f, "NOEVENT")
    BY <1>3 DEF WorkNodeOver
  <2> HIDE DEF next
  <2>3. next.ids[s] # NotRunning /\ \A m \in Nodes \ {s} : next.ids[m] = g.ids[m]
    BY <1>1, <2>1 DEF Graphs
  <2>4. Recounted(kg, g, next, f, s)
    BY <1>1, <2>1, <2>3 DEF Recounted
  <2>5. Ordered(r, kg, next)
    BY <1>1, <2>4, RecountKeeps DEF Sound
  <2>6. OpenChain(kg, next, s) /\ (Clean(next, s) \/ next.errors[f] # 0)
    BY <2>1, SameIs
  <2>7. Repeatable(r, kg, next, s) /\ next.node[Father[s]] = "ACTIVATED"
    BY <1>1, <2>1, <2>3, <2>6 DEF Repeatable
  <2>8. Going(r, next, ru, s, fl)
    <3>1. next.node = g.node /\ next.arrived = g.arrived /\ next.runs = g.runs /\ next.errors = g.errors
      BY <2>1
    <3>2. \A m \in Nodes \ {s} : next.ids[m] = g.ids[m]
      BY <2>3
    <3> QED BY <3>1, <3>2, RecountMoves
  <2>9. Going(r, h, ru, NoNode, fl)
    BY <1>1, <2>1, <2>5, <2>7, <2>8, LoopGoesOn
  <2> HIDE DEF h
  <2> QED BY <2>2, <2>9, SilentTold
<1> QED BY <1>2, <1>3

LEMMA ForEachTold ==
  ASSUME Tame, Sturdy, NEW r \in Schemas, NEW kg \in BOOLEAN, Patient(r, kg),
         NEW lo, NEW la, NEW ru, Dealt(lo, la, ru), NEW fl,
         NEW d, d.start \in Values(Controls \intersect Below[r]),
         NEW l, Sent(r, kg, lo, la, ru, l), Told(r, ru, fl, l),
         NEW f, f = Father[Owner(l.node)], f # NoNode, Kind[f] = "foreach"
  PROVE  /\ l.event = "FINISH" => Told(r, ru, fl, OnFinished(l.graph, f, l.node, d))
         /\ l.event = "ABORT" => Told(r, ru, fl, OnFailed(l.graph, f, l.node, d))
<1> DEFINE g == l.graph
           s == Owner(l.node)
           counted == [g EXCEPT !.errors[f] = @ + 1]
<1>1. SUFFICES ASSUME l.event \in {"FINISH", "ABORT"}
               PROVE  /\ l.event = "FINISH" => Told(r, ru, fl, OnFinished(g, f, l.node, d))
                      /\ l.event = "ABORT" => Told(r, ru, fl, OnFailed(g, f, l.node, d))
  OBVIOUS
<1>2. /\ g \in Graphs /\ Sound(r, kg, g, lo, la, ru) /\ Ordered(r, kg, g)
      /\ s \in Nodes /\ s \in Inside(r) /\ OpenChain(kg, g, s) /\ s \in Children[f]
      /\ \A k \in Nodes : s \in Children[k] => k = f
      /\ f \in Nodes /\ g.node[f] = "ACTIVATED" /\ ~Waiting(g, f) /\ Busy(r, kg, g, f)
      /\ kg \in BOOLEAN
  <2>1. kg \in BOOLEAN /\ Sent(r, kg, lo, la, ru, l) /\ Patient(r, kg)
    BY HierarchyAssumption
  <2> QED BY <1>1, <2>1, FatherWorks
<1>3. Going(r, g, ru, s, fl)
  BY <1>1 DEF Told, Hole
<1>4. f \in Controls /\ f \in ForEachs
  BY <1>2, ComposedAssumption DEF ForEachs
<1>5. l.node = s /\ l.node \notin Fakes /\ g.node[s] \in Ended /\ g.node[s] \notin AtWork
  <2>1. l.node \in Nodes \union Fakes
    BY <1>1 DEF Sent
  <2>2. l.node \notin Fakes
    BY <1>2, <1>4, OwnerIs DEF Tame
  <2>3. g.node[s] \in Ended
    BY <1>1 DEF Sent, Ended
  <2> QED BY <2>1, <2>2, <2>3, OwnerIs DEF Ended, AtWork
<1>6. ASSUME l.event = "FINISH" PROVE Told(r, ru, fl, OnFinished(g, f, l.node, d))
  <2>1. Clean(g, s)
    BY <1>2, <1>6 DEF Sent, Ordered, DoneIsClean
  <2>2. Told(r, ru, fl, WorkNodeOver(g, f, s, d))
    BY <1>2, <1>3, <1>5, <2>1, WorkNodeTold
  <2> QED BY <1>5, <2>2 DEF OnFinished
<1>7. ASSUME l.event = "ABORT" PROVE Told(r, ru, fl, OnFailed(g, f, l.node, d))
  <2>1. /\ counted \in Graphs /\ counted.node = g.node /\ counted.arrived = g.arrived
        /\ counted.runs = g.runs /\ counted.ids = g.ids
        /\ \A c \in Controls \ {f} : counted.errors[c] = g.errors[c]
        /\ counted.errors[f] # 0
    BY <1>2, <1>4 DEF Graphs
  <2>2. OnFailed(g, f, l.node, d) = WorkNodeOver(counted, f, s, d)
    <3>1. keepGoing
      BY <1>2, <1>4, LastingIs DEF Patient
    <3> QED BY <1>5, <3>1 DEF OnFailed
  <2> HIDE DEF counted
  <2>3. Recounted(kg, g, counted, f, s)
    <3>1. kg
      BY DEF Patient
    <3> QED BY <1>4, <2>1, <3>1 DEF Recounted
  <2>4. Sound(r, kg, counted, lo, la, ru) /\ OpenChain(kg, counted, s)
    BY <1>2, <1>4, <2>3, RecountKeeps
  <2>5. Going(r, counted, ru, s, fl)
    <3>1. ~fl => g.node[s] \notin {"FAILED", "ERROR"}
      BY <1>2, <1>3 DEF Going, Steady, Untroubled
    <3>2. g.node[s] \in {"FAILED", "ERROR"}
      BY <1>7 DEF Sent
    <3>3. ~fl => counted.errors = g.errors
      BY <3>1, <3>2
    <3>4. \A m \in Nodes \ {s} : counted.ids[m] = g.ids[m]
      BY <2>1
    <3>5. counted.node = g.node /\ counted.arrived = g.arrived /\ counted.runs = g.runs
      BY <2>1
    <3> HIDE DEF g, s
    <3> QED BY <1>3, <3>3, <3>4, <3>5, RecountMoves
  <2>6. counted.node[f] = "ACTIVATED" /\ ~Waiting(counted, f) /\ counted.node[s] \notin AtWork
    BY <1>2, <1>5, <2>1 DEF Waiting
  <2>7. Told(r, ru, fl, WorkNodeOver(counted, f, s, d))
    <3>1. Clean(counted, s) \/ counted.errors[f] # 0
      BY <2>1
    <3>2. f = Father[s] /\ kg \in BOOLEAN
      BY <1>2
    <3> QED BY <1>2, <2>4, <2>5, <2>6, <3>1, <3>2, WorkNodeTold
  <2> QED BY <2>2, <2>7
<1> QED BY <1>6, <1>7

(* An answer is that of the father.                                        *)
LEMMA AnswersItself ==
  ASSUME NEW l, l.event \in {"START", "FINISH", "ABORT"}, NEW d,
         NEW f, Kind[f] \in {"bloc", "for", "while", "switch", "foreach"}
  PROVE  UpdateStateFrom(l, f, d).node = f
<1>1. \A g, n : /\ BlocEnds(g, f).node = f /\ BlocFinished(g, f, n, d).node = f
                /\ BlocFailed(g, f, n).node = f
  BY DEF BlocEnds, BlocFinished, BlocFailed, Answer
<1>2. \A g, n : /\ ForFinished(g, f, d).node = f /\ WhileFinished(g, f, n, d).node = f
                /\ Unrecognized(g, f).node = f
  BY DEF ForFinished, WhileFinished, Unrecognized, Answer
<1>3. \A g, n : WorkNodeOver(g, f, n, d).node = f
  BY DEF WorkNodeOver, Answer
<1>4. \A g, n : OnFinished(g, f, n, d).node = f
  BY <1>1, <1>2, <1>3 DEF OnFinished, Answer
<1>5. \A g, n : OnFailed(g, f, n, d).node = f
  BY <1>1, <1>2, <1>3 DEF OnFailed, Answer
<1> QED BY <1>4, <1>5 DEF UpdateStateFrom, Answer

LEMMA UpdateTold ==
  ASSUME Tame, Sturdy, NEW r \in Schemas, NEW kg \in BOOLEAN, Patient(r, kg),
         NEW lo, NEW la, NEW ru, Dealt(lo, la, ru), NEW fl,
         NEW d, d.start \in Values(Controls \intersect Below[r]),
         NEW l, Sent(r, kg, lo, la, ru, l), Told(r, ru, fl, l),
         l.event # "NOEVENT", NEW f, f = Father[Owner(l.node)], f # NoNode
  PROVE  LET m == UpdateStateFrom(l, f, d)
         IN  Told(r, ru, fl, m) /\ m.node = f /\ Owner(m.node) = f /\ f \in Nodes
<1> DEFINE g == l.graph
           s == Owner(l.node)
<1>1. /\ l.event \in {"START", "FINISH", "ABORT"} /\ kg \in BOOLEAN /\ Patient(r, kg)
      /\ Sent(r, kg, lo, la, ru, l)
  BY HierarchyAssumption DEF Sent
<1>2. /\ g \in Graphs /\ s \in Nodes /\ \A k \in Nodes : s \in Children[k] => k = f
      /\ f \in Nodes /\ g.node[f] = "ACTIVATED" /\ ~Waiting(g, f)
  BY <1>1, FatherWorks
<1>3. Kind[f] \in {"bloc", "for", "while", "switch", "foreach"}
  BY <1>2, FatherIs
<1>7. SUFFICES Told(r, ru, fl, UpdateStateFrom(l, f, d))
  BY <1>1, <1>2, <1>3, AnswersItself, OwnerIs
<1>4. CASE l.event = "START"
  <2>1. UpdateStateFrom(l, f, d) = Answer(g, f, "START")
    BY <1>2, <1>4, SameState DEF UpdateStateFrom
  <2> QED BY <1>4, <2>1 DEF Told, Hole, Answer
<1>5. CASE l.event = "FINISH"
  <2>1. UpdateStateFrom(l, f, d) = OnFinished(g, f, l.node, d)
    BY <1>5 DEF UpdateStateFrom
  <2>2. Going(r, g, ru, s, fl)
    BY <1>5 DEF Told, Hole
  <2>3. CASE Kind[f] = "bloc"
    <3>1. Told(r, ru, fl, BlocFinished(g, f, l.node, d))
      BY <1>1, <1>5, <2>3, BlocTold
    <3> QED BY <2>1, <2>3, <3>1 DEF OnFinished
  <2>4. CASE Kind[f] \in {"for", "while"}
    <3> DEFINE counted == [g EXCEPT !.turns[f] = @ + 1]
    <3>1. /\ Told(r, ru, fl, Answer(SetState(counted, f, "DONE"), f, "FINISH"))
          /\ Told(r, ru, fl, Answer(RunAgain(counted, s, d.start), f, "NOEVENT"))
          /\ SetState(counted, f, "ACTIVATED") = counted
          /\ f \in Controls /\ Body(f) = s
      <4>1. PICK dd \in Values(Controls \intersect Below[r]) : dd = d.start
        OBVIOUS
      <4>2. kg \in BOOLEAN /\ Patient(r, kg) /\ Sent(r, kg, lo, la, ru, l) /\ Kind[f] \in {"for", "while"}
        BY <1>1, <2>4
      <4>3. /\ Told(r, ru, fl, Answer(SetState(counted, f, "DONE"), f, "FINISH"))
            /\ Told(r, ru, fl, Answer(RunAgain(counted, s, dd), f, "NOEVENT"))
            /\ SetState(counted, f, "ACTIVATED") = counted
            /\ f \in Controls /\ Body(f) = s
        BY <1>5, <4>2, TurnTold
      <4> QED BY <4>1, <4>3
    <3>2. CASE Kind[f] = "for"
      BY <2>1, <3>1, <3>2 DEF OnFinished, ForFinished
    <3>3. CASE Kind[f] = "while"
      <4>1. l.node = s
        <5>1. s \notin Controls
          BY <1>2, <3>1, <3>3 DEF Sturdy, Children
        <5>2. l.node \in Nodes \union Fakes
          BY <1>5 DEF Sent
        <5> QED BY <5>1, <5>2, OwnerIs
      <4> QED BY <2>1, <3>1, <3>3, <4>1 DEF OnFinished, WhileFinished
    <3> QED BY <2>4, <3>2, <3>3
  <2>5. CASE Kind[f] = "switch"
    <3>1. Told(r, ru, fl, Answer(SetState(g, f, "DONE"), f, "FINISH"))
      BY <1>2, <2>2, EndTold
    <3> QED BY <2>1, <2>5, <3>1 DEF OnFinished
  <2>6. CASE Kind[f] = "foreach"
    BY <1>1, <1>5, <2>1, <2>6, ForEachTold
  <2> QED BY <1>3, <2>3, <2>4, <2>5, <2>6
<1>6. CASE l.event = "ABORT"
  <2>1. UpdateStateFrom(l, f, d) = OnFailed(g, f, l.node, d)
    BY <1>6 DEF UpdateStateFrom
  <2>2. Going(r, g, ru, s, fl)
    BY <1>6 DEF Told, Hole
  <2>3. CASE Kind[f] = "bloc"
    <3>1. Told(r, ru, fl, BlocFailed(g, f, l.node))
      BY <1>1, <1>6, <2>3, BlocTold
    <3> QED BY <2>1, <2>3, <3>1 DEF OnFailed
  <2>4. CASE Kind[f] \in {"for", "while", "switch"}
    <3>1. fl
      <4>1. g.node[s] \in {"FAILED", "ERROR"}
        BY <1>6 DEF Sent
      <4> QED BY <1>2, <2>2, <4>1 DEF Going, Steady, Untroubled
    <3>2. Told(r, ru, fl, Answer(SetState(g, f, "FAILED"), f, "ABORT"))
      BY <1>2, <2>2, <3>1, EndTold
    <3> QED BY <2>1, <2>4, <3>2 DEF OnFailed
  <2>5. CASE Kind[f] = "foreach"
    BY <1>1, <1>6, <2>1, <2>5, ForEachTold
  <2> QED BY <1>3, <2>3, <2>4, <2>5
<1> QED BY <1>1, <1>4, <1>5, <1>6


(* An event that has climbed all the levels has been answered.             *)
LEMMA NotifyTold ==
  ASSUME Tame, Sturdy, NEW r \in Schemas, NEW kg \in BOOLEAN, Patient(r, kg),
         Suits(r, kg), (kg <=> Lasts(r)),
         NEW lo, NEW la, NEW ru, Dealt(lo, la, ru), NEW fl,
         NEW d, d.start \in Values(Controls \intersect Below[r]),
         NEW g, NEW t, NEW event, Sent(r, kg, lo, la, ru, Answer(g, t, event)),
         Told(r, ru, fl, Answer(g, t, event))
  PROVE  Going(r, NotifyFrom(g, t, event, d), ru, NoNode, fl)
<1> DEFINE size(n) == Cardinality(Ancestors[n])
           up(l) == Upwards(l, d)
           climbed(l, k) == l.event = "NOEVENT" \/ Father[Owner(l.node)] = NoNode
                            \/ size(Owner(l.node)) + k <= Depth
           good(l) == Sent(r, kg, lo, la, ru, l) /\ Told(r, ru, fl, l)
<1>1. Depth \in Nat /\ Nodes # {} /\ \A n \in Nodes : size(n) <= Depth
  BY DepthIs, ComposedAssumption
<1>2. \A n \in Nodes : size(n) \in Nat /\ IsFiniteSet(Ancestors[n])
  BY AncestorsAre, HierarchyAssumption, FS_Subset, FS_CardinalityType
<1>3. ASSUME NEW n \in Nodes, Father[n] # NoNode
      PROVE  Father[n] \in Nodes /\ size(n) = size(Father[n]) + 1
  <2>1. /\ Father[n] \in Nodes /\ Ancestors[n] = Ancestors[Father[n]] \union {Father[n]}
        /\ Father[n] \notin Ancestors[Father[n]]
    BY <1>3, FatherIs, AncestorsAre
  <2> QED BY <1>2, <2>1, FS_AddElement
<1>4. PICK level : /\ NotifyFrom(g, t, event, d) = level[Depth].graph
                   /\ level[0] = Answer(g, t, event)
                   /\ \A k \in 1..Depth : level[k] = up(level[k - 1])
  BY <1>1, LevelsAre
<1>5. \A l : good(l) /\ l.event # "NOEVENT" => Owner(l.node) \in Nodes
  BY InsideIs, ComposedAssumption DEF Sent
<1>6. good(level[0]) /\ climbed(level[0], 0)
  <2>1. good(level[0])
    BY <1>4
  <2>2. level[0].event # "NOEVENT" => Owner(level[0].node) \in Nodes
    BY <1>5, <2>1
  <2> QED BY <1>1, <1>2, <2>1, <2>2
<1>7. ASSUME NEW l, NEW k \in Nat, good(l), climbed(l, k)
      PROVE  good(up(l)) /\ climbed(up(l), k + 1)
  <2>1. CASE l.event = "NOEVENT" \/ Father[Owner(l.node)] = NoNode
    BY <1>7, <2>1 DEF Upwards
  <2>2. CASE l.event # "NOEVENT" /\ Father[Owner(l.node)] # NoNode
    <3> DEFINE f == Father[Owner(l.node)]
               m == UpdateStateFrom(l, f, d)
    <3>1. Climbs(r, kg, lo, la, ru, l, m)
      BY <1>7, <2>2, UpdateClimbs
    <3>2. Told(r, ru, fl, m) /\ m.node = f /\ Owner(m.node) = f /\ f \in Nodes
      BY <1>7, <2>2, UpdateTold
    <3>3. up(l) = m
      BY <2>2 DEF Upwards
    <3>4. size(Owner(l.node)) = size(f) + 1 /\ size(f) \in Nat /\ size(Owner(l.node)) + k <= Depth
      BY <1>2, <1>3, <1>5, <1>7, <2>2
    <3> HIDE DEF m, up, size
    <3>5. good(m)
      BY <3>1, <3>2 DEF Climbs
    <3>6. size(Owner(m.node)) + (k + 1) <= Depth
      BY <1>1, <3>2, <3>4
    <3> QED BY <3>3, <3>5, <3>6
  <2> QED BY <2>1, <2>2
<1> HIDE DEF up, good, climbed
<1>8. \A k \in 0..Depth : good(level[k]) /\ climbed(level[k], k)
  <2> DEFINE bad == {k \in 0..Depth : ~(good(level[k]) /\ climbed(level[k], k))}
  <2>1. SUFFICES ASSUME bad # {} PROVE FALSE
    OBVIOUS
  <2>2. bad \in SUBSET Nat
    BY <1>1
  <2>3. PICK k \in bad : \A i \in bad : ~(i < k)
    <3> HIDE DEF bad
    <3> QED BY <2>1, <2>2, LeastIs
  <2>4. k \in 0..Depth /\ ~(good(level[k]) /\ climbed(level[k], k)) /\ k # 0
    BY <1>6, <2>3
  <2>5. k \in 1..Depth /\ k - 1 \in 0..Depth /\ k - 1 < k /\ k - 1 \in Nat /\ (k - 1) + 1 = k
    BY <1>1, <2>4
  <2>6. good(level[k - 1]) /\ climbed(level[k - 1], k - 1)
    BY <2>3, <2>5
  <2>7. good(up(level[k - 1])) /\ climbed(up(level[k - 1]), (k - 1) + 1)
    BY <1>7, <2>5, <2>6
  <2>8. up(level[k - 1]) = level[k]
    BY <1>4, <2>5
  <2> QED BY <2>4, <2>5, <2>7, <2>8
<1> DEFINE l == level[Depth]
<1>9. good(l) /\ climbed(l, Depth)
  BY <1>1, <1>8
<1>10. l.event = "NOEVENT" \/ Father[Owner(l.node)] = NoNode
  <2> SUFFICES ASSUME l.event # "NOEVENT", Father[Owner(l.node)] # NoNode PROVE FALSE
    OBVIOUS
  <2>1. Owner(l.node) \in Nodes
    BY <1>5, <1>9
  <2>2. size(Owner(l.node)) + Depth <= Depth
    BY <1>9 DEF climbed
  <2>3. size(Owner(l.node)) = size(Father[Owner(l.node)]) + 1 /\ size(Father[Owner(l.node)]) \in Nat
    BY <1>2, <1>3, <2>1
  <2> HIDE DEF size, l
  <2> QED BY <1>1, <2>2, <2>3
<1> HIDE DEF l
<1>11. Going(r, l.graph, ru, Hole(l), fl)
  BY <1>9 DEF good, Told
<1>12. CASE l.event \in {"FINISH", "ABORT"}
  <2>1. Hole(l) = Owner(l.node) /\ Owner(l.node) \in Nodes /\ Father[Owner(l.node)] = NoNode
    BY <1>5, <1>9, <1>10, <1>12 DEF Hole
  <2>2. \A k \in Nodes : Hole(l) \in Children[k] => k = NoNode
    BY <2>1 DEF Children
  <2>3. Going(r, l.graph, ru, NoNode, fl)
    BY <1>11, <2>2, HoleElsewhere
  <2> QED BY <1>4, <2>3 DEF l
<1>13. CASE l.event \notin {"FINISH", "ABORT"}
  BY <1>4, <1>11, <1>13 DEF Hole, l
<1> QED BY <1>12, <1>13


-----------------------------------------------------------------------------
(* The actions of the first run.                                           *)

LEMMA PatientIs ==
  ASSUME Sturdy, First
  PROVE  Patient(root, Lasting)
<1>1. root \in Schemas /\ keepGoing \in KeepGoings[root] /\ keepGoing \in BOOLEAN
  BY HierarchyAssumption DEF First, FirstTyped
<1>2. Lasts(root)
  <2>1. keepGoing = TRUE \/ keepGoing = FALSE
    BY <1>1
  <2> QED BY <1>1, <2>1 DEF Lasts, Sturdy
<1> QED BY <1>2 DEF Patient, Lasting

LEMMA NobodysChild ==
  ASSUME NEW k \in Nodes, NoNode \in Children[k]
  PROVE  FALSE
BY ChildIs, ComposedAssumption

LEMMA InitGoing ==
  ASSUME Tame, Sturdy, Init
  PROVE  FirstGoing
<1> DEFINE g == InitialGraph
           ns == {root}
<1>1. /\ root \in Schemas /\ root \in Nodes /\ Father[root] = NoNode /\ NoNode \notin Nodes
      /\ phase = "select" /\ running = {} /\ failed = FALSE /\ Kind[root] = "bloc"
  BY ComposedAssumption DEF Init
<1>2. PICK d \in Values(Controls \intersect Below[root]) : graph = ExUpdateState(g, ns, d)
  BY DEF Init
<1>3. g \in Graphs /\ Ordered(root, TRUE, g) /\ Startable(root, TRUE, g, ns)
  BY <1>1, InitialIs DEF Sound
<1>4. Started(root, g, graph, Reached(g, ns, d), ns, d)
  BY <1>1, <1>2, <1>3, StartIs
<1>5. /\ g.node = [n \in Nodes \union Fakes |-> "READY"]
      /\ g.runs = [c \in Controls |-> "nothing"] /\ g.errors = [c \in Controls |-> 0]
  BY DEF InitialGraph
<1> HIDE DEF g
<1>6. \A n \in Nodes : g.node[n] = "READY"
  BY <1>5
<1>7. Steady(g, {}, FALSE)
  <2>1. Controls \subseteq Nodes /\ Tasks \subseteq Nodes
    BY OwnerIs
  <2>2. FakeHeld(g, {}) /\ TaskHeld(g, {}) /\ Typed(g) /\ Blamed(g)
    BY <1>6, <2>1 DEF FakeHeld, TaskHeld, Typed, Blamed
  <2>3. Spent(g) /\ Untroubled(FALSE, g)
    BY <1>5, <1>6 DEF Spent, Untroubled, ForEachs, FakeRuns
  <2> QED BY <2>2, <2>3 DEF Steady
<1>8. \A k \in Nodes : Settled(g, k, NoNode)
  BY <1>6 DEF Settled
<1>9. ns \subseteq Nodes /\ (\A n \in ns : ~StaysDone(g, n)) /\ (\A n \in ns : g.node[n] = "READY")
      /\ \A n \in ns : Father[n] = NoNode
  BY <1>1, <1>6 DEF StaysDone
<1>10. Steady(graph, {}, FALSE)
  BY <1>1, <1>3, <1>4, <1>7, <1>9, StartSteadies
<1>11. \A k \in Nodes : Settled(graph, k, NoNode)
  <2> SUFFICES ASSUME NEW k \in Nodes PROVE Settled(graph, k, NoNode)
    OBVIOUS
  <2>1. k \in Nodes \ {NoNode} /\ Settled(g, k, NoNode)
    BY <1>1, <1>8
  <2> HIDE DEF ns
  <2> QED BY <1>1, <1>3, <1>4, <1>9, <2>1, StartSettles
<1>12. graph.node[root] # "READY"
  <2>1. root \in Reached(g, ns, d) /\ root \notin Tasks
    BY <1>1, <1>4 DEF Started, Tasks
  <2> QED BY <1>4, <2>1 DEF Started
<1>13. Going(root, graph, running, NoNode, failed)
  BY <1>1, <1>10, <1>11, <1>12 DEF Going
<1> QED BY <1>1, <1>13 DEF FirstGoing

LEMMA BeginLoadGoing ==
  ASSUME Tame, Sturdy, First, FirstGoing, NEW t \in Tasks \union Fakes, BeginLoad(t)
  PROVE  FirstGoing'
<1>1. /\ root \in Schemas /\ Lasting \in BOOLEAN /\ Suits(root, Lasting) /\ (Lasting <=> Lasts(root))
      /\ Dealt(ToLoad, ToLaunch, running)
      /\ Sound(root, Lasting, graph, ToLoad, ToLaunch, running)
      /\ picked \union running \subseteq Tasks \union Fakes /\ pending \subseteq picked
      /\ Going(root, graph, running, NoNode, failed)
  BY FirstIs DEF First, FirstTyped, FirstGoing
<1>2. /\ phase = "load" /\ t \in pending
      /\ root' = root /\ phase' = phase /\ running' = running /\ failed' = failed
  BY DEF BeginLoad, runVars
<1>3. ToLoad = picked /\ ToLaunch = picked
  BY <1>2 DEF ToLoad, ToLaunch
<1>4. CASE graph.node[t] = "TOLOAD" /\ \E d \in Decisions : graph' = NotifyFrom(graph, t, "START", d)
  <2>1. PICK d \in Decisions : graph' = NotifyFrom(graph, t, "START", d)
    BY <1>4
  <2>2. d.start \in Values(Controls \intersect Below[root])
    BY DEF Decisions
  <2>3. t \in Active(graph, picked, picked, running)
    BY <1>1, <1>2, <1>4 DEF Active
  <2>4. /\ Owner(t) \in Nodes /\ graph.node[Owner(t)] \in AtWork
        /\ OpenChain(Lasting, graph, Owner(t))
    BY <1>1, <1>3, <2>3, ActiveIs DEF OpenChain
  <2>5. /\ Owner(t) \in Inside(root) /\ \A a \in graph.arrived : a[1] # Owner(t)
    BY <1>1, <2>4, ActiveIsInside DEF Sound
  <2>6. Sent(root, Lasting, ToLoad, ToLaunch, running, Answer(graph, t, "START"))
    BY <1>1, <1>3, <2>4, <2>5, OwnerIs DEF Sent, Answer
  <2>7. Told(root, running, failed, Answer(graph, t, "START"))
    BY <1>1 DEF Told, Hole, Answer
  <2>8. Patient(root, Lasting)
    BY PatientIs
  <2>9. Going(root, NotifyFrom(graph, t, "START", d), running, NoNode, failed)
    BY <1>1, <2>2, <2>6, <2>7, <2>8, NotifyTold
  <2> QED BY <1>2, <2>1, <2>9 DEF FirstGoing
<1>5. CASE UNCHANGED graph
  BY <1>1, <1>2, <1>5 DEF FirstGoing
<1> QED BY <1>4, <1>5 DEF BeginLoad

(* The task t is over: its node has ended, and it says so.                 *)
LEMMA TaskOverGoing ==
  ASSUME Tame, Sturdy, First, FirstGoing, NEW t \in Tasks \union Fakes,
         Attended(Lasting, graph, t), graph.node[Owner(t)] \in AtWork,
         NEW ru, ru \subseteq running, t \notin ru, \A u \in running : u \in ru \/ u = t,
         Sound(root, Lasting, graph, ToLoad, ToLaunch, ru),
         NEW b, NEW event, NEW later, failed => later,
         \/ b = "DONE" /\ event = "FINISH" /\ t \notin ToLaunch
         \/ b = "ERROR" /\ event = "ABORT" /\ (t \in ToLaunch => t \in Unloadable) /\ later,
         NEW d \in Decisions
  PROVE  Going(root, NotifyFrom(SetState(graph, Owner(t), b), t, event, d), ru, NoNode, later)
<1> DEFINE i == SetState(graph, Owner(t), b)
           f == Owner(t)
<1>1. /\ root \in Schemas /\ Lasting \in BOOLEAN /\ Suits(root, Lasting) /\ (Lasting <=> Lasts(root))
      /\ Dealt(ToLoad, ToLaunch, ru)
      /\ Going(root, graph, running, NoNode, failed)
  BY FirstIs DEF Dealt, First, FirstGoing
<1>2. d.start \in Values(Controls \intersect Below[root])
  BY DEF Decisions
<1>3. Sent(root, Lasting, ToLoad, ToLaunch, ru, Answer(i, t, event))
  BY <1>1, OwnerKeeps
<1>4. graph \in Graphs /\ Ordered(root, Lasting, graph)
  BY DEF Sound
<1>5. f \in Nodes /\ Kind[f] # "bloc"
  BY OwnerIs, ComposedAssumption DEF Tasks
<1>6. ~Waiting(graph, f)
  BY <1>4, <1>5, ActiveIsInside
<1>7. \A k \in Nodes : NoNode \in Children[k] => k = f
  BY NobodysChild
<1>8. b \in Ended /\ (b # "DONE" => later)
  BY DEF Ended
<1>9. Going(root, i, ru, f, later)
  BY <1>1, <1>4, <1>5, <1>6, <1>7, <1>8, EndMoves
<1> HIDE DEF i
<1>10. Told(root, ru, later, Answer(i, t, event))
  BY <1>9 DEF Told, Hole, Answer
<1>11. Patient(root, Lasting)
  BY PatientIs
<1>12. Going(root, NotifyFrom(i, t, event, d), ru, NoNode, later)
  BY <1>1, <1>2, <1>3, <1>10, <1>11, NotifyTold
<1> QED BY <1>12 DEF i

LEMMA EndLoadGoing ==
  ASSUME Tame, Sturdy, First, FirstGoing, NEW t \in Tasks \union Fakes, EndLoad(t)
  PROVE  FirstGoing'
<1>1. /\ Dealt(ToLoad, ToLaunch, running)
      /\ Sound(root, Lasting, graph, ToLoad, ToLaunch, running)
      /\ running \intersect ToLaunch = {}
      /\ \A u \in loading : phase = "load" /\ u \in picked /\ graph.node[u] = "TOLOAD"
      /\ Going(root, graph, running, NoNode, failed)
  BY FirstIs DEF First, FirstGoing
<1>2. t \in loading /\ root' = root /\ phase' = phase /\ running' = running
  BY DEF EndLoad, runVars
<1>3. phase = "load" /\ ToLoad = picked /\ ToLaunch = picked /\ t \in picked /\ graph.node[t] = "TOLOAD"
  BY <1>1, <1>2 DEF ToLoad, ToLaunch
<1>4. CASE t \in Unloadable /\ Fail(t)
  <2>1. PICK d \in Decisions : graph' = NotifyFrom(SetState(graph, Owner(t), "ERROR"), t, "ABORT", d)
    BY <1>4 DEF Fail
  <2>2. t \in Active(graph, ToLoad, ToLaunch, running)
    BY <1>3 DEF Active
  <2>3. Attended(Lasting, graph, t) /\ graph.node[Owner(t)] \in AtWork
    BY <1>1, <2>2, ActiveIs DEF Sound, Acts
  <2>4. t \notin running
    BY <1>1, <1>3
  <2>5. Going(root, NotifyFrom(SetState(graph, Owner(t), "ERROR"), t, "ABORT", d), running, NoNode, TRUE)
    BY <1>1, <1>4, <2>3, <2>4, TaskOverGoing
  <2> QED BY <1>2, <1>3, <1>4, <2>1, <2>5 DEF FirstGoing, Fail
<1>5. CASE UNCHANGED <<graph, failed>>
  BY <1>1, <1>2, <1>3, <1>5 DEF FirstGoing
<1> QED BY <1>4, <1>5 DEF EndLoad

LEMMA TaskEndsGoing ==
  ASSUME Tame, Sturdy, First, FirstGoing, NEW t \in Tasks \union Fakes, Finish(t) \/ Abort(t)
  PROVE  FirstGoing'
<1>1. /\ Dealt(ToLoad, ToLaunch, running)
      /\ Sound(root, Lasting, graph, ToLoad, ToLaunch, running)
      /\ running \intersect ToLaunch = {}
      /\ Going(root, graph, running, NoNode, failed)
      /\ phase = "over" => running = {}
  BY FirstIs DEF First, FirstGoing
<1>2. t \in running /\ running' = running \ {t} /\ root' = root /\ phase' = phase
  BY DEF Finish, Abort, runVars
<1>3. t \in Active(graph, ToLoad, ToLaunch, running) /\ t \notin ToLaunch
  BY <1>1, <1>2 DEF Active
<1>4. Attended(Lasting, graph, t) /\ graph.node[Owner(t)] \in AtWork
  BY <1>1, <1>3, ActiveIs DEF Sound, Acts
<1>5. Sound(root, Lasting, graph, ToLoad, ToLaunch, running \ {t})
  <2>1. t \notin ToLaunch
    BY <1>3
  <2> QED BY <1>1, <1>2, <2>1, LetGo
<1> DEFINE left == running \ {t}
<1>6. left \subseteq running /\ t \notin left /\ \A u \in running : u \in left \/ u = t
  OBVIOUS
<1>7. CASE Finish(t)
  <2>1. PICK d \in Decisions : graph' = NotifyFrom(SetState(graph, Owner(t), "DONE"), t, "FINISH", d)
    BY <1>7 DEF Finish
  <2> HIDE DEF left
  <2>2. Going(root, NotifyFrom(SetState(graph, Owner(t), "DONE"), t, "FINISH", d), left, NoNode, failed)
    BY <1>3, <1>4, <1>5, <1>6, TaskOverGoing DEF left
  <2> QED BY <1>1, <1>2, <1>7, <2>1, <2>2 DEF FirstGoing, Finish, left
<1>8. CASE Abort(t)
  <2>1. PICK d \in Decisions : graph' = NotifyFrom(SetState(graph, Owner(t), "ERROR"), t, "ABORT", d)
    BY <1>8 DEF Abort, Fail
  <2>2. Going(root, NotifyFrom(SetState(graph, Owner(t), "ERROR"), t, "ABORT", d), left, NoNode, TRUE)
    BY <1>3, <1>4, <1>5, <1>6, TaskOverGoing
  <2> QED BY <1>1, <1>2, <1>8, <2>1, <2>2 DEF FirstGoing, Abort, Fail
<1> QED BY <1>7, <1>8


(* Tasks and fake nodes that are at work go on.                            *)
LEMMA GoesMoves ==
  ASSUME NEW r \in Schemas, NEW g \in Graphs, NEW h, Goes(g, h),
         NEW ru, NEW fl, Going(r, g, ru, NoNode, fl),
         NEW on, ru \subseteq on,
         \A t \in Tasks : h.node[t] = "ACTIVATED" => g.node[t] = "ACTIVATED" \/ t \in on,
         \A u \in Fakes : g.node[u] = "TOACTIVATE" => h.node[u] = "TOACTIVATE" \/ u \in on
  PROVE  Going(r, h, on, NoNode, fl)
<1>1. /\ h.arrived = g.arrived /\ h.runs = g.runs /\ h.errors = g.errors /\ h.ids = g.ids
      /\ \A n \in Nodes : h.node[n] # g.node[n] => n \in Tasks /\ g.node[n] \in AtWork /\ h.node[n] \in AtWork
  BY OwnerIs DEF Goes
<1>2. \A n \in Nodes : /\ g.node[n] \notin AtWork \/ n \notin Tasks => h.node[n] = g.node[n]
                       /\ h.node[n] \in AtWork <=> g.node[n] \in AtWork
  BY <1>1
<1>3. \A n \in Nodes : (Waiting(h, n) <=> Waiting(g, n))
  BY <1>1 DEF Waiting
<1>4. Controls \subseteq Nodes \ Tasks /\ Tasks \subseteq Nodes
  BY OwnerIs
<1>5. \A n \in Nodes, b \in Ended \union {"READY"} : h.node[n] = b <=> g.node[n] = b
  BY <1>1 DEF AtWork, Ended
<1>6. Steady(h, on, fl)
  <2>1. FakeHeld(h, on)
    <3>1. \A c \in Controls : FakeOf[c] \in Fakes
      BY OwnerIs
    <3> QED BY <1>1, <1>2, <1>4, <3>1 DEF FakeHeld, Going, Steady
  <2>2. TaskHeld(h, on)
    BY DEF TaskHeld, Going, Steady
  <2>3. Typed(h)
    BY <1>2 DEF Typed, Going, Steady
  <2>4. Spent(h)
    BY <1>1, <1>2, <1>4 DEF Spent, Going, Steady, ForEachs
  <2>5. Blamed(h)
    <3>1. \A n \in Nodes : Predecessors[n] \subseteq Nodes
      BY DEF Predecessors
    <3> QED BY <1>3, <1>5, <3>1 DEF Blamed, Going, Steady, Ended
  <2>6. Untroubled(fl, h)
    BY <1>1, <1>5 DEF Untroubled, Going, Steady, Ended
  <2> QED BY <2>1, <2>2, <2>3, <2>4, <2>5, <2>6 DEF Steady
<1>7. ASSUME NEW k \in Nodes PROVE Settled(h, k, NoNode)
  <2>1. SUFFICES ASSUME h.node[k] = "ACTIVATED"
                 PROVE  /\ Kind[k] = "bloc" => BlocGoes(h, k, NoNode)
                        /\ k \in Controls => ControlGoes(h, k, NoNode)
                        /\ k \in ForEachs => ForEachGoes(h, k, NoNode)
    BY DEF Settled
  <2>2. \A n \in Children[k] : n \in Nodes /\ Father[n] = k
    BY ChildIs
  <2>3. k \notin Tasks => Settled(g, k, NoNode) /\ g.node[k] = "ACTIVATED"
    BY <1>2, <2>1 DEF Going
  <2>4. ASSUME Kind[k] = "bloc" PROVE BlocGoes(h, k, NoNode)
    <3>1. k \notin Tasks
      BY <2>4 DEF Tasks
    <3>2. BlocGoes(g, k, NoNode)
      BY <2>3, <2>4, <3>1 DEF Settled
    <3>3. \A n \in Children[k] : Predecessors[n] \subseteq Nodes
      BY <2>2 DEF Predecessors
    <3>4. \A n \in Children[k] : h.node[n] \in Ended <=> g.node[n] \in Ended
      BY <1>5, <2>2
    <3> QED BY <1>1, <1>3, <1>5, <2>2, <3>2, <3>3, <3>4 DEF BlocGoes, Ended
  <2>5. ASSUME k \in Controls PROVE ControlGoes(h, k, NoNode)
    <3>1. ControlGoes(g, k, NoNode) /\ k \notin Tasks
      BY <1>4, <2>3, <2>5 DEF Settled
    <3>2. \A n \in Children[k] : Runs(g, n) => Runs(h, n)
      BY <1>1, <1>2, <2>2, <3>1 DEF Runs
    <3> QED BY <1>1, <1>2, <2>2, <3>1, <3>2 DEF ControlGoes
  <2>6. ASSUME k \in ForEachs PROVE ForEachGoes(h, k, NoNode)
    <3>1. ForEachGoes(g, k, NoNode)
      BY <1>4, <2>3, <2>6 DEF Settled, ForEachs
    <3> QED BY <1>1, <1>2, <2>2, <3>1 DEF ForEachGoes
  <2> QED BY <2>4, <2>5, <2>6
<1>8. h.node[r] # "READY"
  BY <1>5, ComposedAssumption DEF Going
<1> QED BY <1>6, <1>7, <1>8 DEF Going

LEMMA StartLaunchGoing ==
  ASSUME First, FirstGoing, StartLaunch
  PROVE  FirstGoing'
<1> DEFINE h == graph'
<1>1. /\ root \in Schemas /\ graph \in Graphs /\ Going(root, graph, running, NoNode, failed)
      /\ picked \subseteq Tasks \union Fakes
  BY DEF First, FirstTyped, FirstGoing
<1>2. /\ phase' = "launch" /\ running' = running /\ failed' = failed /\ root' = root
      /\ h = [graph EXCEPT !.node = [n \in Nodes \union Fakes |->
                IF n \in picked /\ @[n] = "TOLOAD" THEN "TOACTIVATE" ELSE @[n]]]
  BY DEF StartLaunch, runVars
<1>3. /\ h \in Graphs /\ h.arrived = graph.arrived /\ h.runs = graph.runs
      /\ h.errors = graph.errors /\ h.ids = graph.ids
      /\ \A n \in Nodes \union Fakes :
           h.node[n] = IF n \in picked /\ graph.node[n] = "TOLOAD" THEN "TOACTIVATE" ELSE graph.node[n]
  <2>1. DEFINE f == [n \in Nodes \union Fakes |->
                       IF n \in picked /\ graph.node[n] = "TOLOAD" THEN "TOACTIVATE" ELSE graph.node[n]]
  <2>2. f \in [Nodes \union Fakes -> NodeStates]
    BY <1>1 DEF Graphs, NodeStates
  <2>3. h = [graph EXCEPT !.node = f]
    BY <1>2
  <2> HIDE DEF h
  <2>4. h \in Graphs /\ h.node = f /\ h.arrived = graph.arrived /\ h.runs = graph.runs
        /\ h.errors = graph.errors /\ h.ids = graph.ids
    <3> HIDE DEF f
    <3> QED BY <1>1, <2>2, <2>3 DEF Graphs
  <2> QED BY <2>4
<1> HIDE DEF h
<1>4. Goes(graph, h)
  BY <1>1, <1>3 DEF Goes, AtWork
<1>5. /\ \A t \in Tasks : h.node[t] = "ACTIVATED" => graph.node[t] = "ACTIVATED" \/ t \in running
      /\ \A u \in Fakes : graph.node[u] = "TOACTIVATE" => h.node[u] = "TOACTIVATE" \/ u \in running
  BY <1>3, OwnerIs
<1>6. Going(root, h, running, NoNode, failed)
  BY <1>1, <1>4, <1>5, GoesMoves
<1> QED BY <1>2, <1>6 DEF FirstGoing, h

LEMMA LaunchGoing ==
  ASSUME First, FirstGoing, NEW t \in Tasks \union Fakes, Launch(t)
  PROVE  FirstGoing'
<1>1. /\ root \in Schemas /\ graph \in Graphs /\ Going(root, graph, running, NoNode, failed)
  BY DEF First, FirstTyped, FirstGoing
<1>2. phase = "launch" /\ phase' = phase /\ failed' = failed /\ root' = root
  BY DEF Launch, runVars
<1>3. CASE /\ graph.node[t] = "TOACTIVATE" /\ graph' = SetState(graph, t, "ACTIVATED")
           /\ running' = running \union {t}
  <2> DEFINE h == graph'
  <2>1. t \in Nodes \union Fakes /\ "ACTIVATED" \in NodeStates
    BY TaskIs DEF NodeStates
  <2>2. /\ h \in Graphs /\ h.node[t] = "ACTIVATED"
        /\ \A n \in (Nodes \union Fakes) \ {t} : h.node[n] = graph.node[n]
        /\ h.arrived = graph.arrived /\ h.runs = graph.runs
        /\ h.errors = graph.errors /\ h.ids = graph.ids
    BY <1>1, <1>3, <2>1, SetIs
  <2> HIDE DEF h
  <2>3. Goes(graph, h)
    BY <1>3, <2>2 DEF Goes, AtWork
  <2>4. /\ \A u \in Tasks : h.node[u] = "ACTIVATED" => graph.node[u] = "ACTIVATED" \/ u \in running'
        /\ \A u \in Fakes : graph.node[u] = "TOACTIVATE" => h.node[u] = "TOACTIVATE" \/ u \in running'
        /\ running \subseteq running'
    BY <1>3, <2>2, OwnerIs
  <2>5. Going(root, h, running', NoNode, failed)
    BY <1>1, <2>3, <2>4, GoesMoves
  <2> QED BY <1>2, <2>5 DEF FirstGoing, h
<1>4. CASE UNCHANGED <<graph, running>>
  BY <1>1, <1>2, <1>4 DEF FirstGoing
<1> QED BY <1>3, <1>4 DEF Launch


-----------------------------------------------------------------------------
(* The end of the first run.                                               *)

(* Induction from the nodes below to those above.                          *)
LEMMA UpInduction ==
  ASSUME NEW s, \A n \in Nodes : Children[n] \subseteq s => n \in s
  PROVE  Nodes \subseteq s
<1> DEFINE far == [n \in Nodes |-> Below[n]]
<1>1. Children \in [Nodes -> SUBSET Nodes]
  BY DEF Children
<1>2. far \in [Nodes -> SUBSET Nodes]
  BY InsideIs DEF Inside
<1>3. \A n \in Nodes : n \notin far[n]
  BY InsideIs
<1>4. ASSUME NEW n \in Nodes
      PROVE  Below[n] = Children[n] \union UNION {Below[m] : m \in Children[n]}
  <2>1. ASSUME NEW b \in Below[n]
        PROVE  b \in Children[n] \/ \E m \in Children[n] : b \in Below[m]
    <3>1. b \in Nodes /\ n \in Ancestors[b]
      BY InsideIs DEF Inside
    <3>2. PICK k \in Chain(b) : k \in Nodes /\ Father[k] = n
      BY <3>1, ChildAround DEF Chain
    <3>3. k \in Children[n] /\ b \in Inside(k)
      BY <3>1, <3>2, ChainIs DEF Children
    <3> QED BY <3>3 DEF Inside
  <2>2. Children[n] \subseteq Below[n]
    BY ChildIs
  <2>3. ASSUME NEW m \in Children[n] PROVE Below[m] \subseteq Below[n]
    BY <2>2, InsideIs DEF Inside
  <2> QED BY <2>1, <2>2, <2>3
<1>5. \A m \in Nodes : far[m] = Below[m]
  OBVIOUS
<1> HIDE DEF far
<1>6. ASSUME NEW n \in Nodes
      PROVE  far[n] = Children[n] \union UNION {far[m] : m \in Children[n]}
  <2>1. Children[n] \subseteq Nodes
    BY <1>1
  <2>2. UNION {far[m] : m \in Children[n]} = UNION {Below[m] : m \in Children[n]}
    BY <1>5, <2>1
  <2> QED BY <1>4, <1>5, <2>2
<1> QED BY <1>1, <1>2, <1>3, <1>6, FarInduction

(* Induction from the nodes before to those behind.                        *)
LEMMA ForthInduction ==
  ASSUME NEW s, \A n \in Nodes : Predecessors[n] \subseteq s => n \in s
  PROVE  Nodes \subseteq s
<1> DEFINE far == [n \in Nodes |-> {p \in Nodes : n \in Behind[p]}]
<1>1. Predecessors \in [Nodes -> SUBSET Nodes]
  BY DEF Predecessors
<1>2. far \in [Nodes -> SUBSET Nodes] /\ \A n \in Nodes : n \notin far[n]
  BY BehindIs
<1>3. ASSUME NEW n \in Nodes, NEW p \in Nodes
      PROVE  n \in Behind[p] <=> p \in Predecessors[n] \/ \E q \in Predecessors[n] : q \in Behind[p]
  <2>1. ASSUME n \in Behind[p]
        PROVE  p \in Predecessors[n] \/ \E q \in Predecessors[n] : q \in Behind[p]
    BY <2>1, BehindLast
  <2>2. p \in Predecessors[n] => n \in Behind[p]
    BY LinkIs, BehindIs DEF Predecessors
  <2>3. ASSUME NEW q \in Predecessors[n], q \in Behind[p] PROVE n \in Behind[p]
    <3>1. q \in Nodes /\ n \in Successors[q]
      BY LinkIs DEF Predecessors
    <3> QED BY <2>3, <3>1, BehindClosed
  <2> QED BY <2>1, <2>2, <2>3
<1>4. ASSUME NEW n \in Nodes
      PROVE  far[n] = Predecessors[n] \union UNION {far[q] : q \in Predecessors[n]}
  <2>1. \A p : p \in far[n] <=> p \in Nodes /\ n \in Behind[p]
    OBVIOUS
  <2>2. \A q \in Predecessors[n] : q \in Nodes /\ \A p : p \in far[q] <=> p \in Nodes /\ q \in Behind[p]
    BY <1>1
  <2> HIDE DEF far
  <2> QED BY <1>1, <1>3, <2>1, <2>2
<1> HIDE DEF far
<1> QED BY <1>1, <1>2, <1>4, FarInduction

(* A node at work that is run has a task at work, or that runs, in it.     *)
LEMMA NothingLeft ==
  ASSUME First, FirstGoing, ReadyTasks = {}, running = {},
         NEW n \in Nodes, \A k \in Chain(n) : Runs(graph, k)
  PROVE  graph.node[n] \notin AtWork
<1> DEFINE g == graph
           live(k) == g.node[k] \in AtWork /\ \A a \in Chain(k) : Runs(g, a)
           idle == {k \in Nodes : ~live(k)}
<1>1. Going(root, g, running, NoNode, failed) /\ g \in Graphs
  BY DEF First, FirstTyped, FirstGoing
<1>2. ASSUME NEW k \in Nodes, Children[k] \subseteq idle, live(k) PROVE FALSE
  <2>1. \A a \in Chain(k) : Runs(g, a)
    BY <1>2
  <2>2. CASE k \in Tasks
    <3>1. Owner(k) = k /\ k \notin Fakes
      BY <2>2, TaskIs
    <3>2. g.node[k] # "ACTIVATED"
      BY <1>1, <2>2 DEF Going, Steady, TaskHeld
    <3>3. g.node[k] \in {"TOLOAD", "TOACTIVATE"} /\ Listed(g, k)
      BY <1>2, <2>1, <3>1, <3>2 DEF AtWork, Listed, Chain
    <3> QED BY <2>2, <3>3 DEF ReadyTasks
  <2>3. CASE k \notin Tasks
    <3>1. g.node[k] = "ACTIVATED" /\ Settled(g, k, NoNode)
      BY <1>1, <1>2, <2>3 DEF Going, Steady, Typed, AtWork
    <3>2. ASSUME NEW m \in Children[k], Runs(g, m) PROVE g.node[m] \notin AtWork
      <4>1. m \in Nodes /\ Father[m] = k /\ k # NoNode
        BY ChildIs
      <4>2. Chain(m) = {m} \union Chain(k)
        BY <4>1, FatherIs DEF Chain
      <4> QED BY <1>2, <2>1, <3>2, <4>1, <4>2
    <3> HIDE DEF live, idle
    <3>3. CASE Kind[k] = "bloc"
      <4>1. BlocGoes(g, k, NoNode)
        BY <3>1, <3>3 DEF Settled
      <4>2. \A m \in Children[k] : m \in Nodes /\ Father[m] = k /\ Runs(g, m) /\ g.node[m] \notin AtWork
        BY <3>1, <3>2, <3>3, ChildIs DEF Runs
      <4>3. \A m \in Children[k] : g.node[m] \in Ended \union {"READY"}
        BY <1>1, <4>2 DEF Graphs, NodeStates, AtWork
      <4> DEFINE over == {m \in Nodes : m \in Children[k] => g.node[m] # "READY"}
      <4>4. ASSUME NEW m \in Nodes, Predecessors[m] \subseteq over PROVE m \in over
        <5> SUFFICES ASSUME m \in Children[k], g.node[m] = "READY" PROVE FALSE
          OBVIOUS
        <5>1. Waiting(g, m)
          BY <4>1 DEF BlocGoes
        <5>2. PICK p \in Predecessors[m] : <<p, m>> \notin g.arrived
          BY <5>1 DEF Waiting
        <5>3. p \in Nodes /\ p \in Children[k] /\ p # NoNode
          BY <4>2, LinkIs, ComposedAssumption DEF Predecessors, Children
        <5>4. g.node[p] \in Ended
          BY <4>3, <4>4, <5>3
        <5> QED BY <4>1, <5>2, <5>3, <5>4 DEF BlocGoes, Ended
      <4>5. Nodes \subseteq over
        <5> HIDE DEF over
        <5> QED BY <4>4, ForthInduction
      <4>6. \A m \in Children[k] : g.node[m] \in Ended
        BY <4>2, <4>3, <4>5
      <4>7. NoNode \notin Children[k]
        BY NobodysChild
      <4> QED BY <4>1, <4>6, <4>7 DEF BlocGoes
    <3>4. CASE k \in Controls
      <4>1. g.runs[k] \in FakeRuns
        <5>1. ControlGoes(g, k, NoNode)
          BY <3>1, <3>4 DEF Settled
        <5>2. NoNode \notin Children[k]
          BY NobodysChild
        <5> QED BY <3>2, <5>1, <5>2 DEF ControlGoes
      <4>2. g.node[FakeOf[k]] = "TOACTIVATE"
        BY <1>1, <3>1, <3>4, <4>1 DEF Going, Steady, FakeHeld
      <4>3. FakeOf[k] \in Fakes /\ Owner(FakeOf[k]) = k
        BY <3>4, OwnerIs
      <4>4. Listed(g, FakeOf[k])
        BY <2>1, <3>1, <4>1, <4>3 DEF Listed, Chain
      <4> QED BY <4>2, <4>3, <4>4 DEF ReadyTasks
    <3>5. Kind[k] = "bloc" \/ k \in Controls
      BY <2>3, ComposedAssumption, HierarchyAssumption DEF Tasks
    <3> QED BY <3>3, <3>4, <3>5
  <2> QED BY <2>2, <2>3
<1>3. Nodes \subseteq idle
  <2>1. \A k \in Nodes : Children[k] \subseteq idle => k \in idle
    BY <1>2
  <2> HIDE DEF idle
  <2> QED BY <2>1, UpInduction
<1> QED BY <1>3

LEMMA EndRunGoing ==
  ASSUME First, FirstGoing, EndRun
  PROVE  FirstGoing'
<1>1. /\ Going(root, graph, running, NoNode, failed) /\ root \in Schemas /\ graph \in Graphs
      /\ root \in Nodes /\ Father[root] = NoNode /\ Kind[root] = "bloc"
  BY ComposedAssumption DEF First, FirstTyped, FirstGoing
<1>2. /\ running = {} /\ ReadyTasks = {} /\ running' = running /\ graph' = graph /\ root' = root
      /\ failed' = failed
  BY DEF EndRun, runVars
<1>3. graph.node[root] \notin AtWork
  <2>1. \A k \in Chain(root) : Runs(graph, k)
    BY <1>1, RootIs DEF Chain, Runs
  <2> QED BY <1>1, <1>2, <2>1, NothingLeft
<1>4. graph.node[root] \in Ended
  BY <1>1, <1>3 DEF Going, Graphs, NodeStates, AtWork
<1> QED BY <1>1, <1>2, <1>4 DEF FirstGoing

(* The rest of the turn leaves the graph alone.                            *)
LEMMA TurnGoing ==
  ASSUME First, FirstGoing, Select \/ EndTurn \/ UNCHANGED vars
  PROVE  FirstGoing'
<1>1. /\ running' = running /\ graph' = graph /\ root' = root /\ failed' = failed
      /\ phase' = "over" => phase = "over"
  BY DEF Select, EndTurn, vars, runVars
<1> QED BY <1>1 DEF First, FirstGoing

(* The first run of a schema that is sturdy always has something to do     *)
(* before the schema has ended.                                            *)
THEOREM FirstRunGoes ==
  ASSUME Tame, Sturdy
  PROVE  Spec => [](FirstTyped /\ FirstRun /\ FirstGoing)
<1>1. Init => FirstTyped /\ FirstRun /\ FirstGoing
  BY InitFirst, InitGoing DEF First
<1>2. FirstTyped /\ FirstRun /\ [Next]_vars => (FirstTyped /\ FirstRun)'
  BY FirstRunStep
<1>3. FirstTyped /\ FirstRun /\ FirstGoing /\ [Next]_vars => FirstGoing'
  <2> SUFFICES ASSUME FirstTyped, FirstRun, FirstGoing, [Next]_vars PROVE FirstGoing'
    OBVIOUS
  <2>1. CASE restarts # 0 \/ Restart \/ Reload
    BY <2>1, LaterIs DEF FirstGoing
  <2>2. CASE restarts = 0 /\ ~(Restart \/ Reload)
    <3>1. First
      BY <2>2 DEF First
    <3>2. CASE Select \/ EndTurn \/ UNCHANGED vars
      BY <3>1, <3>2, TurnGoing
    <3>3. CASE StartLaunch
      BY <3>1, <3>3, StartLaunchGoing
    <3>4. CASE EndRun
      BY <3>1, <3>4, EndRunGoing
    <3>5. ASSUME NEW t \in Tasks \union Fakes,
                 BeginLoad(t) \/ EndLoad(t) \/ Launch(t) \/ Finish(t) \/ Abort(t)
          PROVE  FirstGoing'
      BY <3>1, <3>5, BeginLoadGoing, EndLoadGoing, LaunchGoing, TaskEndsGoing
    <3> QED BY <2>2, <3>2, <3>3, <3>4, <3>5 DEF Next, Advance, Over
  <2> QED BY <2>1, <2>2
<1> QED BY <1>1, <1>2, <1>3, PTL DEF Spec

LEMMA FirstEnds ==
  ASSUME First, FirstGoing
  PROVE  EndsWithItsGraph
<1> SUFFICES ASSUME phase = "over" PROVE graph.node[root] = IF failed THEN "FAILED" ELSE "DONE"
  BY DEF EndsWithItsGraph
<1>1. /\ root \in Nodes /\ root \notin Tasks /\ Kind[root] = "bloc"
      /\ graph.node[root] \in Ended /\ Steady(graph, running, failed)
  BY ComposedAssumption DEF First, FirstTyped, FirstGoing, Going, Tasks
<1>2. graph.node[root] # "ERROR" /\ (~failed => graph.node[root] \notin {"FAILED", "ERROR"})
  BY <1>1 DEF Steady, Typed, Untroubled
<1>3. graph.node[root] = "DONE" => ~failed
  BY FirstReachesRoot DEF FailureReachesRoot
<1> QED BY <1>1, <1>2, <1>3 DEF Ended

(* In the first run RunB ends with the graph: the last node to end has     *)
(* ended the schema, FAILED after a failure and DONE without one           *)
(* (Executor::checkSchema of RunB, ComposedNode::notifyFrom,               *)
(* Bloc::updateStateOnFinishedEventFrom).                                  *)
THEOREM FirstEndsWithItsGraph ==
  ASSUME Tame, Sturdy
  PROVE  Spec => [](restarts = 0 => EndsWithItsGraph)
<1>1. FirstTyped /\ FirstRun /\ FirstGoing => (restarts = 0 => EndsWithItsGraph)
  BY FirstEnds DEF First
<1> QED BY <1>1, FirstRunGoes, PTL
================================================================================
