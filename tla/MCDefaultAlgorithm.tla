------------------------ MODULE MCDefaultAlgorithm --------------------------
(* Tasks of two, one and no cores and one that ignores resources, on two    *)
(* resources of one and three cores: the two-core task fits the second      *)
(* resource only, and is an error while only the first is known and frozen. *)
EXTENDS DefaultAlgorithm

CONSTANTS t1, t2, t3, t4, t5, t6, two, one, zero, free, r1, r2

MCTasks == {t1, t2, t3, t4, t5, t6}
MCTypes == {two, one, zero, free}
MCResources == {r1, r2}
MCTypeOf == (t1 :> one) @@ (t2 :> one) @@ (t3 :> two) @@ (t4 :> zero) @@ (t5 :> free)
              @@ (t6 :> one)
MCCores == (two :> 2) @@ (one :> 1) @@ (zero :> 0) @@ (free :> 0)
MCIgnoring == {free}
MCNbCores == (r1 :> 1) @@ (r2 :> 3)
MCAccepted == [t \in MCTasks |-> {r1, r2}]
=============================================================================
