------------------------- MODULE MCWorkloadManager --------------------------
(* A task of one core, which may throw, one of two cores and one too big    *)
(* for the resource, which has two cores.                                   *)
EXTENDS WorkloadManager

CONSTANTS t1, t2, t3, one, two, huge, r1

MCTasks == {t1, t2, t3}
MCTypes == {one, two, huge}
MCResources == {r1}
MCTypeOf == (t1 :> one) @@ (t2 :> two) @@ (t3 :> huge)
MCCores == (one :> 1) @@ (two :> 2) @@ (huge :> 3)
MCNbCores == (r1 :> 2)
MCAccepted == [t \in MCTasks |-> {r1}]
MCThrowing == {t1}
=============================================================================
