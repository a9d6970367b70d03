---------------------------- MODULE MCForEachLoop ---------------------------
(* Four samples, for no branch, two branches or three, chosen in each run. *)
EXTENDS ForEachLoop

MCBranchCounts == {0, 2, 3}
AnyStage == {"init", "work", "finalize"}
=============================================================================
