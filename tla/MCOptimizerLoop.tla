--------------------------- MODULE MCOptimizerLoop --------------------------
(* No branch, two branches or three, for an algorithm that pushes four     *)
(* samples, the even ones with a higher priority.                          *)
EXTENDS OptimizerLoop

MCBranchCounts == {0, 2, 3}
EvenFirst(s) == IF s % 2 = 0 THEN 1 ELSE 0
=============================================================================
