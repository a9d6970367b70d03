------------------------------ MODULE Samples -------------------------------
(***************************************************************************)
(* What a ForEachLoop promises over its runs: a sample is under evaluation *)
(* in one branch at a time, a result is never lost, and a sample that has  *)
(* its result is never evaluated again, also after a relaunch.             *)
(***************************************************************************)
CONSTANTS Ranks

VARIABLES
  done,        \* the samples that have a result
  evaluating   \* the samples a branch is in charge of

Init == done = {} /\ evaluating = {}

(* Branches end (finished) or give up (dropped) samples and take others.   *)
Step(finished, dropped, taken) ==
  /\ finished \union dropped \subseteq evaluating
  /\ taken \intersect (done \union evaluating) = {}
  /\ done' = done \union finished
  /\ evaluating' = (evaluating \ (finished \union dropped)) \union taken

Next == \E finished, dropped, taken \in SUBSET Ranks : Step(finished, dropped, taken)

Spec == Init /\ [][Next]_<<done, evaluating>>
=============================================================================
