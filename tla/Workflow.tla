------------------------------ MODULE Workflow ------------------------------
(***************************************************************************)
(* What running a graph promises, without threads, locks, pauses or pools: *)
(* a task runs at most once and only after every task it depends on is     *)
(* done; a task behind a failure never runs; nothing starts once the run   *)
(* is over.                                                                *)
(***************************************************************************)
CONSTANTS Tasks, Links, After

VARIABLES
  outcome,    \* of each task: idle -> running -> done, or failed
  over        \* the run has been declared finished or stopped

workVars == <<outcome, over>>

Ready(t) == outcome[t] = "idle" /\ \A u \in Tasks : <<u, t>> \in Links => outcome[u] = "done"

(* The tasks of gone do not run any more.                                  *)
GivenUp(gone) == [u \in Tasks |-> IF u \in gone THEN "failed" ELSE outcome[u]]

Init ==
  /\ outcome = [t \in Tasks |-> "idle"]
  /\ over = FALSE

(* A task that cannot be loaded is given up, and those behind it.          *)
GiveUp(t) ==
  /\ Ready(t) /\ ~over
  /\ outcome' = GivenUp({t} \union After[t])
  /\ UNCHANGED over

(* The graph is refused at the start for an invalid task.                  *)
Reject(t) ==
  /\ ~over
  /\ outcome = [u \in Tasks |-> "idle"]
  /\ outcome' = GivenUp({t})
  /\ over' = TRUE

Begin(t) ==
  /\ Ready(t) /\ ~over
  /\ outcome' = [outcome EXCEPT ![t] = "running"]
  /\ UNCHANGED over

(* The tasks behind a finished one go on, or are given up when one of them *)
(* is invalid.  A task goes on to its end after the run is stopped.        *)
Finish(t) ==
  /\ outcome[t] = "running"
  /\ \E gone \in {{}, After[t]} : outcome' = [GivenUp(gone) EXCEPT ![t] = "done"]
  /\ UNCHANGED over

Fail(t) ==
  /\ outcome[t] = "running"
  /\ outcome' = GivenUp({t} \union After[t])
  /\ UNCHANGED over

End == ~over /\ over' = TRUE /\ UNCHANGED outcome

Next ==
  \/ \E t \in Tasks : GiveUp(t) \/ Reject(t) \/ Begin(t) \/ Finish(t) \/ Fail(t)
  \/ End

Spec == Init /\ [][Next]_workVars
=============================================================================
