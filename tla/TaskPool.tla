------------------------------ MODULE TaskPool ------------------------------
(***************************************************************************)
(* What the workload manager promises its client, without its threads,     *)
(* queues and indices: every submitted task is run once, on a worker that  *)
(* nobody else holds and on a resource with enough cores left (or not at   *)
(* all when no resource fits), and closing the pool waits for every task.  *)
(***************************************************************************)
EXTENDS Integers, FiniteSets, FiniteSetsExt

CONSTANTS Tasks, Types, Resources, NoResource, TypeOf, Cores, Ignoring,
          NbCores, Accepted

VARIABLES
  stage,    \* new -> waiting -> running -> done -> released
  holds,    \* the worker of a running or done task: <<resource, index>>
  open      \* the pool has been started and not closed since

poolVars == <<stage, holds, open>>

Nothing == <<NoResource, 0>>

Holders(r) == {t \in Tasks : holds[t] # Nothing /\ holds[t][1] = r}

CoresHeld(r) == MapThenSumSet(LAMBDA t : Cores[TypeOf[t]], Holders(r))

(* The workers of the type c that are held on the resource.                *)
InUse(r, c) == {holds[t][2] : t \in {u \in Holders(r) : TypeOf[u] = c}}

Init ==
  /\ stage = [t \in Tasks |-> "new"]
  /\ holds = [t \in Tasks |-> Nothing]
  /\ open = FALSE

Submit(t) ==
  /\ stage[t] = "new"
  /\ stage' = [stage EXCEPT ![t] = "waiting"]
  /\ UNCHANGED <<holds, open>>

Open == ~open /\ open' = TRUE /\ UNCHANGED <<stage, holds>>

(* The pool is closed once no submitted task is left.                      *)
Close ==
  /\ open
  /\ \A t \in Tasks : stage[t] \in {"new", "released"}
  /\ open' = FALSE
  /\ UNCHANGED <<stage, holds>>

Begin(t) ==
  /\ open /\ stage[t] = "waiting"
  /\ stage' = [stage EXCEPT ![t] = "running"]
  /\ UNCHANGED open

(* The first free worker of the type of t, on a resource with room for t:  *)
(* one that was released is taken again before a new one is opened.        *)
Place(t) ==
  /\ Begin(t)
  /\ TypeOf[t] \notin Ignoring
  /\ \E r \in Accepted[t] :
       /\ CoresHeld(r) + Cores[TypeOf[t]] <= NbCores[r]
       /\ LET busy == InUse(r, TypeOf[t])
          IN  \E i \in ({0} \union {k + 1 : k \in busy}) \ busy :
                /\ 0..(i - 1) \subseteq busy
                /\ holds' = [holds EXCEPT ![t] = <<r, i>>]

(* The task ignores resources, or it is run only to report its error.      *)
RunUnplaced(t) ==
  /\ Begin(t)
  /\ UNCHANGED holds

Finish(t) ==
  /\ stage[t] = "running"
  /\ stage' = [stage EXCEPT ![t] = "done"]
  /\ UNCHANGED <<holds, open>>

Release(t) ==
  /\ stage[t] = "done"
  /\ stage' = [stage EXCEPT ![t] = "released"]
  /\ holds' = [holds EXCEPT ![t] = Nothing]
  /\ UNCHANGED open

Next ==
  \/ Open
  \/ Close
  \/ \E t \in Tasks : \/ Submit(t) \/ Place(t) \/ RunUnplaced(t)
                      \/ Finish(t) \/ Release(t)

Spec == Init /\ [][Next]_poolVars
=============================================================================
