----------------------------- MODULE MCExecutor -----------------------------
(* Graphs for the executor: a diamond a -> b, c -> d with a task e apart,   *)
(* and a chain a -> b with c apart.                                         *)
EXTENDS Executor, TLC

CONSTANTS a, b, c, d, e, p

Diamond == {a, b, c, d, e}
DiamondLinks == {<<a, b>>, <<a, c>>, <<b, d>>, <<c, d>>}
DiamondAfter == (a :> {b, c, d}) @@ (b :> {d}) @@ (c :> {d}) @@ (d :> {}) @@ (e :> {})

Small == {a, b, c}
SmallLinks == {<<a, b>>}
SmallAfter == (a :> {b}) @@ (b :> {}) @@ (c :> {})

MCPools == {p}
OneWorker == (p :> 1)
NoPools == {}
NoWorkers == [q \in {} |-> 0]

(* c and d share a pool of one worker.                                      *)
DiamondPoolOf == (a :> NoPool) @@ (b :> NoPool) @@ (c :> p) @@ (d :> p) @@ (e :> NoPool)
NoPoolOf == [t \in Tasks |-> NoPool]
(* The tasks of the pool may fail once they run, the others at any step.    *)
DiamondFailures ==
  (a :> {"execute"}) @@ (b :> {"execute"}) @@ (c :> {"execute"}) @@ (d :> {"execute"})
    @@ (e :> {"load", "connect", "execute"})
MayFail == [t \in Tasks |-> {"execute"}]
AllCommands == {"mode", "breakpoints", "stopOnError", "resume", "steps", "wait", "stop", "suspend"}
=============================================================================
