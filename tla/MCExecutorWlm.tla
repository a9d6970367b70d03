--------------------------- MODULE MCExecutorWlm ---------------------------
(* A join a, b -> c -> d with e -> f apart, on two nodes of 2 cores and 1   *)
(* core.  b ignores resources; a and f need 1 core, c needs 2: those of the *)
(* node a may still hold.  d and e need 3 and are refused: f is behind a    *)
(* failure, and d may be the last node of the graph to fail.               *)
EXTENDS ExecutorWlm, TLC

CONSTANTS a, b, c, d, e, f, big, small

Join == {a, b, c, d, e, f}
JoinLinks == {<<a, c>>, <<b, c>>, <<c, d>>, <<e, f>>}
JoinAfter == (a :> {c, d}) @@ (b :> {c, d}) @@ (c :> {d}) @@ (d :> {})
               @@ (e :> {f}) @@ (f :> {})

MCTypes == {"one", "two", "three", "free"}
MCTypeOf == (a :> "one") @@ (b :> "free") @@ (c :> "two") @@ (d :> "three")
              @@ (e :> "three") @@ (f :> "one")
MCCores == [ty \in MCTypes |-> CASE ty = "one" -> 1 [] ty = "two" -> 2
                                 [] ty = "three" -> 3 [] ty = "free" -> 0]
MCResources == {big, small}
MCNbCores == (big :> 2) @@ (small :> 1)
MCAccepted == (a :> {big, small}) @@ (b :> {}) @@ (c :> {big, small})
                @@ (d :> {big}) @@ (e :> {big, small}) @@ (f :> {big})

MCFailures == (a :> {"load", "execute"}) @@ (b :> {"execute"}) @@ (c :> {"connect"})
                @@ (d :> {}) @@ (e :> {}) @@ (f :> {})
=============================================================================
