---------------------------- MODULE MCPlayGround -----------------------------
(* Three containers whose workers have one, two and three cores, on one     *)
(* machine of seven cores.                                                  *)
EXTENDS PlayGround, TLC

CONSTANTS t1, t2, t3, t4, t5, c1, c2, c3

MCTasks == {t1, t2, t3, t4, t5}
MCContainers == {c1, c2, c3}
MCContainerOf == (t1 :> c1) @@ (t2 :> c1) @@ (t3 :> c2) @@ (t4 :> c2) @@ (t5 :> c3)
MCWidth == (c1 :> 1) @@ (c2 :> 2) @@ (c3 :> 3)
OneMachine == <<7>>
=============================================================================
