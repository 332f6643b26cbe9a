----------------------------- MODULE MCOrchestrator -----------------------------
(* Driver threads, one agent, one or two tasks of different priority.      *)
EXTENDS Orchestrator

CONSTANTS d1, d2, a1, t1, t2
OneTask == [t \in {t1} |-> 2]
TwoTasks == (t1 :> 2) @@ (t2 :> 1)
===============================================================================
