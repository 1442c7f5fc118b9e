----------------------------- MODULE MCExecutor -----------------------------
(* Two clients; a pool of two Workers, or of none when the core count is     *)
(* unknown; an empty task, and a task that submits another.                  *)
EXTENDS Executor
CONSTANTS c1, c2, t1, t2, t3, t4, e1
MCClients == {c1, c2}
MCTasks == {t1, t2, t3, t4, e1}
MCEmpty == {e1}
MCChild == [t \in MCTasks |-> IF t = t1 THEN t3 ELSE NoTask]
MCCores == {0, 2}
=============================================================================
