------------------------------ MODULE MCWorker ------------------------------
(* Two clients and three tasks, one of which throws, in both builds. *)
EXTENDS Worker
CONSTANTS c1, c2, t1, t2, t3
MCClients == {c1, c2}
MCTasks == {t1, t2, t3}
MCThrowing == {t2}
=============================================================================
