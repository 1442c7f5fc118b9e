---------------------------- MODULE MCVMLifetime ----------------------------
(* Two callers, one of which may release while the other is inside; a pool   *)
(* of one Worker, a task, and a second VM made after a release.              *)
EXTENDS VMLifetime
CONSTANTS a, b, w1, t1
MCCallers == {a, b}
MCWorkers == {w1}
MCTasks == {t1}
=============================================================================
