------------------------------ MODULE TaskQueue ------------------------------
(***************************************************************************)
(* What a Worker (src/core/concurrent/Executor.cxx) promises to the code   *)
(* that submits tasks to it, with no thread, lock or condition variable:   *)
(* accepted tasks run one at a time, in the order they were accepted, each *)
(* of them at most once, until the queue is closed; whatever still waits   *)
(* at that moment never runs.                                              *)
(***************************************************************************)
EXTENDS Sequences

CONSTANTS
  Tasks,    (* the tasks that may be submitted  *)
  NoTask    (* "nothing is running"             *)

VARIABLES
  waiting,  (* accepted tasks that have not begun, oldest first *)
  running,  (* the task that runs, or NoTask                    *)
  done,     (* the tasks that have ended, oldest first          *)
  closed    (* nothing begins any more                          *)

vars == <<waiting, running, done, closed>>

Elements(s) == {s[i] : i \in DOMAIN s}

Init ==
  /\ waiting = <<>>
  /\ running = NoTask
  /\ done = <<>>
  /\ closed = FALSE

Submit(t) ==
  /\ ~closed
  /\ t \notin Elements(waiting) \cup Elements(done) \cup {running}
  /\ waiting' = Append(waiting, t)
  /\ UNCHANGED <<running, done, closed>>

Begin ==
  /\ ~closed
  /\ running = NoTask
  /\ waiting # <<>>
  /\ running' = Head(waiting)
  /\ waiting' = Tail(waiting)
  /\ UNCHANGED <<done, closed>>

End ==
  /\ running # NoTask
  /\ done' = Append(done, running)
  /\ running' = NoTask
  /\ UNCHANGED <<waiting, closed>>

Close ==
  /\ ~closed
  /\ running = NoTask
  /\ closed' = TRUE
  /\ UNCHANGED <<waiting, running, done>>

Next ==
  \/ \E t \in Tasks : Submit(t)
  \/ Begin
  \/ End
  \/ Close

Spec == Init /\ [][Next]_vars

(* A task that ends and a queue that goes on: neither waits for a later call. *)
FairSpec == Spec /\ WF_vars(Begin) /\ WF_vars(End)
=============================================================================
