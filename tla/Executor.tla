------------------------------ MODULE Executor ------------------------------
(***************************************************************************)
(* The Executor (src/core/concurrent/Executor.cxx, Executor.hxx): a pool   *)
(* of Workers that grows by one Worker at every submission until it is     *)
(* full, and hands tasks out in turn.                                      *)
(*                                                                         *)
(* operator>> holds Executor::mutex (`emtx`) throughout, also while it     *)
(* waits for the Daemon::mutex of the chosen Worker, and a Worker holds    *)
(* that one while it runs a task (module Worker).  A task may itself       *)
(* submit a task to the Executor that runs it; the thread that calls       *)
(* operator>> is then the Worker's own.                                    *)
(*                                                                         *)
(* A Worker is taken at the level of TaskQueue, which Worker implements:   *)
(* Daemon::mutex is held when a task runs, and free otherwise.             *)
(***************************************************************************)
EXTENDS Integers, Sequences, FiniteSets

CONSTANTS
  Clients,    (* the threads outside the pool that submit tasks               *)
  Tasks,      (* the tasks, each submitted once                               *)
  Empty,      (* the tasks that are an empty std::function                    *)
  Child,      (* Child[t]: the task that t submits while it runs, or NoTask   *)
  Capacity,   (* the parameter of the constructor                             *)
  Cores,      (* the values of hardware_concurrency(), which may be 0         *)
  Largest,    (* the largest pool that these allow                            *)
  NoTask,     (* no task                                                      *)
  NoOne       (* the mutex is free                                            *)

Children == {Child[t] : t \in Tasks} \ {NoTask}
Workers == 0 .. Largest - 1
Threads == Clients \cup Workers

ASSUME ExecutorAssumption ==
  /\ Empty \subseteq Tasks
  /\ NoTask \notin Tasks
  /\ Child \in [Tasks -> Tasks \cup {NoTask}]
  /\ Largest \in Nat
  /\ Capacity \in 0 .. Largest /\ Cores \subseteq 0 .. Largest
  /\ NoOne \notin Threads
  /\ Clients \cap Workers = {}

VARIABLES
  capacity,  (* Executor::workerPoolCapacity                             *)
  size,      (* workerPool.size()                                        *)
  index,     (* Executor::workerIndex                                    *)
  emtx,      (* who holds Executor::mutex                                *)
  waiting,   (* the queue of each Worker                                 *)
  running,   (* the task each Worker runs                                *)
  done,      (* history: the tasks each Worker has ended, in order       *)
  closed,    (* the Workers whose run loop has ended                     *)
  pc,        (* where each thread is in operator>>                       *)
  arg,       (* the task it submits                                      *)
  known,     (* history: the tasks handed to operator>>                  *)
  refused,   (* history: the tasks operator>> did not take               *)
  destroyer, (* where the thread that destroys the Executor is           *)
  stopping,  (* the Worker that ~Executor destroys now, or -1            *)
  gone       (* the Workers it has destroyed                             *)

callVars == <<pc, arg, known, refused>>
taskVars == <<waiting, running, done, closed>>
endVars  == <<destroyer, stopping, gone>>
vars == <<capacity, size, index, emtx, taskVars, callVars, endVars>>

Init ==
  /\ capacity \in (IF Capacity = 0 THEN Cores ELSE {Capacity})
  /\ size = 0
  /\ index = 0
  /\ emtx = NoOne
  /\ waiting = [w \in Workers |-> <<>>]
  /\ running = [w \in Workers |-> NoTask]
  /\ done = [w \in Workers |-> <<>>]
  /\ closed = {}
  /\ pc = [p \in Threads |-> "idle"]
  /\ arg = [p \in Threads |-> NoTask]
  /\ known = {}
  /\ refused = {}
  /\ destroyer = "none"
  /\ stopping = -1
  /\ gone = {}
-----------------------------------------------------------------------------
(* operator>> by thread p. *)

Enter(p, t) ==
  /\ pc' = [pc EXCEPT ![p] = "lock"]
  /\ arg' = [arg EXCEPT ![p] = t]
  /\ known' = known \cup {t}
  /\ UNCHANGED <<capacity, size, index, emtx, taskVars, refused, endVars>>

Call(c, t) ==
  /\ pc[c] = "idle"
  /\ destroyer = "none"
  /\ t \notin known \cup Children
  /\ Enter(c, t)

(* The task that Worker w runs has yet to submit its child. *)
HasToCall(w) == running[w] # NoTask /\ Child[running[w]] \notin known \cup {NoTask}

(* func() of a running task calls operator>> of the same Executor. *)
NestedCall(w) ==
  /\ HasToCall(w)
  /\ Enter(w, Child[running[w]])

(* The mistake of reporting an empty task and going on. *)
LockReportsOnly(p) ==
  /\ pc[p] = "lock"
  /\ emtx = NoOne
  /\ emtx' = p
  /\ pc' = [pc EXCEPT ![p] = "grow"]
  /\ refused' = IF arg[p] \in Empty THEN refused \cup {arg[p]} ELSE refused
  /\ UNCHANGED <<capacity, size, index, taskVars, arg, known, endVars>>

(* Executor::mutex is taken; an empty task is reported and ignored. *)
Lock(p) ==
  /\ pc[p] = "lock"
  /\ emtx = NoOne
  /\ emtx' = p
  /\ pc' = [pc EXCEPT ![p] = IF arg[p] \in Empty THEN "leave" ELSE "grow"]
  /\ refused' = IF arg[p] \in Empty THEN refused \cup {arg[p]} ELSE refused
  /\ UNCHANGED <<capacity, size, index, taskVars, arg, known, endVars>>

(* A new Worker joins the pool. *)
Grow(p) ==
  /\ pc[p] = "grow"
  /\ size < capacity
  /\ size' = size + 1
  /\ pc' = [pc EXCEPT ![p] = "dispatch"]
  /\ UNCHANGED <<capacity, index, emtx, taskVars, arg, known, refused, endVars>>

(* The thread of the new Worker cannot be started: the exception leaves *)
(* operator>> with the pool as it was.                                  *)
GrowFails(p) ==
  /\ pc[p] = "grow"
  /\ size < capacity
  /\ refused' = refused \cup {arg[p]}
  /\ pc' = [pc EXCEPT ![p] = "leave"]
  /\ UNCHANGED <<capacity, size, index, emtx, taskVars, arg, known, endVars>>

Full(p) ==
  /\ pc[p] = "grow"
  /\ size = capacity
  /\ pc' = [pc EXCEPT ![p] = "dispatch"]
  /\ UNCHANGED <<capacity, size, index, emtx, taskVars, arg, known, refused, endVars>>

(* workerPool.at(workerIndex) throws: only an empty pool can do that. *)
DispatchOutOfRange(p) ==
  /\ pc[p] = "dispatch"
  /\ index >= size
  /\ refused' = refused \cup {arg[p]}
  /\ pc' = [pc EXCEPT ![p] = "leave"]
  /\ UNCHANGED <<capacity, size, index, emtx, taskVars, arg, known, endVars>>

(* The mistake of a turn that never moves on. *)
DispatchStuck(p) ==
  /\ pc[p] = "dispatch"
  /\ index < size
  /\ running[index] = NoTask
  /\ waiting' = [waiting EXCEPT ![index] = Append(@, arg[p])]
  /\ pc' = [pc EXCEPT ![p] = "leave"]
  /\ UNCHANGED <<capacity, size, index, emtx, running, done, closed, arg, known, refused, endVars>>

(* The mistake of an urgent task that jumps the queue. *)
DispatchAtFront(p) ==
  /\ pc[p] = "dispatch"
  /\ index < size
  /\ running[index] = NoTask
  /\ waiting' = [waiting EXCEPT ![index] = <<arg[p]>> \o @]
  /\ index' = (index + 1) % capacity
  /\ pc' = [pc EXCEPT ![p] = "leave"]
  /\ UNCHANGED <<capacity, size, emtx, running, done, closed, arg, known, refused, endVars>>

(* The chosen Worker takes the task once it runs none; then the turn passes. *)
Dispatch(p) ==
  /\ pc[p] = "dispatch"
  /\ index < size
  /\ running[index] = NoTask
  /\ waiting' = [waiting EXCEPT ![index] = Append(@, arg[p])]
  /\ index' = (index + 1) % capacity
  /\ pc' = [pc EXCEPT ![p] = "leave"]
  /\ UNCHANGED <<capacity, size, emtx, running, done, closed, arg, known, refused, endVars>>

(* The mistake of an early return that does not release the mutex. *)
LeaveLocked(p) ==
  /\ pc[p] = "leave"
  /\ emtx' = IF arg[p] \in Empty THEN emtx ELSE NoOne
  /\ pc' = [pc EXCEPT ![p] = "idle"]
  /\ arg' = [arg EXCEPT ![p] = NoTask]
  /\ UNCHANGED <<capacity, size, index, taskVars, known, refused, endVars>>

(* Every way out of operator>> ends the scope of its lock. *)
Leave(p) ==
  /\ pc[p] = "leave"
  /\ emtx' = NoOne
  /\ pc' = [pc EXCEPT ![p] = "idle"]
  /\ arg' = [arg EXCEPT ![p] = NoTask]
  /\ UNCHANGED <<capacity, size, index, taskVars, known, refused, endVars>>

Inside(p) == Grow(p) \/ GrowFails(p) \/ Full(p) \/ DispatchOutOfRange(p) \/ Leave(p)
-----------------------------------------------------------------------------
(* The Workers. *)

Begin(w) ==
  /\ w \notin closed
  /\ running[w] = NoTask
  /\ waiting[w] # <<>>
  /\ running' = [running EXCEPT ![w] = Head(waiting[w])]
  /\ waiting' = [waiting EXCEPT ![w] = Tail(@)]
  /\ UNCHANGED <<capacity, size, index, emtx, done, closed, callVars, endVars>>

(* The mistake of a run loop that ends with its first task. *)
EndEndsLoop(w) ==
  /\ running[w] # NoTask
  /\ ~HasToCall(w) /\ pc[w] = "idle"
  /\ done' = [done EXCEPT ![w] = Append(@, running[w])]
  /\ running' = [running EXCEPT ![w] = NoTask]
  /\ closed' = closed \cup {w}
  /\ UNCHANGED <<capacity, size, index, emtx, waiting, callVars, endVars>>

(* A task ends when it has submitted what it submits. *)
End(w) ==
  /\ running[w] # NoTask
  /\ ~HasToCall(w) /\ pc[w] = "idle"
  /\ done' = [done EXCEPT ![w] = Append(@, running[w])]
  /\ running' = [running EXCEPT ![w] = NoTask]
  /\ UNCHANGED <<capacity, size, index, emtx, waiting, closed, callVars, endVars>>
-----------------------------------------------------------------------------
(* ~Executor destroys the Workers of the pool one after the other (in which  *)
(* order is up to the library).  It runs when no thread is inside, or will   *)
(* come back into, operator>>: using a mutex that is gone is undefined.      *)

WillCall(w) == HasToCall(w) \/ \E i \in DOMAIN waiting[w] : Child[waiting[w][i]] # NoTask

DestroyCall ==
  /\ destroyer = "none"
  /\ \A p \in Threads : pc[p] = "idle"
  /\ \A w \in Workers : ~WillCall(w)
  /\ destroyer' = "destroying"
  /\ UNCHANGED <<capacity, size, index, emtx, taskVars, callVars, stopping, gone>>

(* The stop flag of Worker w is set; the run loop may be past its test. *)
StopWorker(w) ==
  /\ destroyer = "destroying"
  /\ stopping = -1
  /\ w < size /\ w \notin gone
  /\ stopping' = w
  /\ UNCHANGED <<capacity, size, index, emtx, taskVars, callVars, destroyer, gone>>

(* The run loop of the Worker sees the flag between two tasks and ends. *)
Close(w) ==
  /\ stopping = w
  /\ w \notin closed
  /\ running[w] = NoTask
  /\ closed' = closed \cup {w}
  /\ UNCHANGED <<capacity, size, index, emtx, waiting, running, done, callVars, endVars>>

(* The mistake of waiting for the queue to drain after the run loop has ended. *)
JoinIfQueueEmpty(w) ==
  /\ stopping = w
  /\ w \in closed
  /\ waiting[w] = <<>>
  /\ stopping' = -1
  /\ gone' = gone \cup {w}
  /\ UNCHANGED <<capacity, size, index, emtx, taskVars, callVars, destroyer>>

(* thread.join(): tasks that still wait are dropped with the queue. *)
JoinWorker(w) ==
  /\ stopping = w
  /\ w \in closed
  /\ stopping' = -1
  /\ gone' = gone \cup {w}
  /\ UNCHANGED <<capacity, size, index, emtx, taskVars, callVars, destroyer>>

DestroyReturn ==
  /\ destroyer = "destroying"
  /\ \A w \in Workers : w < size => w \in gone
  /\ destroyer' = "destroyed"
  /\ UNCHANGED <<capacity, size, index, emtx, taskVars, callVars, stopping, gone>>

Next ==
  \/ \E c \in Clients, t \in Tasks : Call(c, t)
  \/ \E p \in Threads : Lock(p) \/ Inside(p) \/ Dispatch(p)
  \/ \E w \in Workers : NestedCall(w) \/ Begin(w) \/ End(w)
  \/ \E w \in Workers : StopWorker(w) \/ Close(w) \/ JoinWorker(w)
  \/ DestroyCall \/ DestroyReturn

Spec == Init /\ [][Next]_vars

(***************************************************************************)
(* Threads go on, tasks end, and a mutex that is free over and over is     *)
(* acquired (SF): emtx by every waiting thread, the mutex of a Worker by   *)
(* the one thread that dispatches and by ~Worker.  No thread has to call,  *)
(* and nobody has to destroy the Executor.                                 *)
(***************************************************************************)
Fairness ==
  /\ \A p \in Threads : SF_vars(Lock(p))
  /\ WF_vars(\E p \in Threads : Inside(p))
  /\ SF_vars(\E p \in Threads : Dispatch(p))
  /\ \A w \in Workers : WF_vars(NestedCall(w) \/ Begin(w) \/ End(w))
  /\ WF_vars((\E w \in Workers : StopWorker(w) \/ JoinWorker(w)) \/ DestroyReturn)
  /\ SF_vars(\E w \in Workers : Close(w))

FairSpec == Spec /\ Fairness
-----------------------------------------------------------------------------
TypeOK ==
  /\ capacity \in 0 .. Largest /\ size \in 0 .. capacity /\ index \in 0 .. Largest
  /\ emtx \in Threads \cup {NoOne}
  /\ waiting \in [Workers -> Seq(Tasks)]
  /\ running \in [Workers -> Tasks \cup {NoTask}]
  /\ done \in [Workers -> Seq(Tasks)]
  /\ closed \in SUBSET Workers /\ gone \in SUBSET Workers
  /\ pc \in [Threads -> {"idle", "lock", "grow", "dispatch", "leave"}]
  /\ arg \in [Threads -> Tasks \cup {NoTask}]
  /\ known \in SUBSET Tasks /\ refused \in SUBSET Tasks
  /\ destroyer \in {"none", "destroying", "destroyed"}
  /\ stopping \in Workers \cup {-1}

(***************************************************************************)
(* The turn always names a Worker that exists when a task is handed out,   *)
(* although index and size grow separately and the creation of a Worker    *)
(* may fail in between: workerPool.at() throws only for an Executor with   *)
(* no capacity at all (hardware_concurrency() = 0).                        *)
(***************************************************************************)
IndexInPool ==
  /\ size < capacity => index = size \/ (index = size - 1 /\ \E p \in Threads : pc[p] = "dispatch")
  /\ \A p \in Threads : pc[p] = "dispatch" /\ capacity > 0 => index < size

Taken(w) == Len(waiting[w]) + Len(done[w]) + (IF running[w] = NoTask THEN 0 ELSE 1)

(* Round robin: the Workers before the turn have taken exactly one task more  *)
(* than those from the turn on, whatever was ignored or failed in between.    *)
RoundRobin ==
  capacity > 0 =>
    \A v, w \in 0 .. capacity - 1 :
      Taken(v) - Taken(w) = (IF v < index /\ w >= index THEN 1
                             ELSE IF v >= index /\ w < index THEN -1 ELSE 0)

Held(w) == {waiting[w][i] : i \in DOMAIN waiting[w]} \cup {running[w]}
             \cup {done[w][i] : i \in DOMAIN done[w]}

(* A task that was handed over is with one Worker only, or refused and with  *)
(* none, or its operator>> has not got that far.                             *)
OnePlace ==
  \A t \in known :
    LET places == {w \in Workers : t \in Held(w)} IN
    /\ Cardinality(places) <= 1
    /\ t \in refused => places = {}
    /\ t \notin refused /\ places = {} =>
         \E p \in Threads : arg[p] = t /\ pc[p] \in {"lock", "grow", "dispatch"}

(* When a Worker is destroyed its task has ended, and it never runs another;  *)
(* when ~Executor has returned none of them runs.                             *)
NothingRunsAfterDestroy ==
  /\ \A w \in closed : running[w] = NoTask
  /\ destroyer = "destroyed" => \A w \in Workers : w < size => w \in closed

(* Whatever the pool and the turn do, each Worker is a TaskQueue of its own:  *)
(* what was handed to it runs in order and at most once.                      *)
Queue(w) == INSTANCE TaskQueue WITH
  waiting <- waiting[w], running <- running[w], done <- done[w], closed <- (w \in closed)

WorkersAreQueues ==
  /\ \A w \in Workers : Queue(w)!Init
  /\ [][\A w \in Workers : [Queue(w)!Next]_(Queue(w)!vars)]_taskVars

(* A task is inside operator>> of the Executor that runs it. *)
Nesting == \E w \in Workers : pc[w] # "idle"

(* A call of operator>> returns, unless some task submits to the Executor it   *)
(* runs on and stays there for ever: then it waits, holding Executor::mutex    *)
(* or waiting for it, for a Worker whose task can only end after it.           *)
SubmitReturns ==
  \A c \in Clients : [](pc[c] # "idle" => <>(pc[c] = "idle" \/ []Nesting))

Ended(t) == \E w \in Workers : \E i \in DOMAIN done[w] : done[w][i] = t

(* A task that was handed over and not refused runs to its end, unless the     *)
(* Executor is destroyed first or a submission from inside a task blocks it.   *)
TasksRun ==
  \A t \in Tasks :
    [](t \in known => <>(t \in refused \/ Ended(t) \/ destroyer # "none" \/ []Nesting))

(* ~Executor returns: every Worker is joined. *)
DestroyReturns == destroyer = "destroying" ~> destroyer = "destroyed"
=============================================================================
