------------------------------- MODULE Worker -------------------------------
(***************************************************************************)
(* One Worker (src/core/concurrent/Executor.cxx) on its Daemon             *)
(* (Daemon.cxx, Daemon.hxx): the run-loop thread, the client threads that  *)
(* submit tasks with operator>>, and the thread that destroys the Worker.  *)
(*                                                                         *)
(* Daemon::mutex is `mtx`.  The run loop holds it from the moment          *)
(* wait_for() returns until lock.unlock(), so a task runs while it is held *)
(* and operator>> waits for the task to end.  The inner Worker::mutex only *)
(* ever nests inside Daemon::mutex, so each of its critical sections is    *)
(* one step here.                                                          *)
(*                                                                         *)
(* The two builds of Daemon.cxx differ in how they stop: with std::jthread *)
(* request_stop() is called with no lock, otherwise shouldStop is stored   *)
(* by update(), under Daemon::mutex.  `jthread` says which build this is.  *)
(***************************************************************************)
EXTENDS Naturals, Sequences, FiniteSets

CONSTANTS
  Clients,   (* the threads that submit tasks                        *)
  Tasks,     (* the tasks they submit, each of them once             *)
  Throwing,  (* the tasks that leave by an exception                 *)
  Builds,    (* the values of __cpp_lib_jthread that are considered  *)
  NoTask,    (* no task                                              *)
  Loop,      (* the run-loop thread, as an owner of the mutex        *)
  Owner,     (* the destroying thread, as an owner of the mutex      *)
  NoOne      (* the mutex is free                                    *)

ASSUME WorkerAssumption ==
  /\ Throwing \subseteq Tasks
  /\ NoTask \notin Tasks
  /\ Builds \subseteq BOOLEAN
  /\ Loop \notin Clients /\ Owner \notin Clients /\ NoOne \notin Clients
  /\ Loop # Owner /\ Loop # NoOne /\ Owner # NoOne

VARIABLES
  jthread,   (* the build                                               *)
  mtx,       (* who holds Daemon::mutex                                 *)
  queue,     (* Worker::taskQueue                                       *)
  stop,      (* stop_requested() / shouldStop                           *)
  stopped,   (* Daemon::stopped: stopAndJoin() was entered              *)
  loopPc,    (* where the run-loop thread is                            *)
  timedOut,  (* the deadline of the current wait_for() has passed       *)
  cur,       (* the task the run loop has popped and not finished       *)
  clientPc,  (* where each client is in operator>>                      *)
  arg,       (* the task each client is submitting                      *)
  ownerPc,   (* where the destroying thread is in stopAndJoin()         *)
  accepted,  (* history: every task ever emplaced, in order             *)
  finished,  (* history: every task that ended, in order                *)
  late       (* history: tasks that began after the stop flag was set   *)

loopVars   == <<loopPc, timedOut, cur, finished, late>>
clientVars == <<clientPc, arg, accepted>>
ownerVars  == <<stop, stopped, ownerPc>>
vars == <<jthread, mtx, queue, loopVars, clientVars, ownerVars>>

Elements(s) == {s[i] : i \in DOMAIN s}

Init ==
  /\ jthread \in Builds
  /\ mtx = NoOne
  /\ queue = <<>>
  /\ stop = FALSE
  /\ stopped = FALSE
  /\ loopPc = "test"
  /\ timedOut = FALSE
  /\ cur = NoTask
  /\ clientPc = [c \in Clients |-> "idle"]
  /\ arg = [c \in Clients |-> NoTask]
  /\ ownerPc = "alive"
  /\ accepted = <<>>
  /\ finished = <<>>
  /\ late = 0
-----------------------------------------------------------------------------
(* The run-loop thread (Daemon::start and the loop Worker::Worker gives it). *)

(* while (!stop): read with no lock held. *)
LoopTest ==
  /\ loopPc = "test"
  /\ loopPc' = IF stop THEN "done" ELSE "lock"
  /\ UNCHANGED <<jthread, mtx, queue, timedOut, cur, finished, late, clientVars, ownerVars>>

(* unique_lock lock(mtx), and the start of wait_for(): its deadline is fixed. *)
LoopLock ==
  /\ loopPc = "lock"
  /\ mtx = NoOne
  /\ mtx' = Loop
  /\ timedOut' = FALSE
  /\ loopPc' = "check"
  /\ UNCHANGED <<jthread, queue, cur, finished, late, clientVars, ownerVars>>

(* The mistake of a predicate that forgets the queue. *)
LoopCheckStopOnly ==
  /\ loopPc = "check"
  /\ loopPc' = IF stop \/ timedOut THEN "stopTest" ELSE "sleep"
  /\ UNCHANGED <<jthread, mtx, queue, timedOut, cur, finished, late, clientVars, ownerVars>>

(* The predicate of wait_for(): there is work, or a stop.  Past the deadline *)
(* wait_for() returns whatever the predicate says.                           *)
LoopCheck ==
  /\ loopPc = "check"
  /\ loopPc' = IF queue # <<>> \/ stop \/ timedOut THEN "stopTest" ELSE "sleep"
  /\ UNCHANGED <<jthread, mtx, queue, timedOut, cur, finished, late, clientVars, ownerVars>>

(* The thread releases the mutex and sleeps, atomically. *)
LoopSleep ==
  /\ loopPc = "sleep"
  /\ mtx' = NoOne
  /\ loopPc' = "asleep"
  /\ UNCHANGED <<jthread, queue, timedOut, cur, finished, late, clientVars, ownerVars>>

(* The mistake of wait() in the place of wait_for(). *)
LoopTimeoutNever ==
  /\ loopPc = "asleep"
  /\ FALSE
  /\ UNCHANGED vars

(* The deadline passes while the thread sleeps. *)
LoopTimeout ==
  /\ loopPc = "asleep"
  /\ timedOut' = TRUE
  /\ loopPc' = "woken"
  /\ UNCHANGED <<jthread, mtx, queue, cur, finished, late, clientVars, ownerVars>>

(* A spurious wake-up. *)
LoopSpurious ==
  /\ loopPc = "asleep"
  /\ loopPc' = "woken"
  /\ UNCHANGED <<jthread, mtx, queue, timedOut, cur, finished, late, clientVars, ownerVars>>

(* A woken thread takes the mutex again before it looks at the predicate. *)
LoopRelock ==
  /\ loopPc = "woken"
  /\ mtx = NoOne
  /\ mtx' = Loop
  /\ loopPc' = "check"
  /\ UNCHANGED <<jthread, queue, timedOut, cur, finished, late, clientVars, ownerVars>>

(* The mistake of not looking at the flag again after the wait. *)
LoopStopTestSkipped ==
  /\ loopPc = "stopTest"
  /\ loopPc' = "pop"
  /\ UNCHANGED <<jthread, mtx, queue, timedOut, cur, finished, late, clientVars, ownerVars>>

(* if (stop) break;  leaving the scope releases the mutex. *)
LoopStopTest ==
  /\ loopPc = "stopTest"
  /\ IF stop
     THEN loopPc' = "done" /\ mtx' = NoOne
     ELSE loopPc' = "pop" /\ UNCHANGED mtx
  /\ UNCHANGED <<jthread, queue, timedOut, cur, finished, late, clientVars, ownerVars>>

(* loop(): an empty queue returns at once, otherwise the oldest task is moved out. *)
LoopPopEmpty ==
  /\ loopPc = "pop"
  /\ queue = <<>>
  /\ loopPc' = "unlock"
  /\ UNCHANGED <<jthread, mtx, queue, timedOut, cur, finished, late, clientVars, ownerVars>>

(* The mistake of front() with no pop(). *)
LoopPopFrontOnly ==
  /\ loopPc = "pop"
  /\ queue # <<>>
  /\ cur' = Head(queue)
  /\ late' = IF stop THEN late + 1 ELSE late
  /\ loopPc' = "run"
  /\ UNCHANGED <<jthread, mtx, queue, timedOut, finished, clientVars, ownerVars>>

(* The mistake of a stack in the place of the queue. *)
LoopPopLast ==
  /\ loopPc = "pop"
  /\ queue # <<>>
  /\ cur' = queue[Len(queue)]
  /\ queue' = SubSeq(queue, 1, Len(queue) - 1)
  /\ late' = IF stop THEN late + 1 ELSE late
  /\ loopPc' = "run"
  /\ UNCHANGED <<jthread, mtx, timedOut, finished, clientVars, ownerVars>>

LoopPopTask ==
  /\ loopPc = "pop"
  /\ queue # <<>>
  /\ cur' = Head(queue)
  /\ queue' = Tail(queue)
  /\ late' = IF stop THEN late + 1 ELSE late
  /\ loopPc' = "run"
  /\ UNCHANGED <<jthread, mtx, timedOut, finished, clientVars, ownerVars>>

(* func() comes back. *)
LoopRunReturns ==
  /\ loopPc = "run"
  /\ cur \notin Throwing
  /\ finished' = Append(finished, cur)
  /\ cur' = NoTask
  /\ loopPc' = "unlock"
  /\ UNCHANGED <<jthread, mtx, queue, timedOut, late, clientVars, ownerVars>>

(* func() throws and one of the three catch clauses takes the exception. *)
LoopRunThrows ==
  /\ loopPc = "run"
  /\ cur \in Throwing
  /\ finished' = Append(finished, cur)
  /\ cur' = NoTask
  /\ loopPc' = "unlock"
  /\ UNCHANGED <<jthread, mtx, queue, timedOut, late, clientVars, ownerVars>>

(* The mistake of an early return that leaves the mutex locked. *)
LoopUnlockForgotten ==
  /\ loopPc = "unlock"
  /\ loopPc' = "test"
  /\ UNCHANGED <<jthread, mtx, queue, timedOut, cur, finished, late, clientVars, ownerVars>>

LoopUnlock ==
  /\ loopPc = "unlock"
  /\ mtx' = NoOne
  /\ loopPc' = "test"
  /\ UNCHANGED <<jthread, queue, timedOut, cur, finished, late, clientVars, ownerVars>>

LoopThread ==
  \/ LoopTest \/ LoopLock \/ LoopCheck \/ LoopSleep \/ LoopTimeout \/ LoopSpurious
  \/ LoopRelock \/ LoopStopTest \/ LoopPopEmpty \/ LoopPopTask
  \/ LoopRunReturns \/ LoopRunThrows \/ LoopUnlock
-----------------------------------------------------------------------------
(* operator>> by a client: update() on the Daemon with an emplace. *)

Known(t) == t \in Elements(accepted) \/ \E c \in Clients : arg[c] = t

(* A client calls operator>> while the Worker is alive. *)
SubmitCall(c, t) ==
  /\ clientPc[c] = "idle"
  /\ ownerPc = "alive"
  /\ ~Known(t)
  /\ clientPc' = [clientPc EXCEPT ![c] = "lock"]
  /\ arg' = [arg EXCEPT ![c] = t]
  /\ UNCHANGED <<jthread, mtx, queue, accepted, loopVars, ownerVars>>

SubmitLock(c) ==
  /\ clientPc[c] = "lock"
  /\ mtx = NoOne
  /\ mtx' = c
  /\ clientPc' = [clientPc EXCEPT ![c] = "emplace"]
  /\ UNCHANGED <<jthread, queue, arg, accepted, loopVars, ownerVars>>

(* queue.emplace(tsk), and the end of the scope of update()'s lock. *)
SubmitEmplace(c) ==
  /\ clientPc[c] = "emplace"
  /\ queue' = Append(queue, arg[c])
  /\ accepted' = Append(accepted, arg[c])
  /\ arg' = [arg EXCEPT ![c] = NoTask]
  /\ mtx' = NoOne
  /\ clientPc' = [clientPc EXCEPT ![c] = "notify"]
  /\ UNCHANGED <<jthread, loopVars, ownerVars>>

(* notify_one() / notify_all(): only the run loop ever sleeps on the condition. *)
Notify == loopPc' = IF loopPc = "asleep" THEN "woken" ELSE loopPc

SubmitNotify(c) ==
  /\ clientPc[c] = "notify"
  /\ Notify
  /\ clientPc' = [clientPc EXCEPT ![c] = "idle"]
  /\ UNCHANGED <<jthread, mtx, queue, arg, accepted, timedOut, cur, finished, late, ownerVars>>

Client(c) ==
  \/ \E t \in Tasks : SubmitCall(c, t)
  \/ SubmitLock(c) \/ SubmitEmplace(c) \/ SubmitNotify(c)
-----------------------------------------------------------------------------
(* stopAndJoin(), called by ~Worker and again by ~Daemon.  Destroying an     *)
(* object another thread still calls into is undefined, so the destructor    *)
(* runs when no operator>> is in flight.                                     *)

StopCall ==
  /\ ownerPc \in {"alive", "joined"}
  /\ \A c \in Clients : clientPc[c] = "idle"
  /\ stopped' = TRUE
  /\ ownerPc' = IF stopped THEN "gone" ELSE IF jthread THEN "request" ELSE "lock"
  /\ UNCHANGED <<jthread, mtx, queue, stop, loopVars, clientVars>>

(* thread.request_stop(): no lock. *)
StopRequest ==
  /\ ownerPc = "request"
  /\ stop' = TRUE
  /\ ownerPc' = "notifyAll"
  /\ UNCHANGED <<jthread, mtx, queue, stopped, loopVars, clientVars>>

(* update([] { shouldStop = true; }) of the other build. *)
StopLock ==
  /\ ownerPc = "lock"
  /\ mtx = NoOne
  /\ mtx' = Owner
  /\ ownerPc' = "store"
  /\ UNCHANGED <<jthread, queue, stop, stopped, loopVars, clientVars>>

StopStore ==
  /\ ownerPc = "store"
  /\ stop' = TRUE
  /\ mtx' = NoOne
  /\ ownerPc' = "notifyOne"
  /\ UNCHANGED <<jthread, queue, stopped, loopVars, clientVars>>

StopNotify ==
  /\ ownerPc \in {"notifyOne", "notifyAll"}
  /\ Notify
  /\ ownerPc' = IF ownerPc = "notifyOne" THEN "notifyAll" ELSE "join"
  /\ UNCHANGED <<jthread, mtx, queue, stop, stopped, timedOut, cur, finished, late, clientVars>>

(* thread.join(). *)
StopJoin ==
  /\ ownerPc = "join"
  /\ loopPc = "done"
  /\ ownerPc' = "joined"
  /\ UNCHANGED <<jthread, mtx, queue, stop, stopped, loopVars, clientVars>>

Destroyer ==
  \/ StopCall \/ StopRequest \/ StopLock \/ StopStore \/ StopNotify \/ StopJoin

Next ==
  \/ LoopThread
  \/ \E c \in Clients : Client(c)
  \/ Destroyer

Spec == Init /\ [][Next]_vars

(***************************************************************************)
(* Each thread that can take a step takes one.  The deadline of wait_for() *)
(* is absolute, so spurious wake-ups cannot put it off for ever (SF).  A   *)
(* blocked lock() gets a mutex that is free over and over (SF): an idle    *)
(* run loop leaves it free for the 100 us it sleeps.  Whether a client     *)
(* submits, or the Worker is ever destroyed, is left open, but a           *)
(* destructor that has begun goes on.                                      *)
(***************************************************************************)
LoopSteps == 
  \/ LoopTest \/ LoopCheck \/ LoopSleep \/ LoopStopTest \/ LoopPopEmpty
  \/ LoopPopTask \/ LoopRunReturns \/ LoopRunThrows \/ LoopUnlock

Fairness ==
  /\ WF_vars(LoopSteps)
  /\ SF_vars(LoopTimeout)
  /\ SF_vars(LoopLock \/ LoopRelock)
  /\ \A c \in Clients :
       /\ SF_vars(SubmitLock(c))
       /\ WF_vars(SubmitEmplace(c) \/ SubmitNotify(c))
  /\ SF_vars(StopLock)
  /\ WF_vars(StopRequest \/ StopStore \/ StopNotify \/ StopJoin)

FairSpec == Spec /\ Fairness
-----------------------------------------------------------------------------
LoopPcs ==
  {"test", "lock", "check", "sleep", "asleep", "woken", "stopTest", "pop", "run",
   "unlock", "done"}
LoopHolds == {"check", "sleep", "stopTest", "pop", "run", "unlock"}

TypeOK ==
  /\ jthread \in BOOLEAN
  /\ mtx \in Clients \cup {Loop, Owner, NoOne}
  /\ queue \in Seq(Tasks)
  /\ stop \in BOOLEAN
  /\ stopped \in BOOLEAN
  /\ loopPc \in LoopPcs
  /\ timedOut \in BOOLEAN
  /\ cur \in Tasks \cup {NoTask}
  /\ clientPc \in [Clients -> {"idle", "lock", "emplace", "notify"}]
  /\ arg \in [Clients -> Tasks \cup {NoTask}]
  /\ ownerPc \in {"alive", "request", "lock", "store", "notifyOne", "notifyAll",
                  "join", "joined", "gone"}
  /\ accepted \in Seq(Tasks)
  /\ finished \in Seq(Tasks)
  /\ late \in Nat

(***************************************************************************)
(* Daemon::mutex protects what it is meant to protect: whoever is between  *)
(* its lock() and its unlock(), across the release and re-acquisition      *)
(* inside wait_for(), is its one holder.  In particular no operator>> is   *)
(* inside update() while a task runs.                                      *)
(***************************************************************************)
MutexDiscipline ==
  /\ mtx = Loop <=> loopPc \in LoopHolds
  /\ \A c \in Clients : mtx = c <=> clientPc[c] = "emplace"
  /\ mtx = Owner <=> ownerPc = "store"

Running == IF cur = NoTask THEN <<>> ELSE <<cur>>

(***************************************************************************)
(* Every accepted task is in exactly one place, and the places are in      *)
(* order: ended tasks, the running one, the queue.  So tasks run first-in  *)
(* first-out, none runs twice, and none is lost while the Worker runs,     *)
(* exceptions included.                                                    *)
(***************************************************************************)
FifoAccounting == accepted = finished \o Running \o queue

(***************************************************************************)
(* No wake-up is lost.  When the run loop sleeps although there is work,   *)
(* the client that brought the work is still about to notify; when it      *)
(* sleeps although a stop was stored under the mutex, the destructor is    *)
(* still about to notify.  (request_stop() takes no lock: the std::jthread *)
(* build can lose that wake-up and leans on the wait_for() deadline.)      *)
(***************************************************************************)
NoLostWakeup ==
  loopPc = "asleep" =>
    /\ queue # <<>> => \E c \in Clients : clientPc[c] = "notify"
    /\ stop /\ ~jthread => ownerPc \in {"notifyOne", "notifyAll"}

(***************************************************************************)
(* After the stop flag is set no further task begins when the flag is set  *)
(* under the mutex, and at most the one the loop was already past its      *)
(* test for when it is not.                                                *)
(***************************************************************************)
LateStarts == late <= (IF jthread THEN 1 ELSE 0)

(* Stopping always ends: stopAndJoin() returns once it was called, also when *)
(* the notification of request_stop() reached nobody.                        *)
StopReturns == stopped ~> ownerPc \in {"joined", "gone"}

(* A call of operator>> returns: it waits for the running task, not for ever. *)
SubmitReturns == \A c \in Clients : clientPc[c] = "lock" ~> clientPc[c] = "idle"

(* The Worker is a first-in first-out task queue that its run loop closes    *)
(* when it leaves: every step is a step of TaskQueue or none, and an         *)
(* accepted task runs unless the queue closes first, whatever other tasks    *)
(* throw.                                                                    *)
Queue == INSTANCE TaskQueue WITH
  waiting <- queue, running <- cur, done <- finished, closed <- (loopPc = "done")

ImplementsTaskQueue == Queue!FairSpec
=============================================================================
