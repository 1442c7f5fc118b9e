-------------------------------- MODULE JSVM --------------------------------
(***************************************************************************)
(* The JavaScript VM (src/core/vm/JSVM.cxx on BaseVM.cxx): native threads  *)
(* call JS functions, JS functions make promises whose work is done by the *)
(* Workers of BaseVM::executor, and two looper threads run timers and      *)
(* promise jobs.  All of them share the QuickJS context behind the         *)
(* recursive vmMutex.                                                      *)
(*                                                                         *)
(* What a JS function does is given by Script: whether it calls back into  *)
(* the host (which may call a JS function on the same thread), and what it *)
(* returns.  The Executor is at the level of module Executor: a task is    *)
(* handed to the Worker whose turn it is, once that runs no task.  Its     *)
(* mutex is not modelled: JS code submits with vmMutex held, so nobody     *)
(* else is ever inside operator>>.  A looper is a TimerTask: it can be     *)
(* joined between two runs of its task.                                    *)
(***************************************************************************)
EXTENDS Integers, Sequences, FiniteSets

CONSTANTS
  Callers,       (* native threads that call JS functions                       *)
  Workers,       (* the pool: 0 .. n - 1                                        *)
  TimerLoops,    (* names for the threads of timerLooperTask                    *)
  PromiseLoops,  (* names for the threads of promiseLooperTask                  *)
  Fns,           (* JS functions                                                *)
  Script,        (* what each of them does, a record:                           *)
                 (*   await  its callers pass await = true                      *)
                 (*   host   the function the host calls back meanwhile, or NoFn*)
                 (*   makes  what it returns: "value", "direct" (the promise of *)
                 (*          newPromise), "chained" (one that depends on it and *)
                 (*          needs a promise job), "never", or "fails"          *)
                 (*   then   the function the host calls in that job, or NoFn   *)
                 (*   later  the function the host calls in a callback that it  *)
                 (*          gives to os.setTimeout(), or NoFn                  *)
  Promises,      (* the promises newPromise can make: 1 .. n                    *)
  MaxCalls,      (* bound: calls made by Callers                                *)
  RetryCount,    (* JSCallRetryCount                                            *)
  NoFn,          (* no function                                                 *)
  Nobody         (* no thread, no looper                                        *)

Loops == TimerLoops \cup PromiseLoops
Threads == Callers \cup Loops
Kinds == {"timer", "promise"}

(* Promises that are not made by newPromise. *)
NoPromise == 0      (* the function returned a plain value *)
NeverSettles == -1

ASSUME JSVMAssumption ==
  /\ IsFiniteSet(Workers) /\ Workers # {} /\ Workers = 0 .. Cardinality(Workers) - 1
  /\ IsFiniteSet(Promises) /\ Promises = 1 .. Cardinality(Promises)
  /\ RetryCount \in Nat \ {0} /\ MaxCalls \in Nat
  /\ Script \in [Fns -> [await : BOOLEAN, host : Fns \cup {NoFn}, then : Fns \cup {NoFn},
                         later : Fns \cup {NoFn},
                         makes : {"value", "direct", "chained", "never", "fails"}]]
  /\ NoFn \notin Fns
  /\ Nobody \notin Threads \cup Workers
  /\ TimerLoops \cap PromiseLoops = {} /\ Callers \cap Loops = {} /\ Threads \cap Workers = {}

VARIABLES
  owner,    (* the thread that holds vmMutex                               *)
  depth,    (* how often it holds it                                       *)
  stack,    (* the calls of callFunc each thread is in, the innermost last *)
  calls,    (* how many calls Callers have made                            *)
  promise,  (* the state of each promise                                   *)
  madeBy,   (* the function that made it                                   *)
  cache,    (* promiseCache: the promises whose handle is in it            *)
  dropped,  (* history: promises whose work was given up                   *)
  queue,    (* the task queue of each Worker: promises                     *)
  running,  (* the promise whose task each Worker runs, or NoPromise       *)
  wpc,      (* where each Worker is in that task                           *)
  wtries,   (* how often it has tried to lock vmMutex for it               *)
  turn,     (* Executor::workerIndex                                       *)
  looper,   (* timerLooperTask and promiseLooperTask                       *)
  lpc,      (* where each looper thread is                                 *)
  job,      (* the promise whose job a looper runs, or NoPromise           *)
  timers,   (* the callbacks of os.setTimeout() that are to come: how many *)
            (* in which the host calls each function                       *)
  ended     (* std::terminate() has ended the process                      *)

poolVars == <<queue, running, wpc, wtries, turn>>
loopVars == <<looper, lpc, job, timers, ended>>
heapVars == <<promise, madeBy, cache, dropped>>
vars == <<owner, depth, stack, calls, heapVars, poolVars, loopVars>>

Init ==
  /\ owner = Nobody /\ depth = 0
  /\ stack = [t \in Threads |-> <<>>]
  /\ calls = 0
  /\ promise = [p \in Promises |-> "unborn"]
  /\ madeBy = [p \in Promises |-> NoFn]
  /\ cache = {} /\ dropped = {}
  /\ queue = [w \in Workers |-> <<>>]
  /\ running = [w \in Workers |-> NoPromise]
  /\ wpc = [w \in Workers |-> "idle"]
  /\ wtries = [w \in Workers |-> 0]
  /\ turn = 0
  /\ looper = [k \in Kinds |-> Nobody]
  /\ lpc = [l \in Loops |-> "none"]
  /\ job = [l \in Loops |-> NoPromise]
  /\ timers = [f \in Fns |-> 0]
  /\ ended = FALSE
-----------------------------------------------------------------------------
(* vmMutex, a recursive_timed_mutex. *)

CanLock(t) == owner \in {t, Nobody}

LockBy(t) == owner' = t /\ depth' = depth + 1

Unlock ==
  /\ depth' = depth - 1
  /\ owner' = IF depth = 1 THEN Nobody ELSE owner

(* The innermost call of thread t. *)
Top(t) == stack[t][Len(stack[t])]

At(t, pc) == stack[t] # <<>> /\ Top(t).pc = pc

(* The innermost call of t moves on, with `fields` of its frame changed. *)
Move(t, frame) == stack' = [stack EXCEPT ![t][Len(stack[t])] = frame]
Goto(t, pc) == Move(t, [Top(t) EXCEPT !.pc = pc])

Frame(f) == [pc |-> "try", fn |-> f, tries |-> 0, promise |-> NoPromise, old |-> Nobody]
Enter(t, f) == stack' = [stack EXCEPT ![t] = Append(@, Frame(f))]
Return(t) == stack' = [stack EXCEPT ![t] = SubSeq(@, 1, Len(@) - 1)]
-----------------------------------------------------------------------------
(* callFunc. *)

Awaits(t) == \E i \in DOMAIN stack[t] : Script[stack[t][i].fn].await

(* A native thread calls a JS function.  Two awaited calls at once assign    *)
(* the looper pointers with no lock, which is undefined: they are left out.  *)
Call(c, f) ==
  /\ stack[c] = <<>>
  /\ calls < MaxCalls
  /\ Script[f].await => \A d \in Callers : ~Awaits(d)
  /\ calls' = calls + 1
  /\ Enter(c, f)
  /\ UNCHANGED <<owner, depth, heapVars, poolVars, loopVars>>

SetTimer(f) ==
  timers' = IF Script[f].later = NoFn THEN timers ELSE [timers EXCEPT ![Script[f].later] = @ + 1]

(* lockAutoRetry(): try_lock() succeeds, and JS_Call begins. *)
Lock(t) ==
  /\ At(t, "try")
  /\ CanLock(t)
  /\ LockBy(t)
  /\ Goto(t, "js")
  /\ SetTimer(Top(t).fn)
  /\ UNCHANGED <<calls, heapVars, poolVars, looper, lpc, job, ended>>

(* try_lock() fails; after RetryCount of them the call returns nothing. *)
LockFails(t) ==
  /\ At(t, "try")
  /\ ~CanLock(t)
  /\ IF Top(t).tries + 1 < RetryCount
     THEN Move(t, [Top(t) EXCEPT !.tries = @ + 1])
     ELSE Return(t)
  /\ UNCHANGED <<owner, depth, calls, heapVars, poolVars, loopVars>>

(* JS_Call: the function calls the host, and the host calls JS again. *)
HostCall(t) ==
  /\ At(t, "js")
  /\ LET f == Script[Top(t).fn].host IN
     /\ f # NoFn
     /\ stack' = [stack EXCEPT ![t] = Append([@ EXCEPT ![Len(@)].pc = "hosted"], Frame(f))]
  /\ UNCHANGED <<owner, depth, calls, heapVars, poolVars, loopVars>>

InScript(t) == At(t, "hosted") \/ (At(t, "js") /\ Script[Top(t).fn].host = NoFn)
Makes(t) == Script[Top(t).fn].makes

(* JS_Call returns with no work for a Worker. *)
MakeNothing(t) ==
  /\ InScript(t)
  /\ Makes(t) \notin {"direct", "chained"}
  /\ Move(t, [Top(t) EXCEPT !.pc = IF Makes(t) = "fails" THEN "failed" ELSE "called",
                            !.promise = IF Makes(t) = "never" THEN NeverSettles ELSE NoPromise])
  /\ UNCHANGED <<owner, depth, calls, heapVars, poolVars, loopVars>>

Unborn == {p \in Promises : promise[p] = "unborn"}

(* newPromise(): vmMutex is taken once more and released around the making *)
(* of the promise and its handle.                                          *)
MakePromise(t) ==
  /\ InScript(t)
  /\ Makes(t) \in {"direct", "chained"}
  /\ Unborn # {}
  /\ LET p == CHOOSE q \in Unborn : TRUE IN
     /\ promise' = [promise EXCEPT ![p] = "pending"]
     /\ madeBy' = [madeBy EXCEPT ![p] = Top(t).fn]
     /\ cache' = cache \cup {p}
     /\ Move(t, [Top(t) EXCEPT !.pc = "submit", !.promise = p])
  /\ UNCHANGED <<owner, depth, calls, dropped, poolVars, loopVars>>

(* submitTask(), and the return of JS_Call: the Worker whose turn it is    *)
(* takes the task once it runs none.                                       *)
Submit(t) ==
  /\ At(t, "submit")
  /\ running[turn] = NoPromise
  /\ queue' = [queue EXCEPT ![turn] = Append(@, Top(t).promise)]
  /\ turn' = (turn + 1) % Cardinality(Workers)
  /\ Goto(t, "called")
  /\ UNCHANGED <<owner, depth, calls, heapVars, running, wpc, wtries, loopVars>>

(* The mistake of an error path that forgets the lock. *)
FailedLocked(t) ==
  /\ At(t, "failed")
  /\ Return(t)
  /\ UNCHANGED <<owner, depth, calls, heapVars, poolVars, loopVars>>

(* An exception, or no such function: nothing is returned. *)
Failed(t) ==
  /\ At(t, "failed")
  /\ Unlock
  /\ Return(t)
  /\ UNCHANGED <<calls, heapVars, poolVars, loopVars>>

(* await = false: the result is read, then vmMutex is released. *)
Result(t) ==
  /\ At(t, "called")
  /\ ~Script[Top(t).fn].await
  /\ Unlock
  /\ Return(t)
  /\ UNCHANGED <<calls, heapVars, poolVars, loopVars>>

(* The mistake of releasing every level of the recursive mutex. *)
AwaitUnlockAll(t) ==
  /\ At(t, "called")
  /\ Script[Top(t).fn].await
  /\ owner' = Nobody
  /\ depth' = 0
  /\ Goto(t, "timer")
  /\ UNCHANGED <<calls, heapVars, poolVars, loopVars>>

(* await = true: one level of vmMutex is released before the loopers are  *)
(* renewed and the promise is polled.                                     *)
AwaitUnlock(t) ==
  /\ At(t, "called")
  /\ Script[Top(t).fn].await
  /\ Unlock
  /\ Goto(t, "timer")
  /\ UNCHANGED <<calls, heapVars, poolVars, loopVars>>
-----------------------------------------------------------------------------
(* beforeLoad(): a new TimerTask takes the place of the old one, whose        *)
(* destructor joins its thread; first the timer looper, then the promise one. *)

NamesOf(k) == IF k = "timer" THEN TimerLoops ELSE PromiseLoops
Unused(k) == {l \in NamesOf(k) : lpc[l] = "none"}
JoinOf(k) == IF k = "timer" THEN "joinTimer" ELSE "joinPromise"

NewLooper(t, k) ==
  /\ At(t, k)
  /\ Unused(k) # {}
  /\ LET l == CHOOSE m \in Unused(k) : TRUE IN
     /\ lpc' = [lpc EXCEPT ![l] = "wait"]
     /\ looper' = [looper EXCEPT ![k] = l]
  /\ Move(t, [Top(t) EXCEPT !.pc = JoinOf(k), !.old = looper[k]])
  /\ UNCHANGED <<owner, depth, calls, heapVars, poolVars, job, timers, ended>>

AfterJoin(t, k) ==
  IF k = "timer" THEN "promise"
  ELSE IF Top(t).promise = NoPromise THEN "result" ELSE "await"

(* The mistake of stopping the looper that was just started. *)
JoinNewLooper(t, k) ==
  /\ At(t, JoinOf(k))
  /\ lpc[looper[k]] = "wait"
  /\ lpc' = [lpc EXCEPT ![looper[k]] = "none"]
  /\ Move(t, [Top(t) EXCEPT !.pc = AfterJoin(t, k), !.old = Nobody])
  /\ UNCHANGED <<owner, depth, calls, heapVars, poolVars, looper, job, timers, ended>>

JoinLooper(t, k) ==
  LET old == Top(t).old IN
  /\ At(t, JoinOf(k))
  /\ old # Nobody => lpc[old] = "wait"
  /\ lpc' = IF old = Nobody THEN lpc ELSE [lpc EXCEPT ![old] = "none"]
  /\ Move(t, [Top(t) EXCEPT !.pc = AfterJoin(t, k), !.old = Nobody])
  /\ UNCHANGED <<owner, depth, calls, heapVars, poolVars, looper, job, timers, ended>>

(* A looper that replaces itself: join() throws, and ~TimerTask is noexcept. *)
JoinSelf(t, k) ==
  /\ At(t, JoinOf(k))
  /\ Top(t).old = t
  /\ ended' = TRUE
  /\ UNCHANGED <<owner, depth, stack, calls, heapVars, poolVars, looper, lpc, job, timers>>
-----------------------------------------------------------------------------
(* jAwait(): the promise is polled under vmMutex, each time with a short    *)
(* try_lock_until(), until it is settled or the deadline has passed.        *)

Settled(p) == p \in Promises /\ promise[p] = "settled"

See(t) ==
  /\ At(t, "await")
  /\ CanLock(t)
  /\ Settled(Top(t).promise)
  /\ Goto(t, "result")
  /\ UNCHANGED <<owner, depth, calls, heapVars, poolVars, loopVars>>

(* The mistake of polling with no deadline. *)
DeadlineNever(t) ==
  /\ At(t, "await")
  /\ FALSE
  /\ UNCHANGED vars

Deadline(t) ==
  /\ At(t, "await")
  /\ ~(CanLock(t) /\ Settled(Top(t).promise))
  /\ Goto(t, "result")
  /\ UNCHANGED <<owner, depth, calls, heapVars, poolVars, loopVars>>

(* The awaited result is read and freed, with no lock of this call. *)
AwaitResult(t) ==
  /\ At(t, "result")
  /\ Return(t)
  /\ UNCHANGED <<owner, depth, calls, heapVars, poolVars, loopVars>>

CallStep(t) ==
  \/ Lock(t) \/ LockFails(t) \/ HostCall(t) \/ MakeNothing(t) \/ MakePromise(t)
  \/ Submit(t) \/ Failed(t) \/ Result(t) \/ AwaitUnlock(t)
  \/ \E k \in Kinds : NewLooper(t, k) \/ JoinLooper(t, k) \/ JoinSelf(t, k)
  \/ See(t) \/ Deadline(t) \/ AwaitResult(t)
-----------------------------------------------------------------------------
(* The task that newPromise() submits, run by Worker w. *)

Begin(w) ==
  /\ running[w] = NoPromise
  /\ queue[w] # <<>>
  /\ running' = [running EXCEPT ![w] = Head(queue[w])]
  /\ queue' = [queue EXCEPT ![w] = Tail(@)]
  /\ wpc' = [wpc EXCEPT ![w] = "try"]
  /\ wtries' = [wtries EXCEPT ![w] = 0]
  /\ UNCHANGED <<owner, depth, stack, calls, heapVars, turn, loopVars>>

WorkLock(w) ==
  /\ wpc[w] = "try"
  /\ CanLock(w)
  /\ LockBy(w)
  /\ wpc' = [wpc EXCEPT ![w] = "work"]
  /\ UNCHANGED <<stack, calls, heapVars, queue, running, wtries, turn, loopVars>>

Finish(w) ==
  /\ wpc' = [wpc EXCEPT ![w] = "idle"]
  /\ running' = [running EXCEPT ![w] = NoPromise]

(* The mistake of giving up without removing the handle. *)
GiveUpKeeping(w) ==
  /\ wpc[w] = "try"
  /\ ~CanLock(w)
  /\ IF wtries[w] + 1 < RetryCount
     THEN wtries' = [wtries EXCEPT ![w] = @ + 1] /\ UNCHANGED <<wpc, running, dropped>>
     ELSE Finish(w) /\ dropped' = dropped \cup {running[w]} /\ UNCHANGED wtries
  /\ UNCHANGED <<owner, depth, stack, calls, promise, madeBy, cache, queue, turn, loopVars>>

(* lockAutoRetry() fails; in the end the handle is removed and the promise *)
(* is left as it is, for good.                                             *)
WorkLockFails(w) ==
  /\ wpc[w] = "try"
  /\ ~CanLock(w)
  /\ IF wtries[w] + 1 < RetryCount
     THEN wtries' = [wtries EXCEPT ![w] = @ + 1] /\ UNCHANGED <<wpc, running, cache, dropped>>
     ELSE /\ Finish(w)
          /\ cache' = cache \ {running[w]}
          /\ dropped' = dropped \cup {running[w]}
          /\ UNCHANGED wtries
  /\ UNCHANGED <<owner, depth, stack, calls, promise, madeBy, queue, turn, loopVars>>

(* The mistake of removing the handle before the promise is looked up. *)
WorkRemovedFirst(w) ==
  /\ wpc[w] = "work"
  /\ cache' = cache \ {running[w]}
  /\ Finish(w)
  /\ Unlock
  /\ UNCHANGED <<stack, calls, promise, madeBy, dropped, queue, wtries, turn, loopVars>>

(* The callback has done its work: callbackJS() resolves the promise, its   *)
(* handle is removed and vmMutex is released.  A chained promise now has a  *)
(* job to run.                                                              *)
Work(w) ==
  LET p == running[w] IN
  /\ wpc[w] = "work"
  /\ promise' = [promise EXCEPT ![p] = IF Script[madeBy[p]].makes = "direct" THEN "settled" ELSE "ready"]
  /\ cache' = cache \ {p}
  /\ Finish(w)
  /\ Unlock
  /\ UNCHANGED <<stack, calls, madeBy, dropped, queue, wtries, turn, loopVars>>

WorkerStep(w) == Begin(w) \/ WorkLock(w) \/ WorkLockFails(w) \/ Work(w)
-----------------------------------------------------------------------------
(* The loopers: tryLockUntil(), one round of the QuickJS loop, unlock(). *)

LoopLock(l) ==
  /\ lpc[l] = "wait"
  /\ CanLock(l)
  /\ LockBy(l)
  /\ lpc' = [lpc EXCEPT ![l] = "round"]
  /\ UNCHANGED <<stack, calls, heapVars, poolVars, looper, job, timers, ended>>

(* A looper in a round, with no JS to run at the moment. *)
InRound(l) == lpc[l] = "round" /\ job[l] = NoPromise /\ stack[l] = <<>>

(* A callback of os.setTimeout() begins.  A round of js_std_loop_timer() runs *)
(* those whose time has come, which may be none or all of them.               *)
TimerBegin(l) ==
  /\ l \in TimerLoops /\ InRound(l)
  /\ \E f \in Fns :
       /\ timers[f] > 0
       /\ timers' = [timers EXCEPT ![f] = @ - 1]
       /\ Enter(l, f)
  /\ UNCHANGED <<owner, depth, calls, heapVars, poolVars, looper, lpc, job, ended>>

(* A promise job begins: the continuation of a chained promise.  A round of  *)
(* js_std_loop_promise() runs jobs until there is none.                      *)
JobBegin(l) ==
  /\ l \in PromiseLoops /\ InRound(l)
  /\ \E p \in Promises :
       /\ promise[p] = "ready"
       /\ \A m \in Loops : job[m] # p
       /\ job' = [job EXCEPT ![l] = p]
       /\ IF Script[madeBy[p]].then = NoFn THEN UNCHANGED stack ELSE Enter(l, Script[madeBy[p]].then)
  /\ UNCHANGED <<owner, depth, calls, heapVars, poolVars, looper, lpc, timers, ended>>

JobEnd(l) ==
  /\ job[l] # NoPromise
  /\ stack[l] = <<>>
  /\ promise' = [promise EXCEPT ![job[l]] = "settled"]
  /\ job' = [job EXCEPT ![l] = NoPromise]
  /\ UNCHANGED <<owner, depth, stack, calls, madeBy, cache, dropped, poolVars, looper, lpc, timers, ended>>

LoopUnlock(l) ==
  /\ InRound(l)
  /\ l \in PromiseLoops => \A p \in Promises : promise[p] # "ready"
  /\ Unlock
  /\ lpc' = [lpc EXCEPT ![l] = "wait"]
  /\ UNCHANGED <<stack, calls, heapVars, poolVars, looper, job, timers, ended>>

LoopStep(l) == TimerBegin(l) \/ JobBegin(l) \/ JobEnd(l) \/ LoopUnlock(l)

Next ==
  /\ ~ended
  /\ \/ \E c \in Callers, f \in Fns : Call(c, f)
     \/ \E t \in Threads : CallStep(t)
     \/ \E w \in Workers : WorkerStep(w)
     \/ \E l \in Loops : LoopLock(l) \/ LoopStep(l)

Spec == Init /\ [][Next]_vars

(***************************************************************************)
(* Every thread goes on, JS functions, native work, promise jobs and       *)
(* callbacks end, and who waits for something that comes about over and    *)
(* over (a Worker that runs no task, a looper between two rounds, for a    *)
(* looper also the free mutex) gets it: strong fairness for each thread.   *)
(* A call and its retries need no fairness of the mutex: a failed          *)
(* try_lock() is a step.                                                   *)
(***************************************************************************)
Fairness ==
  /\ \A c \in Callers : SF_vars(~ended /\ CallStep(c))
  /\ \A w \in Workers : WF_vars(~ended /\ WorkerStep(w))
  /\ \A l \in Loops : SF_vars(~ended /\ (CallStep(l) \/ LoopLock(l) \/ LoopStep(l)))

FairSpec == Spec /\ Fairness
-----------------------------------------------------------------------------
Frames ==
  [pc : {"try", "js", "hosted", "submit", "called", "failed", "timer", "joinTimer",
         "promise", "joinPromise", "await", "result"},
   fn : Fns, tries : 0 .. RetryCount - 1,
   promise : Promises \cup {NoPromise, NeverSettles}, old : Loops \cup {Nobody}]

TypeOK ==
  /\ owner \in Threads \cup Workers \cup {Nobody} /\ depth \in Nat
  /\ stack \in [Threads -> Seq(Frames)]
  /\ calls \in 0 .. MaxCalls
  /\ promise \in [Promises -> {"unborn", "pending", "ready", "settled"}]
  /\ madeBy \in [Promises -> Fns \cup {NoFn}]
  /\ cache \in SUBSET Promises /\ dropped \in SUBSET Promises
  /\ queue \in [Workers -> Seq(Promises)]
  /\ running \in [Workers -> Promises \cup {NoPromise}]
  /\ wpc \in [Workers -> {"idle", "try", "work"}]
  /\ wtries \in [Workers -> 0 .. RetryCount - 1]
  /\ turn \in Workers
  /\ looper \in [Kinds -> Loops \cup {Nobody}]
  /\ lpc \in [Loops -> {"none", "wait", "round"}]
  /\ job \in [Loops -> Promises \cup {NoPromise}]
  /\ timers \in [Fns -> Nat]
  /\ ended \in BOOLEAN

HoldingPcs == {"js", "hosted", "submit", "called", "failed"}

(* How many levels of vmMutex thread t is inside of, by its position. *)
Levels(t) ==
  IF t \in Workers THEN (IF wpc[t] = "work" THEN 1 ELSE 0)
  ELSE Cardinality({i \in DOMAIN stack[t] : stack[t][i].pc \in HoldingPcs})
       + (IF t \in Loops /\ lpc[t] = "round" THEN 1 ELSE 0)

(***************************************************************************)
(* Every path of callFunc(), newPromise(), its task and the loopers gives  *)
(* back exactly the levels of vmMutex it took, through nested calls, the   *)
(* release in the middle of an awaited call, errors and given-up retries:  *)
(* a thread owns the mutex just when it is inside, as deep as it is        *)
(* inside, so two threads are never inside the JS context together.        *)
(***************************************************************************)
LockAccounting ==
  \A t \in Threads \cup Workers : Levels(t) = (IF owner = t THEN depth ELSE 0)

Places(p) ==
  {<<"queue", w, i>> : w \in {v \in Workers : \E j \in DOMAIN queue[v] : queue[v][j] = p}, i \in {0}}
  \cup {<<"run", w, 0>> : w \in {v \in Workers : running[v] = p}}
  \cup {<<"submit", t, 0>> : t \in {u \in Threads : At(u, "submit") /\ Top(u).promise = p}}

(* A handle is in promiseCache exactly as long as one task, and one only,  *)
(* will still use it: no handle leaks, and no task finds its handle gone.  *)
HandleAccounting ==
  \A p \in Promises : Cardinality(Places(p)) = (IF p \in cache THEN 1 ELSE 0)

(* A promise is never forgotten silently: one that is not resolved has its  *)
(* work ahead of it, unless a Worker could not get vmMutex in RetryCount    *)
(* attempts and dropped it; and dropped promises are never resolved.        *)
PendingExplained ==
  \A p \in Promises :
    /\ promise[p] = "pending" => p \in cache \cup dropped
    /\ p \in dropped => promise[p] = "pending"

(* An awaited call inside another call, on the same thread, keeps the outer *)
(* level of vmMutex while it polls: the promise it made itself cannot be    *)
(* settled meanwhile, so such a call always waits for the whole deadline.   *)
NestedAwaitStarves ==
  \A t \in Threads :
    At(t, "await") /\ Levels(t) > 0 /\ Top(t).promise \in Promises =>
      promise[Top(t).promise] = "pending"

(* A call returns, whatever becomes of the promise it awaits: at the latest *)
(* at the internal deadline.  Only a call that is awaited in a promise job  *)
(* or in a callback of os.setTimeout() does not, nor does any other then:   *)
(* it replaces the looper whose round it runs in, and the join of itself    *)
(* ends the process (JSVM.cxx:330-352, :427-484).                           *)
EndedByItself ==
  ended /\ \E k \in Kinds : \E l \in NamesOf(k) :
             /\ lpc[l] = "round" /\ (k = "promise" => job[l] # NoPromise)
             /\ At(l, JoinOf(k)) /\ Top(l).old = l /\ Script[Top(l).fn].await
CallsReturn == \A t \in Threads : stack[t] # <<>> ~> stack[t] = <<>> \/ EndedByItself

(* A resolved promise that has a continuation gets settled while there is a *)
(* promise looper; without one (no call was awaited yet) it waits.  A job   *)
(* or a callback that ends the process ends that too.                       *)
ReadySettles ==
  \A p \in Promises :
    [](promise[p] = "ready" =>
         <>(promise[p] = "settled" \/ EndedByItself \/ [](looper["promise"] = Nobody)))
=============================================================================
