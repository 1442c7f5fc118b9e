----------------------------- MODULE VMLifetime -----------------------------
(***************************************************************************)
(* Who keeps the JavaScript VM alive, and who destroys it                  *)
(* (src/bridge/JSBridge.cxx, src/core/vm/JSVM.cxx, BaseVM.cxx).            *)
(*                                                                         *)
(* The bridge holds one strong reference, under its own vmMutex; every     *)
(* call works on a snapshot, which is another; a looper takes one for each *)
(* of its rounds and a Worker one for each of its tasks, from the weak     *)
(* reference they were given.  Whoever drops the last one runs ~JSVM and   *)
(* ~BaseVM on its own thread: they join the loopers, free the context and  *)
(* join the Workers.                                                       *)
(*                                                                         *)
(* What a call or a round does inside the VM is module JSVM.  Here its JS  *)
(* may call functions of the bridge that take its mutex: one that calls    *)
(* the host, and the asynchronous ones, which hand their work to the VM    *)
(* that the bridge holds at that moment.  A call that is awaited starts    *)
(* the loopers.                                                            *)
(***************************************************************************)
EXTENDS Integers, Sequences, FiniteSets

CONSTANTS
  Callers,   (* native threads                                              *)
  Workers,   (* names for the Workers of a pool                             *)
  Tasks,     (* the work of promises, each handed over once                 *)
  MaxVMs,    (* bound: VMs that are ever made                               *)
  Bridge,    (* the bridge, as the holder of a reference                    *)
  None       (* no VM, no task, no thread                                   *)

VMs == 1 .. MaxVMs
Kinds == {"timer", "promise"}
Looper(v, k) == <<"looper", v, k>>
Worker(v, w) == <<"worker", v, w>>
Loopers == {Looper(v, k) : v \in VMs, k \in Kinds}
PoolThreads == {Worker(v, w) : v \in VMs, w \in Workers}
Threads == Callers \cup Loopers \cup PoolThreads
Users == Callers \cup Loopers     (* those that run JS *)
Async(x) == <<"async", x>>        (* x, as the holder of a second reference *)
Asyncs == {Async(x) : x \in Users}

ASSUME VMLifetimeAssumption ==
  /\ MaxVMs \in Nat
  /\ IsFiniteSet(Workers)
  /\ None \notin Tasks /\ None \notin Threads /\ None \notin VMs
  /\ Bridge \notin Threads
  /\ Callers \cap (Loopers \cup PoolThreads) = {}
  /\ Asyncs \cap (Callers \cup {Bridge}) = {}

VARIABLES
  vm,         (* JSBridge.cxx: vm                                           *)
  bmtx,       (* JSBridge.cxx: who holds vmMutex                            *)
  refs,       (* who holds strong references to each VM                     *)
  life,       (* "unborn", "alive", "dying" or "dead"                       *)
  destroyer,  (* the thread that runs the destructors of each VM            *)
  pc,         (* where each caller is                                       *)
  inside,     (* the VM of its snapshot                                     *)
  started,    (* the loopers of each VM whose threads exist                 *)
  round,      (* the loopers that are in a round                            *)
  waits,      (* those whose JS waits for vmMutex                           *)
  borrowed,   (* the VM of getVmSnapshot(), while work is handed to it      *)
  pool,       (* the Workers of each VM whose threads exist                 *)
  queue,      (* the tasks that wait at each Worker of each VM              *)
  running,    (* the task it runs                                           *)
  handed,     (* history: the tasks that were handed over                   *)
  cache,      (* promiseCache: the tasks whose handle is in it              *)
  dropped,    (* history: the tasks that were destroyed with their queue    *)
  ended       (* std::terminate() has ended the process                     *)

callVars == <<pc, inside>>
loopVars == <<started, round>>
jsVars == <<waits, borrowed>>
poolVars == <<pool, queue, running, handed, cache, dropped>>
refVars == <<refs, life, destroyer>>
vars == <<vm, bmtx, refVars, callVars, loopVars, jsVars, poolVars, ended>>

Init ==
  /\ vm = None
  /\ bmtx = None
  /\ refs = [v \in VMs |-> {}]
  /\ life = [v \in VMs |-> "unborn"]
  /\ destroyer = [v \in VMs |-> None]
  /\ pc = [c \in Callers |-> "idle"]
  /\ inside = [c \in Callers |-> None]
  /\ started = {} /\ round = {}
  /\ pool = {}
  /\ queue = [p \in PoolThreads |-> <<>>]
  /\ running = [p \in PoolThreads |-> None]
  /\ waits = {} /\ borrowed = [x \in Users |-> None]
  /\ handed = {} /\ cache = {} /\ dropped = {}
  /\ ended = FALSE
-----------------------------------------------------------------------------
(* Holder x of a strong reference to v lets go of it, on thread t.  The last *)
(* one to do so begins the destruction.                                      *)
LetGo(v, x, t) ==
  /\ refs' = [refs EXCEPT ![v] = @ \ {x}]
  /\ IF refs[v] = {x}
     THEN life' = [life EXCEPT ![v] = "dying"] /\ destroyer' = [destroyer EXCEPT ![v] = t]
     ELSE UNCHANGED <<life, destroyer>>

Destroys(t) == \E v \in VMs : life[v] = "dying" /\ destroyer[v] = t

(* ensureVm() with a VM there: the call works on a snapshot of it. *)
Snapshot(c) ==
  /\ pc[c] = "idle" /\ bmtx = None
  /\ vm # None
  /\ refs' = [refs EXCEPT ![vm] = @ \cup {c}]
  /\ inside' = [inside EXCEPT ![c] = vm]
  /\ pc' = [pc EXCEPT ![c] = "call"]
  /\ UNCHANGED <<vm, bmtx, life, destroyer, loopVars, jsVars, poolVars, ended>>

(* ensureVm() with none: it makes one, also after a release. *)
Make(c) ==
  /\ pc[c] = "idle" /\ bmtx = None
  /\ vm = None
  /\ \E v \in VMs :
       /\ life[v] = "unborn" /\ \A u \in VMs : u < v => life[u] # "unborn"
       /\ vm' = v
       /\ life' = [life EXCEPT ![v] = "alive"]
       /\ refs' = [refs EXCEPT ![v] = {Bridge, c}]
       /\ inside' = [inside EXCEPT ![c] = v]
  /\ pc' = [pc EXCEPT ![c] = "call"]
  /\ UNCHANGED <<bmtx, destroyer, loopVars, jsVars, poolVars, ended>>

Home(x) == IF x \in Callers THEN inside[x] ELSE x[2]
Bridged(x) == x \in waits \/ borrowed[x] # None

(* A thread in a call or a round, outside the functions of the bridge. *)
Inside(x) ==
  /\ x \in round \/ (x \in Callers /\ pc[x] = "call")
  /\ ~Bridged(x) /\ ~Destroys(x)

(* It has the mutex of its VM and runs JS (JSVM!OneInside: nobody else does). *)
InJS(x) == Inside(x) /\ \A y \in Users : Home(y) = Home(x) => ~Bridged(y)

(* A function of the bridge is called that takes vmMutex, and it is held. *)
Ask(x) ==
  /\ InJS(x) /\ bmtx # None
  /\ waits' = waits \cup {x}
  /\ UNCHANGED <<vm, bmtx, refVars, callVars, loopVars, borrowed, poolVars, ended>>

(* It is free: dynxx_call_platformS() goes on, or an asynchronous function *)
(* that finds no VM.                                                      *)
Pass(x) ==
  /\ x \in waits /\ bmtx = None
  /\ waits' = waits \ {x}
  /\ UNCHANGED <<vm, bmtx, refVars, callVars, loopVars, borrowed, poolVars, ended>>

(* An asynchronous function: getVmSnapshot(), also of another VM. *)
Borrow(x) ==
  /\ x \in waits \/ InJS(x)
  /\ bmtx = None /\ vm # None
  /\ waits' = waits \ {x}
  /\ borrowed' = [borrowed EXCEPT ![x] = vm]
  /\ refs' = [refs EXCEPT ![vm] = @ \cup {Async(x)}]
  /\ UNCHANGED <<vm, bmtx, life, destroyer, callVars, loopVars, poolVars, ended>>

(* newPromise(): the work goes to a Worker that runs none. *)
HandOver(v) ==
  \E t \in Tasks \ handed, w \in Workers :
    LET p == Worker(v, w) IN
    /\ running[p] = None
    /\ queue' = [queue EXCEPT ![p] = Append(@, t)]
    /\ pool' = pool \cup {p}
    /\ handed' = handed \cup {t}
    /\ cache' = cache \cup {t}
    /\ UNCHANGED <<running, dropped>>

(* It does so, or gives up on the mutex of the VM; the snapshot ends. *)
Submit(x) ==
  /\ borrowed[x] # None
  /\ HandOver(borrowed[x]) \/ UNCHANGED poolVars
  /\ LetGo(borrowed[x], Async(x), x)
  /\ borrowed' = [borrowed EXCEPT ![x] = None]
  /\ UNCHANGED <<vm, bmtx, callVars, loopVars, waits, ended>>

(* The call is awaited: beforeLoad() starts the loopers. *)
StartLoopers(c) ==
  /\ InJS(c)
  /\ started' = started \cup {Looper(inside[c], k) : k \in Kinds}
  /\ UNCHANGED <<vm, bmtx, refVars, callVars, round, jsVars, poolVars, ended>>

(* The call ends and so does its snapshot. *)
CallEnd(c) ==
  /\ Inside(c)
  /\ LetGo(inside[c], c, c)
  /\ pc' = [pc EXCEPT ![c] = "idle"]
  /\ inside' = [inside EXCEPT ![c] = None]
  /\ UNCHANGED <<vm, bmtx, loopVars, jsVars, poolVars, ended>>

(* dynxx_js_release(): the mutex of the bridge is held while vm.reset() runs. *)
Release(c) ==
  /\ pc[c] = "idle" /\ ~Destroys(c) /\ bmtx = None
  /\ vm # None
  /\ bmtx' = c
  /\ LetGo(vm, Bridge, c)
  /\ vm' = None
  /\ pc' = [pc EXCEPT ![c] = "release"]
  /\ UNCHANGED <<inside, loopVars, jsVars, poolVars, ended>>

ReleaseEnd(c) ==
  /\ pc[c] = "release" /\ ~Destroys(c)
  /\ bmtx' = None
  /\ pc' = [pc EXCEPT ![c] = "idle"]
  /\ UNCHANGED <<vm, refVars, inside, loopVars, jsVars, poolVars, ended>>
-----------------------------------------------------------------------------
(* The mistake of a looper that captures `this` and no weak reference. *)
RoundBeginRaw(v, k) ==
  /\ Looper(v, k) \in started \ round
  /\ round' = round \cup {Looper(v, k)}
  /\ UNCHANGED <<vm, bmtx, refVars, callVars, started, jsVars, poolVars, ended>>

(* A looper begins a round: weakSelf.lock() succeeds.  When it fails the *)
(* round is over at once.                                                *)
RoundBegin(v, k) ==
  /\ Looper(v, k) \in started \ round
  /\ refs[v] # {}
  /\ refs' = [refs EXCEPT ![v] = @ \cup {Looper(v, k)}]
  /\ round' = round \cup {Looper(v, k)}
  /\ UNCHANGED <<vm, bmtx, life, destroyer, callVars, started, jsVars, poolVars, ended>>

RoundEnd(v, k) ==
  /\ Looper(v, k) \in round /\ Inside(Looper(v, k))
  /\ LetGo(v, Looper(v, k), Looper(v, k))
  /\ round' = round \ {Looper(v, k)}
  /\ UNCHANGED <<vm, bmtx, callVars, started, jsVars, poolVars, ended>>
-----------------------------------------------------------------------------
Busy(p) == running[p] # None \/ Destroys(p)

(* A Worker begins a task while the VM lives, and keeps it alive. *)
TaskBegin(v, w) ==
  LET p == Worker(v, w) IN
  /\ p \in pool /\ ~Busy(p)
  /\ queue[p] # <<>>
  /\ refs[v] # {}
  /\ refs' = [refs EXCEPT ![v] = @ \cup {p}]
  /\ running' = [running EXCEPT ![p] = Head(queue[p])]
  /\ queue' = [queue EXCEPT ![p] = Tail(@)]
  /\ UNCHANGED <<vm, bmtx, life, destroyer, callVars, loopVars, jsVars, pool, handed, cache, dropped, ended>>

(* The mistake of returning with the handle still there. *)
TaskLateKeeps(v, w) ==
  LET p == Worker(v, w) IN
  /\ p \in pool /\ ~Busy(p)
  /\ queue[p] # <<>>
  /\ refs[v] = {}
  /\ queue' = [queue EXCEPT ![p] = Tail(@)]
  /\ UNCHANGED <<vm, bmtx, refVars, callVars, loopVars, jsVars, pool, running, handed, cache, dropped, ended>>

(* A task that begins when the VM is gone: its handle is removed, no more. *)
TaskLate(v, w) ==
  LET p == Worker(v, w) IN
  /\ p \in pool /\ ~Busy(p)
  /\ queue[p] # <<>>
  /\ refs[v] = {}
  /\ queue' = [queue EXCEPT ![p] = Tail(@)]
  /\ cache' = cache \ {Head(queue[p])}
  /\ UNCHANGED <<vm, bmtx, refVars, callVars, loopVars, jsVars, pool, running, handed, dropped, ended>>

(* The promise is resolved, the handle removed, and the reference let go. *)
TaskEnd(v, w) ==
  LET p == Worker(v, w) IN
  /\ running[p] # None
  /\ cache' = cache \ {running[p]}
  /\ running' = [running EXCEPT ![p] = None]
  /\ LetGo(v, p, p)
  /\ UNCHANGED <<vm, bmtx, callVars, loopVars, jsVars, pool, queue, handed, dropped, ended>>
-----------------------------------------------------------------------------
(* ~JSVM and ~BaseVM of v, on the thread destroyer[v]. *)

Joinable(v, k) == life[v] = "dying" /\ Looper(v, k) \in started

(* The looper is joined; it is between two rounds. *)
JoinLooper(v, k) ==
  /\ Joinable(v, k)
  /\ k = "promise" => Looper(v, "timer") \notin started
  /\ destroyer[v] # Looper(v, k)
  /\ Looper(v, k) \notin round
  /\ started' = started \ {Looper(v, k)}
  /\ UNCHANGED <<vm, bmtx, refVars, callVars, round, jsVars, poolVars, ended>>

NoLoopers(v) == \A k \in Kinds : Looper(v, k) \notin started

(* A Worker is joined between two tasks; the tasks that wait are dropped, *)
(* and nobody removes their handles.                                      *)
JoinWorker(v, w) ==
  LET p == Worker(v, w) IN
  /\ life[v] = "dying" /\ NoLoopers(v)
  /\ p \in pool /\ destroyer[v] # p
  /\ running[p] = None
  /\ pool' = pool \ {p}
  /\ dropped' = dropped \cup {queue[p][i] : i \in DOMAIN queue[p]}
  /\ queue' = [queue EXCEPT ![p] = <<>>]
  /\ UNCHANGED <<vm, bmtx, refVars, callVars, loopVars, jsVars, running, handed, cache, ended>>

(* The destroying thread is to join itself.  With std::jthread join() throws *)
(* and the destructor lets nothing through: the process ends.  (The other    *)
(* build would wait for the Daemon::mutex it holds itself.)                  *)
JoinItself(v) ==
  /\ life[v] = "dying"
  /\ \/ \E k \in Kinds :
          /\ destroyer[v] = Looper(v, k) /\ Joinable(v, k)
          /\ k = "promise" => Looper(v, "timer") \notin started
     \/ NoLoopers(v) /\ destroyer[v] \in pool
  /\ ended' = TRUE
  /\ UNCHANGED <<vm, bmtx, refVars, callVars, loopVars, jsVars, poolVars>>

Destroyed(v) ==
  /\ life[v] = "dying" /\ NoLoopers(v)
  /\ \A w \in Workers : Worker(v, w) \notin pool
  /\ life' = [life EXCEPT ![v] = "dead"]
  /\ UNCHANGED <<vm, bmtx, refs, destroyer, callVars, loopVars, jsVars, poolVars, ended>>

CallStep(c) == CallEnd(c) \/ ReleaseEnd(c)
BridgeStep(x) == Pass(x) \/ Submit(x)
LoopStep(v) == \E k \in Kinds : RoundEnd(v, k)
TaskStep(v, w) == TaskBegin(v, w) \/ TaskLate(v, w) \/ TaskEnd(v, w)
DestroyStep(v) ==
  \/ \E k \in Kinds : JoinLooper(v, k)
  \/ \E w \in Workers : JoinWorker(v, w)
  \/ JoinItself(v) \/ Destroyed(v)

Next ==
  /\ ~ended
  /\ \/ \E c \in Callers :
          \/ ~Destroys(c) /\ (Snapshot(c) \/ Make(c))
          \/ StartLoopers(c) \/ Release(c) \/ CallStep(c)
     \/ \E x \in Users : Ask(x) \/ Borrow(x) \/ BridgeStep(x)
     \/ \E v \in VMs, k \in Kinds : ~Destroys(Looper(v, k)) /\ RoundBegin(v, k)
     \/ \E v \in VMs : LoopStep(v) \/ DestroyStep(v)
     \/ \E v \in VMs, w \in Workers : TaskStep(v, w)

Spec == Init /\ [][Next]_vars

(***************************************************************************)
(* Tasks end, destructors go on, and whoever waits for the mutex of the    *)
(* bridge gets it once it stays free (WF: there are few releases here, at  *)
(* most one for each VM); JS that calls the bridge again and again still   *)
(* ends (SF).  Nobody has to call or to release.                           *)
(***************************************************************************)
Fairness ==
  /\ \A c \in Callers : SF_vars(~ended /\ CallStep(c))
  /\ \A x \in Users : WF_vars(~ended /\ BridgeStep(x))
  /\ \A v \in VMs :
       /\ SF_vars(~ended /\ LoopStep(v))
       /\ WF_vars(~ended /\ DestroyStep(v))
       /\ \A w \in Workers : WF_vars(~ended /\ TaskStep(v, w))

FairSpec == Spec /\ Fairness
-----------------------------------------------------------------------------
TypeOK ==
  /\ vm \in VMs \cup {None} /\ bmtx \in Callers \cup {None}
  /\ refs \in [VMs -> SUBSET (Threads \cup Asyncs \cup {Bridge})]
  /\ life \in [VMs -> {"unborn", "alive", "dying", "dead"}]
  /\ destroyer \in [VMs -> Threads \cup {None}]
  /\ pc \in [Callers -> {"idle", "call", "release"}]
  /\ inside \in [Callers -> VMs \cup {None}]
  /\ started \in SUBSET Loopers /\ round \in SUBSET started
  /\ waits \in SUBSET Users /\ borrowed \in [Users -> VMs \cup {None}]
  /\ pool \in SUBSET PoolThreads
  /\ queue \in [PoolThreads -> Seq(Tasks)]
  /\ running \in [PoolThreads -> Tasks \cup {None}]
  /\ handed \in SUBSET Tasks
  /\ cache \in SUBSET handed /\ dropped \in SUBSET handed
  /\ ended \in BOOLEAN

(***************************************************************************)
(* No thread is inside a VM whose destruction has begun: no call on a      *)
(* snapshot, no round of a looper, no task and no JS of another VM that    *)
(* hands work to it, whoever releases when; and a VM that nobody is inside *)
(* of is destroyed once the bridge has let go.                             *)
(***************************************************************************)
UsersOf(v) ==
  {c \in Callers : inside[c] = v} \cup {l \in round : l[2] = v}
    \cup {x \in Users : borrowed[x] = v}
    \cup {p \in PoolThreads : p[2] = v /\ running[p] # None}

UsedWhileAlive ==
  \A v \in VMs : life[v] = "alive" <=> UsersOf(v) # {} \/ vm = v

(* promiseCache, which outlives every VM, holds the handles of the tasks    *)
(* that wait or run, and for good those of tasks that were dropped with the *)
(* queue of a destroyed Worker: no other path leaks one.                    *)
Waiting == UNION {{queue[p][i] : i \in DOMAIN queue[p]} : p \in PoolThreads}
HandlesExplained ==
  cache = Waiting \cup ({running[p] : p \in PoolThreads} \ {None}) \cup dropped

(* dynxx_js_release() returns, although it joins loopers and Workers with  *)
(* the mutex of the bridge held, and rounds and calls wait for that mutex; *)
(* unless a thread that was to be joined runs the destructor itself.       *)
ReleaseReturns == \A c \in Callers : pc[c] = "release" ~> pc[c] = "idle" \/ ended

(* Releasing the engine is an ordinary call that leaves the process alive.  *)
ReleaseSurvives == ~ended
=============================================================================
