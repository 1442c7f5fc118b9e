----------------------------- MODULE LuaTimers -----------------------------
(***************************************************************************)
(* The Lua VM (src/core/vm/LuaVM.cxx) behind its bridge                    *)
(* (src/bridge/LuaBridge.cxx): native threads load scripts and call Lua    *)
(* functions, Lua functions add and clear timers, and the one Worker of    *)
(* timerExecutor runs the libuv loop in which the timers fire.             *)
(*                                                                         *)
(* `timers`, `timerExecutor` and the default loop are globals: two VMs     *)
(* that overlap (one released while a call is still inside it, one made    *)
(* afterwards) share them.  A task is handed to the Worker once it runs    *)
(* none, as in module Executor: operator>> needs the mutex that the Worker *)
(* holds while a task runs, and the task of a timer runs the whole loop.   *)
(*                                                                         *)
(* Timer.remove does nothing here: Timer.add returns LUA_OK, which is 0,   *)
(* so Lua is given no result, and the handle a script has to remove a      *)
(* timer by is nil.                                                        *)
(*                                                                         *)
(* Left out as undefined: a VM made while a Worker is in the loop (its     *)
(* uv_loop_init() rewrites the loop in use) or while a task is submitted.  *)
(***************************************************************************)
EXTENDS Integers, Sequences, FiniteSets

CONSTANTS
  Callers,     (* native threads                                 *)
  Loaders,     (* those that load scripts; the others call       *)
  Timers,      (* the timers Lua can add                         *)
  Repeats,     (* those it adds with `repeat`                    *)
  MaxVMs,      (* bound: VMs made                                *)
  MaxCalls,    (* bound: loads and calls made                    *)
  RetryCount,  (* LuaCallRetryCount                              *)
  Nobody,      (* no thread                                      *)
  NoTimer      (* no timer                                       *)

VMs == 1 .. MaxVMs
None == 0      (* no VM; a VM and the Executor it makes have one number *)

ASSUME LuaAssumption ==
  /\ MaxVMs \in Nat \ {0} /\ MaxCalls \in Nat /\ RetryCount \in Nat \ {0}
  /\ Nobody \notin Callers /\ Loaders \subseteq Callers /\ NoTimer \notin Timers /\ Repeats \subseteq Timers

VARIABLES
  bridge,      (* the VM LuaBridge holds                                    *)
  bridgeOwner, (* who destroys a VM with the mutex of LuaBridge             *)
  made,        (* how many VMs were made                                    *)
  calls,       (* how many loads and calls were made                        *)
  vm,          (* the VM each caller has a reference to                     *)
  owner,       (* who holds the vmMutex of each VM                          *)
  pc,          (* where each caller is                                      *)
  tries,       (* its failed attempts to lock vmMutex                       *)
  adding,      (* the timer it adds                                         *)
  worker,      (* the Worker it submits to or joins                         *)
  executor,    (* timerExecutor                                             *)
  stopping,    (* the Workers whose stop was requested                      *)
  queue,       (* the task queue of each Worker: timers                     *)
  wpc,         (* where each Worker is                                      *)
  now,         (* the timer whose callback it is about to run or runs       *)
  born,        (* the VM whose function added each timer, or None           *)
  registered,  (* `timers`                                                  *)
  armed,       (* timers active in the loop                                 *)
  stopFlag,    (* uv_stop() was called                                      *)
  freed,       (* timers whose LuaTimer and handle were freed               *)
  lost,        (* history: timers added while there was no timerExecutor    *)
  exposed,     (* history: freed with a task or a callback still to come    *)
  touched,     (* history: used after that by their own task or callback    *)
  first, last, (* the ends of the loop's list of initialised timers         *)
  atEnd,       (* history: freed at an end of that list                     *)
  written,     (* history: freed timers libuv went through in that list     *)
  met,         (* history: VMs in which a native thread that cleared timers *)
               (* met another native thread                                 *)
  crossed      (* history: a VM was made while another was still alive      *)

vmVars == <<bridge, bridgeOwner, made, calls, vm, owner, crossed>>
callVars == <<pc, tries, adding, worker>>
workVars == <<stopping, queue, wpc, now>>
linkVars == <<first, last, atEnd, written>>
timerVars == <<born, registered, armed, stopFlag, freed, lost, exposed, touched, linkVars, met>>
vars == <<vmVars, callVars, executor, workVars, timerVars>>

Init ==
  /\ bridge = None /\ bridgeOwner = Nobody /\ made = 0 /\ calls = 0 /\ crossed = FALSE
  /\ vm = [c \in Callers |-> None]
  /\ owner = [v \in VMs |-> Nobody]
  /\ pc = [c \in Callers |-> "idle"]
  /\ tries = [c \in Callers |-> 0]
  /\ adding = [c \in Callers |-> NoTimer]
  /\ worker = [c \in Callers |-> None]
  /\ executor = None /\ stopping = {}
  /\ queue = [w \in VMs |-> <<>>]
  /\ wpc = [w \in VMs |-> "none"]
  /\ now = [w \in VMs |-> NoTimer]
  /\ born = [t \in Timers |-> None]
  /\ registered = {} /\ armed = {} /\ stopFlag = FALSE
  /\ freed = {} /\ lost = {} /\ exposed = {} /\ touched = {}
  /\ first = NoTimer /\ last = NoTimer /\ atEnd = {} /\ written = {} /\ met = {}
-----------------------------------------------------------------------------
(* The bridge: ensureVm(), and the shared_ptr that decides who destroys.    *)

Alive(v) == bridge = v \/ \E c \in Callers : vm[c] = v

(* The mistake of an Executor made only once. *)
MakeVMOnce(v) ==
  /\ \A w \in VMs : wpc[w] \in {"none", "idle"}
  /\ \A c \in Callers : pc[c] # "submit"
  /\ bridge' = v /\ made' = v
  /\ crossed' = (crossed \/ \E u \in VMs : Alive(u))
  /\ executor' = IF v = 1 THEN 1 ELSE executor
  /\ wpc' = [wpc EXCEPT ![1] = IF v = 1 THEN "idle" ELSE @]
  /\ armed' = {} /\ stopFlag' = FALSE /\ first' = NoTimer /\ last' = NoTimer
  /\ UNCHANGED queue

(* LuaVM(): the loop is initialised, and the assignment of a new Executor   *)
(* destroys the one another VM has left, with its queue.                    *)
MakeVM(v) ==
  /\ \A w \in VMs : wpc[w] \in {"none", "idle"}
  /\ \A c \in Callers : pc[c] # "submit"
  /\ bridge' = v /\ made' = v
  /\ crossed' = (crossed \/ \E u \in VMs : Alive(u))
  /\ executor' = v
  /\ wpc' = [w \in VMs |-> IF w = v THEN "idle" ELSE IF w = executor THEN "none" ELSE wpc[w]]
  /\ queue' = [w \in VMs |-> IF w = executor THEN <<>> ELSE queue[w]]
  /\ armed' = {} /\ stopFlag' = FALSE /\ first' = NoTimer /\ last' = NoTimer

(* A load or a call enters. *)
Enter(c) ==
  /\ pc[c] = "idle"
  /\ calls < MaxCalls
  /\ bridgeOwner = Nobody
  /\ \/ /\ bridge # None
        /\ UNCHANGED <<bridge, made, crossed, executor, wpc, queue, armed, stopFlag, first, last>>
     \/ /\ bridge = None /\ made < MaxVMs
        /\ MakeVM(made + 1)
  /\ vm' = [vm EXCEPT ![c] = bridge']
  /\ pc' = [pc EXCEPT ![c] = "lock"]
  /\ tries' = [tries EXCEPT ![c] = 0]
  /\ calls' = calls + 1
  /\ UNCHANGED <<bridgeOwner, owner, adding, worker, stopping, now, born,
                 registered, freed, lost, exposed, touched, atEnd, written, met>>

(* dynxx_lua_release(): destroys the VM itself if no call is inside. *)
Release(c) ==
  /\ pc[c] = "idle" /\ bridgeOwner = Nobody /\ bridge # None
  /\ bridge' = None
  /\ IF \A d \in Callers : vm[d] # bridge
     THEN /\ vm' = [vm EXCEPT ![c] = bridge]
          /\ pc' = [pc EXCEPT ![c] = "clear"]
          /\ bridgeOwner' = c
     ELSE UNCHANGED <<vm, pc, bridgeOwner>>
  /\ UNCHANGED <<made, calls, owner, crossed, tries, adding, worker, executor, workVars, timerVars>>

(* localVm goes out of scope: the last reference destroys. *)
Leave(c) ==
  /\ pc[c] = "leave"
  /\ IF bridge = vm[c] \/ \E d \in Callers \ {c} : vm[d] = vm[c]
     THEN /\ pc' = [pc EXCEPT ![c] = "idle"]
          /\ vm' = [vm EXCEPT ![c] = None]
     ELSE /\ pc' = [pc EXCEPT ![c] = "clear"]
          /\ UNCHANGED vm
  /\ UNCHANGED <<bridge, bridgeOwner, made, calls, owner, crossed, tries, adding, worker,
                 executor, workVars, timerVars>>
-----------------------------------------------------------------------------
(* loadScript() blocks on vmMutex, callFunc() tries it RetryCount times. *)

Goto(c, l) == pc' = [pc EXCEPT ![c] = l]

(* The mistake of a load that does not lock. *)
LockUnlessLoad(c) ==
  /\ pc[c] = "lock" /\ (owner[vm[c]] = Nobody \/ c \in Loaders)
  /\ owner' = IF c \in Loaders THEN owner ELSE [owner EXCEPT ![vm[c]] = c]
  /\ Goto(c, "lua")
  /\ UNCHANGED <<bridge, bridgeOwner, made, calls, vm, crossed, tries, adding, worker,
                 executor, workVars, timerVars>>

Lock(c) ==
  /\ pc[c] = "lock" /\ owner[vm[c]] = Nobody
  /\ owner' = [owner EXCEPT ![vm[c]] = c]
  /\ Goto(c, "lua")
  /\ UNCHANGED <<bridge, bridgeOwner, made, calls, vm, crossed, tries, adding, worker,
                 executor, workVars, timerVars>>

LockFails(c) ==
  /\ pc[c] = "lock" /\ owner[vm[c]] # Nobody /\ c \notin Loaders
  /\ IF tries[c] + 1 < RetryCount
     THEN tries' = [tries EXCEPT ![c] = @ + 1] /\ UNCHANGED pc
     ELSE Goto(c, "leave") /\ UNCHANGED tries
  /\ UNCHANGED <<vmVars, adding, worker, executor, workVars, timerVars>>

(* The mistake of an error path that does not unlock. *)
LuaEndLocked(c) ==
  /\ pc[c] = "lua"
  /\ \E failed \in BOOLEAN : owner' = [owner EXCEPT ![vm[c]] = IF failed THEN @ ELSE Nobody]
  /\ Goto(c, "leave")
  /\ UNCHANGED <<bridge, bridgeOwner, made, calls, vm, crossed, tries, adding, worker,
                 executor, workVars, timerVars>>

(* The Lua function ends, with a result or with an error. *)
LuaEnd(c) ==
  /\ pc[c] = "lua"
  /\ owner' = [owner EXCEPT ![vm[c]] = Nobody]
  /\ Goto(c, "leave")
  /\ UNCHANGED <<bridge, bridgeOwner, made, calls, vm, crossed, tries, adding, worker,
                 executor, workVars, timerVars>>
-----------------------------------------------------------------------------
(* The Timer library. *)

(* new LuaTimer: takes the function and the options from the Lua stack. *)
NewTimer(t, v) ==
  /\ born[t] = None
  /\ born' = [born EXCEPT ![t] = v]
  /\ lost' = IF executor = None THEN lost \cup {t} ELSE lost

(* Timer.add called by a function of a native thread.  With no timerExecutor *)
(* _timer_start() returns, and the LuaTimer is in no set.                    *)
Add(c, t) ==
  /\ pc[c] = "lua"
  /\ NewTimer(t, vm[c])
  /\ IF executor = None
     THEN UNCHANGED <<pc, adding, worker>>
     ELSE /\ Goto(c, "submit")
          /\ adding' = [adding EXCEPT ![c] = t]
          /\ worker' = [worker EXCEPT ![c] = executor]
  /\ UNCHANGED <<vmVars, tries, executor, workVars, registered, armed, stopFlag, freed,
                 exposed, touched, linkVars, met>>

(* operator>> gets the mutex of the Worker. *)
Submit(c) ==
  /\ pc[c] = "submit" /\ wpc[worker[c]] = "idle"
  /\ queue' = [queue EXCEPT ![worker[c]] = Append(@, adding[c])]
  /\ Goto(c, "insert")
  /\ UNCHANGED <<vmVars, tries, adding, worker, executor, stopping, wpc, now, timerVars>>

(* The mistake of a timer that is not remembered. *)
InsertNot(c) ==
  /\ pc[c] = "insert"
  /\ adding' = [adding EXCEPT ![c] = NoTimer]
  /\ worker' = [worker EXCEPT ![c] = None]
  /\ Goto(c, "lua")
  /\ UNCHANGED <<vmVars, tries, executor, workVars, timerVars>>

Insert(c) ==
  /\ pc[c] = "insert"
  /\ registered' = registered \cup {adding[c]}
  /\ adding' = [adding EXCEPT ![c] = NoTimer]
  /\ worker' = [worker EXCEPT ![c] = None]
  /\ Goto(c, "lua")
  /\ UNCHANGED <<vmVars, tries, executor, workVars, born, armed, stopFlag, freed,
                 lost, exposed, touched, linkVars, met>>

(* _timer_clear(): each timer is stopped, deleted and its handle freed, also *)
(* when its task is still queued or the loop is about to call its callback,  *)
(* and with no uv_close(), so that the loop's list still leads to it.        *)
Coming(t) ==
  \E w \in VMs : \/ \E i \in DOMAIN queue[w] : queue[w][i] = t
                 \/ wpc[w] = "due" /\ now[w] = t

(* The mistake of timers that are freed and not stopped. *)
ClearRunning ==
  /\ registered' = {}
  /\ freed' = freed \cup registered
  /\ exposed' = exposed \cup {t \in registered : Coming(t)}
  /\ atEnd' = atEnd \cup (registered \cap {first, last})
  /\ UNCHANGED <<armed, first, last, written>>

Clear ==
  /\ registered' = {}
  /\ armed' = armed \ registered
  /\ freed' = freed \cup registered
  /\ exposed' = exposed \cup {t \in registered : Coming(t)}
  /\ atEnd' = atEnd \cup (registered \cap {first, last})
  /\ UNCHANGED <<first, last, written>>

(* Who is in the Lua state of a VM: native threads, and a Worker in a        *)
(* callback.                                                                 *)
InLua(v) == {c \in Callers : vm[c] = v /\ pc[c] \in {"lua", "submit", "insert"}}
InCallback == {w \in VMs : wpc[w] \in {"callback", "stuck"}}

(* ~LuaTimer(): luaL_unref() on the Lua state of the VM that added the timer, *)
(* whichever VM the thread that clears belongs to.                           *)
Unref(c) == met' = met \cup {v \in VMs : InLua(v) \ {c} # {} /\ \E t \in registered : born[t] = v}

ClearBy(c) ==
  /\ pc[c] = "lua" /\ registered # {}
  /\ Clear /\ Unref(c)
  /\ UNCHANGED <<vmVars, callVars, executor, workVars, born, stopFlag, lost, touched>>
-----------------------------------------------------------------------------
(* The task of a timer, and the loop it runs. *)

Use(t) == touched' = IF t \in freed THEN touched \cup {t} ELSE touched

(* uv_timer_init() appends the handle to the loop's list.                    *)
Link(t) ==
  /\ first' = IF first = NoTimer THEN t ELSE first
  /\ last' = t
  /\ written' = written \cup ({last} \cap freed)
  /\ UNCHANGED atEnd

(* The mistake of a task that does not stay in the loop until it is empty. *)
StartBriefly(w) ==
  /\ wpc[w] = "idle" /\ w \notin stopping /\ queue[w] # <<>>
  /\ queue' = [queue EXCEPT ![w] = Tail(@)]
  /\ armed' = armed \cup {Head(queue[w])}
  /\ Use(Head(queue[w])) /\ Link(Head(queue[w]))
  /\ wpc' = [wpc EXCEPT ![w] = IF armed = {} THEN "idle" ELSE "run"]
  /\ UNCHANGED <<vmVars, callVars, executor, stopping, now, born, registered,
                 stopFlag, freed, lost, exposed, met>>

(* uv_timer_init(), uv_timer_start(), uv_run(). *)
Start(w) ==
  /\ wpc[w] = "idle" /\ w \notin stopping /\ queue[w] # <<>>
  /\ queue' = [queue EXCEPT ![w] = Tail(@)]
  /\ armed' = armed \cup {Head(queue[w])}
  /\ Use(Head(queue[w])) /\ Link(Head(queue[w]))
  /\ wpc' = [wpc EXCEPT ![w] = "run"]
  /\ UNCHANGED <<vmVars, callVars, executor, stopping, now, born, registered,
                 stopFlag, freed, lost, exposed, met>>

(* A timer is due: libuv stops it, and starts it again if it repeats. *)
Due(w, t) ==
  /\ wpc[w] = "run" /\ t \in armed
  /\ armed' = IF t \in Repeats THEN armed ELSE armed \ {t}
  /\ wpc' = [wpc EXCEPT ![w] = "due"]
  /\ now' = [now EXCEPT ![w] = t]
  /\ UNCHANGED <<vmVars, callVars, executor, stopping, queue, born, registered,
                 stopFlag, freed, lost, exposed, touched, linkVars, met>>

(* _timer_cb(): no lock. *)
Callback(w) ==
  /\ wpc[w] = "due"
  /\ Use(now[w])
  /\ wpc' = [wpc EXCEPT ![w] = "callback"]
  /\ UNCHANGED <<vmVars, callVars, executor, stopping, queue, now, born,
                 registered, armed, stopFlag, freed, lost, exposed, linkVars, met>>

(* Timer.add called by a callback waits for the mutex its own thread holds. *)
CallbackAdds(w, t) ==
  /\ wpc[w] = "callback"
  /\ NewTimer(t, born[now[w]])
  /\ wpc' = [wpc EXCEPT ![w] = IF executor = None THEN @ ELSE "stuck"]
  /\ UNCHANGED <<vmVars, callVars, executor, stopping, queue, now, registered, armed,
                 stopFlag, freed, exposed, touched, linkVars, met>>

CallbackClears(w) ==
  /\ wpc[w] = "callback" /\ registered # {}
  /\ Clear
  /\ UNCHANGED <<vmVars, callVars, executor, workVars, born, stopFlag, lost, touched, met>>

CallbackEnd(w) ==
  /\ wpc[w] = "callback"
  /\ wpc' = [wpc EXCEPT ![w] = "run"]
  /\ now' = [now EXCEPT ![w] = NoTimer]
  /\ UNCHANGED <<vmVars, callVars, executor, stopping, queue, timerVars>>

(* uv_run() returns: nothing is active, or uv_stop() was called. *)
RunEnd(w) ==
  /\ wpc[w] = "run" /\ (armed = {} \/ stopFlag)
  /\ wpc' = [wpc EXCEPT ![w] = "idle"]
  /\ stopFlag' = FALSE
  /\ UNCHANGED <<vmVars, callVars, executor, stopping, queue, now, born,
                 registered, armed, freed, lost, exposed, touched, linkVars, met>>
-----------------------------------------------------------------------------
(* ~LuaVM(): _timer_clear(), _loop_stop(), timerExecutor.reset(). *)

(* The mistake of a destructor that leaves its timers. *)
EndClearNot(c) ==
  /\ pc[c] = "clear"
  /\ Goto(c, "stop")
  /\ UNCHANGED <<vmVars, tries, adding, worker, executor, workVars, timerVars>>

EndClear(c) ==
  /\ pc[c] = "clear"
  /\ Clear /\ Unref(c)
  /\ Goto(c, "stop")
  /\ UNCHANGED <<vmVars, tries, adding, worker, executor, workVars, born,
                 stopFlag, lost, touched>>

(* uv_loop_close() finds the first handle of the list, and does nothing more. *)
EndStop(c) ==
  /\ pc[c] = "stop"
  /\ stopFlag' = (stopFlag \/ armed # {})
  /\ written' = written \cup (IF armed # {} THEN {first} \cap freed ELSE {})
  /\ Goto(c, "reset")
  /\ UNCHANGED <<vmVars, tries, adding, worker, executor, workVars, born, registered, armed,
                 freed, lost, exposed, touched, first, last, atEnd, met>>

EndReset(c) ==
  /\ pc[c] = "reset"
  /\ worker' = [worker EXCEPT ![c] = executor]
  /\ executor' = None
  /\ stopping' = stopping \cup ({executor} \ {None})
  /\ Goto(c, "join")
  /\ UNCHANGED <<vmVars, tries, adding, queue, wpc, now, timerVars>>

(* The Worker has ended, and its queue is dropped; then the VM is gone. *)
EndJoin(c) ==
  /\ pc[c] = "join"
  /\ worker[c] # None => /\ wpc[worker[c]] = "idle"
                         /\ \A d \in Callers \ {c} : worker[d] # worker[c]
  /\ wpc' = [w \in VMs |-> IF w = worker[c] THEN "none" ELSE wpc[w]]
  /\ queue' = [w \in VMs |-> IF w = worker[c] THEN <<>> ELSE queue[w]]
  /\ worker' = [worker EXCEPT ![c] = None]
  /\ vm' = [vm EXCEPT ![c] = None]
  /\ bridgeOwner' = IF bridgeOwner = c THEN Nobody ELSE bridgeOwner
  /\ Goto(c, "idle")
  /\ UNCHANGED <<bridge, made, calls, owner, crossed, tries, adding, executor, stopping,
                 now, timerVars>>
-----------------------------------------------------------------------------
(* What a caller inside the library goes on to do by itself. *)
CallerStep(c) ==
  \/ Lock(c) \/ LockFails(c) \/ LuaEnd(c) \/ Submit(c) \/ Insert(c) \/ Leave(c)
  \/ EndClear(c) \/ EndStop(c) \/ EndReset(c) \/ EndJoin(c)

WorkerStep(w) ==
  \/ Start(w) \/ Callback(w) \/ CallbackEnd(w) \/ RunEnd(w)
  \/ \E t \in Timers : Due(w, t)

Next ==
  \/ \E c \in Callers :
       \/ CallerStep(c) \/ Enter(c) \/ Release(c) \/ ClearBy(c)
       \/ \E t \in Timers : Add(c, t)
  \/ \E w \in VMs :
       \/ WorkerStep(w) \/ CallbackClears(w)
       \/ \E t \in Timers : CallbackAdds(w, t)

Spec == Init /\ [][Next]_vars

(* Threads are scheduled, locks are granted, and timers come due; uv_run()   *)
(* tests the flag that uv_stop() sets in every round.                        *)
Fairness ==
  /\ \A c \in Callers : WF_vars(CallerStep(c))
  /\ \A w \in VMs : WF_vars(WorkerStep(w)) /\ SF_vars(RunEnd(w))

FairSpec == Spec /\ Fairness
-----------------------------------------------------------------------------
(* Who meets whom in a Lua state (LuaVM.cxx:43, :77, :129).  vmMutex keeps     *)
(* the native threads that run Lua apart; a callback runs with no lock, but  *)
(* only one Worker is ever in a callback; and the luaL_unref() of a timer    *)
(* that is cleared meets another native thread in the Lua state only when    *)
(* two VMs overlapped: then a VM clears the timers of the other with them.   *)
AloneInLua ==
  /\ \A v \in VMs : InLua(v) \subseteq {owner[v]}
  /\ \A w, u \in InCallback : w = u
  /\ ~crossed => met = {}

(* Timers are served one at a time: the task of a timer stays in uv_run()    *)
(* until the loop is empty, so a second timer does not even start counting   *)
(* before the first one is through (LuaVM.cxx:90-95).  Only the uv_stop() of a *)
(* destructor leaves timers active: freed ones, or those of another VM.      *)
OneArmed == ~crossed => Cardinality(armed \ freed) <= 1

(* How a freed timer is still used (LuaVM.cxx:74-77, :91-93, :104-126).  Its *)
(* own task or callback uses it only if that was still to come when it was   *)
(* freed.  The loop's list leads to it too, as uv_close() is never called:   *)
(* the next uv_timer_init() writes into the last one, and the                *)
(* uv_loop_close() of a destructor reads the first one, both also in a plain *)
(* add, clear, add.  One that was freed in the middle of the list, or whose  *)
(* loop was initialised anew by another VM, is out of their reach.           *)
UsesExplained == touched \subseteq exposed /\ written \subseteq atEnd \cup touched

(* A VM that the bridge holds has an Executor for its timers, unless another *)
(* VM outlived its release: that one's destructor takes the global Executor  *)
(* of its successor, whose Timer.add then silently does nothing (:200-207).  *)
TimersServed == bridge # None /\ executor = None => crossed

(* With the last VM every timer is freed, those whose task was dropped too,  *)
(* except one added while there was no Executor, which nothing refers to     *)
(* (:82-85, :141-149).                                                       *)
AllFreed ==
  (\A v \in VMs : ~Alive(v)) => (\A t \in Timers : born[t] # None => t \in freed \cup lost)

(* A thread that never leaves the Lua VM has the Worker stuck in Timer.add   *)
(* inside a callback, or in a loop with a timer that repeats forever.        *)
Stuck == \E w \in VMs : wpc[w] = "stuck"
Repeating == \E w \in VMs : wpc[w] \in {"run", "due", "callback"} /\ armed \cap Repeats # {}

CallsReturn == \A c \in Callers : []<>(pc[c] = "idle" \/ Stuck \/ Repeating)

(* The destructor stops the timers that repeat: joining the Worker waits     *)
(* forever only if it is stuck, if it started a timer already freed, or if   *)
(* the VM that goes has taken the Executor of its successor.                 *)
ReleaseReturns ==
  \A c \in Callers :
    pc[c] = "join" ~> \/ pc[c] # "join"
                      \/ Stuck
                      \/ touched \cap Repeats # {}
                      \/ crossed
=============================================================================
