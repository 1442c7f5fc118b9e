# DynXX in TLA+

A verification development for the C++ core of DynXX: TLA+ modules that model its
concurrent and stateful parts and its interface to other languages, TLC configurations that
check them on small instances, and proofs about sixteen of them for every number of threads, tasks,
VMs, timers, users, handles and requests. Paths below are
relative to the repository; `core/` is `src/src/core/`.

## 1. The system

DynXX is a library. An application initialises an *engine*, gets raw-address *handles* to
stores, decoders and compression streams, and runs JavaScript and Lua scripts that call back
into the same C interface.

| Component | State | Operations | Talks to |
|---|---|---|---|
| **Daemon / Worker** (`core/concurrent/Daemon.*`, `Executor.cxx`) | one mutex and condition variable, stop flag, task queue, thread | submit (`operator>>`), run loop, `stopAndJoin()` | owned by Executor; TimerTask is also a Daemon |
| **Executor** (`core/concurrent/Executor.*`) | pool of Workers, turn, capacity, mutex | submit (grows the pool, round robin), destroy | tasks may submit to the Executor that runs them |
| **TimerTask** (`core/concurrent/TimerTask.*`) | a Daemon, a clock | runs one function periodically | the two loopers of the JS VM |
| **JavaScript VM** (`core/vm/JSVM.cxx`, `BaseVM.*`) | QuickJS context, recursive `vmMutex`, loopers, Executor, static `promiseCache` | load, `callFunc` (awaited or not), `newPromise`, destroy | host calls through the bridge; Workers; loopers |
| **Lua VM** (`core/vm/LuaVM.cxx`) | Lua state, `vmMutex`, libuv loop on a one-Worker Executor, set of timers | load, `callFunc`, `Timer.add/remove` | host calls, timer callbacks |
| **Bridges** (`src/src/bridge/*`) | one VM each, one mutex each, message callback | ensure, snapshot, call, release | facade, VMs |
| **Engine facade** (`src/src/DynXX-X.cxx`, `core/util/MemUtil.hxx`) | root path, singletons, caches of handles | `dynxxInit`, `dynxxRelease`, everything with a handle | all of the above |
| **Stores** (`core/store/*`) | pool of connections by hash, query results | open, execute, query, drop, close | facade; SQLite, MMKV |
| **Zip/UnZip** (`core/zip/*`) | a zlib stream, two buffers, flags | input / process / receive / finish | facade |
| **Log** (`core/log/Log.*`) | a mutex, a level, a callback | print, set level, set callback | facade; the callbacks of JNI and N-API |
| **HTTP client** (`core/net/HttpClient.cxx`) | settings of certificate, proxy and DNS; a libcurl handle per request; a file per download | request, download, set | facade; libcurl |
| **JSON codec** (`core/json/JsonCodec.*`) | a document, addressed by its nodes | read a node or a path | facade |
| **C interface and bindings** (`src/src/DynXX-C.cxx`, `src/src/bridge/ScriptAPI.cxx`, `src/scripts/*`, JNI, N-API) | what was handed out and who frees it | every function of the library, from five languages | facade |
| **Coding, crypto, device** | none | conversions, calls to the system | facade |

What is hard in this code, and what makes each part correct:

* **Daemon / Worker.** The task runs *inside* the mutex of the condition variable;
  `request_stop()` does not take that mutex; `wait_for()` has spurious wake-ups and a deadline.
  Correct: first in first out, nothing lost or doubled, no lost wake-up, the stop ends.
* **Executor.** `operator>>` holds the pool's mutex while it waits for the mutex of a Worker,
  which is held by a running task, which may be in `operator>>` itself. The turn and the size
  grow separately and a thread may fail to start in between. Correct: round robin, every task
  in one place, no index out of the pool.
* **JavaScript VM.** A recursive mutex that is given up in the middle of an awaited call,
  retries that give work up, loopers that every awaited call replaces and joins, a deadline that
  races the promise. Correct: levels of the mutex and promise handles are accounted for, calls
  return.
* **VM lifetime.** Calls, loopers and tasks turn weak references into strong ones; whoever drops
  the last one destroys the VM and joins its threads, perhaps its own. Correct: nobody is in a
  VM that is being destroyed, a release returns and leaves the process alive.
* **Stores.** Handles are addresses into a pool keyed by the hash of a path; two opens share one
  connection; stores are made lazily with no lock; sqlite3 refuses to close a database with
  statements. Correct: a handle that its user has not closed is alive, no database is left open.
* **Engine.** Initialisation may be redundant or fail half-way, a release returns early in a
  released engine, addresses are used again. Correct: handles do not disturb each other, a
  released engine has nothing nobody asked for.
* **Lua VM.** All libuv work goes to the one Worker that is inside `uv_run()`; timers run Lua with no
  lock; the set of timers, the Executor and the loop are globals that two VMs share. Correct:
  native threads are alone in the Lua state, a freed timer is not used, a release ends.
* **Zip streams.** The input/process/receive loop ends on counts that are compared with the size
  of a buffer. Correct: `true` means that everything was read and written.
* **Log.** The callback runs with the mutex held, and the bindings replace it and delete what it
  refers to from other threads. Correct: a shown text is the text that was printed, once, in pieces.
* **HTTP client.** Made on first use with no lock; settings change during a request; a redirect asks
  for the body again. Correct: libcurl is ready while a request runs, what is sent is what was asked.
* **Interface and bindings.** A handle is a number that four layers convert; strings cross with an
  obligation to free them; JS promises run after the call that made them. Correct: nothing is freed
  twice or used after it went, an answer is of the declared kind.

`PROJECT.json` lists every hazard at its line with the properties that would catch it.

## 2. Modules

| Module | Models | Uses |
|---|---|---|
| `TaskQueue` | abstract: what a Worker promises | |
| `Worker` | one Worker on its Daemon, both builds (with `std::jthread` and without) | implements `TaskQueue` |
| `WorkerProofs` | the proofs about `Worker` | extends `Worker` |
| `Executor` | the pool, with Workers at the level of `TaskQueue` | each Worker implements `TaskQueue` |
| `LuaTimers` | `LuaVM`, its timers and loop, `LuaBridge` | the Executor as one Worker |
| `JSVM` | calls, promises, loopers and `vmMutex` of one JS VM, with the Executor at the level of its turn and queues | |
| `VMLifetime` | strong references to JS VMs, release and destruction; what a call does inside is `JSVM` | |
| `Engine` | init, release, singletons, handles | |
| `Store` | SQLite store, pool, query results | |
| `JsonNode` | what a reader does with a node of each kind | |
| `ScriptAPI` | what `ScriptAPI.cxx` asks of the arguments of each function of a script; tables | extends `JsonNode` |
| `CApi` | `DynXX-C.cxx`: guards, results, who frees them | extends `ScriptAPI` |
| `Facade` | what the functions of `DynXX-X.cxx` do with a handle | extends `CApi` |
| `ScriptLib` | `DynXX.js` and `DynXX.lua` on top of the calls for scripts | extends `Facade` |
| `Platforms` | the JNI and N-API bindings | extends `ScriptLib` |
| `Bindings` | calls from C, JNI, N-API, JS and Lua in any order, with the handles they share | extends `Platforms` |
| `Log`, `Zip`, `HttpClient` | one service each | |
| `Services` | the three, one at work at a time (they share no state) | extends them |
| `ExecutorProofs`, `JSVMProofs`, `VMLifetimeProofs`, `LuaTimersProofs`, `StoreProofs`, `ServicesProofs` | the proofs about the module of that name | extend it |
| `FrontProofs` | the proofs about `Engine` and `Bindings`, which face the application | extends both |
| `MC…` | the instances for TLC | |

The layers meet by abstraction rather than by one big product: `Worker` implements `TaskQueue`
(checked with fairness, proved without); `Executor` uses Workers as TaskQueues, with the Daemon's
mutex held exactly while a task runs (`MutexDiscipline` of `Worker`, proved), and each Worker of its
pool implements `TaskQueue` again (checked and proved); `JSVM` and `LuaTimers` use the Executor as
turn + queues; `VMLifetime` uses a call, a round and a task as units. `Bindings` is one call at a time
through all layers: what two threads do to each other is in the other modules.

### How state and actions correspond to the code

`PROJECT.json` ("map") gives the lines of every definition; here is the reading key.

* **Worker.** `mtx` is `Daemon::mutex`, `queue` `Worker::taskQueue`, `stop`/`stopped` the flags of
  `Daemon`. `loopPc` walks the run loop of `Daemon.cxx`: `LoopTest` (while condition),
  `LoopLock`, `LoopCheck` (the predicate), `LoopSleep`, `LoopTimeout`/`LoopSpurious`/`LoopRelock`
  (`wait_for`), `LoopStopTest`, `LoopPop…`, `LoopRun…` (a task returns or throws), `LoopUnlock`.
  `Submit…` are the steps of `operator>>`, `Stop…` those of `stopAndJoin()`; `jthread` picks the
  build. The steps between two synchronisation points are one action. Client calls start only
  while nobody destroys the Worker (else the program is undefined).
* **Executor.** `emtx`, `size`, `index`, `capacity` are its members. `pc` of a submitting thread:
  `lock`, `grow` (pool and `thread` creation, which may fail), `dispatch` (`at(index)` and the
  Worker's `operator>>`, enabled when that Worker runs no task), `leave`. `NestedCall` is a task that
  submits. `Destroy…` follow the reverse order of members.
* **JSVM.** `owner`/`depth` are the recursive mutex. Each thread has a stack of `callFunc()`
  frames because a JS function can call the host, which calls JS again. A frame goes through
  try-lock with retries, the function, the submission of `newPromise`, `beforeLoad` (replacement
  and join of both loopers), the polling of `jAwait()` and the result. `Script` says what
  functions do, `timers` which of them wait for their time after an `os.setTimeout()`: the rounds of
  the timer looper run those (`TimerBegin`), the rounds of the promise looper run jobs (`JobBegin`), and both
  may call the host, and so JS, again. `ended` is `std::terminate()`.
* **VMLifetime.** `refs[v]` is the set of holders of strong references, `life[v]` where the VM is,
  `destroyer[v]` who runs `~JSVM`. `LetGo` is the drop of a `shared_ptr`, which destroys when it was
  the last. Destruction joins loopers, then Workers; `JoinItself` is a join by the thread itself.
  JS of a call or a round asks for the bridge's mutex (`Ask`) when it calls the host (`Pass`) or an
  asynchronous function, which takes a second reference, to the VM the bridge holds by then (`Borrow`), and hands
  the work to that one's Workers (`Submit`).
* **Store.** `pool` is `ConnPool::conns`, `opened` the sqlite3 handles not yet closed, `results`
  the content of `sqlQRCache`, `broken` the connections whose `sqlite3_open_v2()` failed (the pool
  keeps them; statements on them fail). `OpenMakeStore` and `OpenMakeCache` are separate from the
  test for null before them.
* **Engine.** `cache` stands for the three caches of handles, which are always made and dropped
  together; `made` for the lazily made singletons. A held handle is remembered with the object it
  was made for, so that a reused address is seen.

* **LuaTimers.** `owner` is `vmMutex` of each VM, `wpc` the Worker: `idle`, `run` (inside `uv_run()`),
  `due` and `callback` (a timer fires), `stuck` (a callback waits for the mutex of its own Worker).
  `registered` is the global set `timers`, `armed` what is active in the loop. `exposed` and `touched`
  remember which timers were freed too early and used too late by their own task or callback; `first` and
  `last` are the ends of the loop's list of handles, from which nothing is ever taken, as there is no
  `uv_close()`, and `atEnd` and `written` remember who was freed there and gone through later. `met`
  remembers whose Lua state a thread that clears timers entered (`luaL_unref()` in `~LuaTimer`) while another
  thread was in it. `Timer.remove` has no action: the
  code returns 0 results from `Timer.add`, so a script has no handle to remove by.
* **Bindings.** Each function is an operator that gives the outcome (`CApi`, `ScriptLib`, `Platforms`) of
  a call with given arguments; `Bindings` keeps the state of the engine (`off`, `caches` after an `init()` that
  failed, `on`), the handles (`none`, `live`, `failed`, `half`: cut to 32 bits, `stale`: gone with the engine,
  `broken`: the decoder of a malformed text), the kind and the name of the JSON node that is kept, and the JS
  promises that still have to run. `Host` is the program around a script, which releases or initialises the
  engine under it.
* **Log / Zip / HttpClient.** A print is a sequence of pieces, a run of Zip a sequence of reads and
  rounds of the zlib loop with counts of bytes, a request a sequence of snapshots and hops.

## 3. Runs

| Run | Instance | Shows |
|---|---|---|
| `worker` | 2 clients, 3 tasks (one throws), both builds | FIFO accounting; no lost wake-up; bounded late starts; `stopAndJoin()` and `operator>>` return; the abstract queue is implemented, liveness included |
| `executor` | 2 clients, 5 tasks (one submits another, one is empty), 0 or 2 cores | round robin; one place per task; each Worker is a TaskQueue; submissions, tasks and `~Executor` end, with self-submission as the one exception |
| `js_vm` | 2 callers, 2 Workers, 10 functions (two with a callback for `os.setTimeout()`), 2 promises, 2 calls, 2 attempts | levels of the recursive mutex and handles are accounted for on every path; what becomes of promises; nested awaits wait in vain |
| `js_vm_live` | 2 callers, 1 Worker, 5 functions, 3 loopers of each kind | calls return; resolved promises get settled; the one exception is a promise job or a timer callback that awaits a call (section 4) |
| `vm_lifetime` | 2 callers, 1 Worker, 1 task, 2 VMs with their loopers | nobody is in a VM whose destruction has begun; the handles that leak are those of dropped queues; a release returns although it holds the mutex that calls and rounds wait for |
| `vm_lifetime_end` (violation) | the same | see findings |
| `lua_vm` | 2 callers (one loads), 2 timers (one repeats), 2 VMs, 2 calls | who meets whom in a Lua state; one timer at a time; how freed timers are used, by their task and callback and through the loop's list; which timers are never freed; calls and releases end unless a callback adds a timer or a timer repeats |
| `store` | 2 users, 3 files (two of one hash), 3 connections, 2 results | what the pool finds is usable; a handle dies under its user only by sharing or by a raced creation; databases stay open only behind outstanding results |
| `engine` | 2 addresses, 3 objects | cached objects are reachable; handles are independent; what a released engine has |
| `engine_init` (violation) | the same | see findings |
| `bindings` | five languages, two handles and a JSON node, each call with at most one unusual argument, every state of the engine | what ends the process; what is freed twice or never; where an answer is not of the declared kind |
| `services` | 2 loggers with 3 prints, Zip of up to 5 bytes in buffers of up to 3, 2 clients with every choice of method and data | what a log callback is shown; what `true` and `false` of a run of Zip say; what a request sends and when libcurl is there |

`CHECK_DEADLOCK FALSE` everywhere: all these systems may rest (a bounded number of tasks, calls
or objects was used up, or everything was destroyed). That nothing waits for ever is what the
liveness properties say. Type correctness is proved and not run, where a module has proofs.

**Bounds.** Two submitting threads are enough for every two-thread race; three tasks give a
running, a waiting and an arriving one. Two Workers let the turn wrap around. Two attempts
(`RetryCount`, ten in the code) separate "try again" from "give up", and no property depends on
the number. Two calls (`MaxCalls`) let one replace the loopers of the other; nesting comes from the
script. Two VMs let a call re-create the VM while the first is still being destroyed; two timers let
one wait behind the other. Three connections let a file be opened again after a close and an address
of the pool be taken by another file; two files of one hash make the collision happen. Three objects
on two addresses make an address be reused while a stale handle to it is held. In
`bindings`, `Fronts` are all there are; two handles at a time (`MaxHeld`) and a JSON node are enough because a
call takes at most one handle and a node, and the longest chain of handles is a database and its query. In `services` a text has 2 or 5 characters for
pieces of 2 (`MaxLen`; the code has 1,023): one piece, or a last piece that is not full; sizes up to 5 (`MaxSize`)
with buffers up to 3 (`MaxBuffer`) and output up to 3 times the input (`MaxGain`) meet every order of
"full", "exactly full" and "left over"; one change of the settings (`MaxSets`) and one redirect
(`MaxHops`) come at any point of a request. `store` uses symmetry of users and of the two files of one hash (safety only).

**Fairness.**
* `Worker`: each thread that can step does (WF). The deadline of `wait_for()` is absolute, so
  spurious wake-ups cannot postpone it (SF). A mutex that is free over and over is acquired (SF):
  the run loop leaves it free while it sleeps. Nobody has to submit or destroy.
* `Executor`: the same for its mutex and for the Worker that is dispatched to. Tasks end unless
  they are inside a submission.
* `JSVM`: functions, native work and jobs end; a thread that waits for what comes about over and
  over gets it (SF). A failed try-lock is a step, so calls need no fairness of the mutex: the
  properties hold when retries are used up.
* `VMLifetime`: tasks, destructors and those who wait for the bridge's mutex, once it stays free, go on
  (WF: at most one release per VM is made); calls and rounds end, though their JS may ask for that mutex
  over and over (SF).
* `LuaTimers`: callers and the Worker go on (WF); `uv_run()` tests the flag of `uv_stop()` in every
  round, so it returns if it could over and over (SF). Scripts need not call, add or clear.

`Store`, `Engine`, `Bindings` and `Services` have safety properties only: their calls do not wait for
each other, but for the mutex of the log, whose holder only runs the callback.

## 4. Findings

1. **`vm_lifetime_end`** (`JSVM.cxx:331`): when the release resets the bridge's reference during a
   round of a looper (or a task), that thread drops the last reference, runs `~JSVM` and joins
   itself: `std::terminate()`.
2. **`engine_init`** (`DynXX-X.cxx:214`): a redundant `dynxxInit()`, which the engine's tests call
   a no-op, replaces the caches of handles first, so every decoder and stream is destroyed.

Other behaviours are stated as properties that hold, and are worth knowing.

*JavaScript VM.* When a promise job, or a callback of `os.setTimeout()`, calls the host and the host awaits a
call, that call runs on a looper's thread, replaces that looper and joins itself, which ends the process
(`JSVM.cxx:330` and `:342`; the exception `EndedByItself` of `CallsReturn` and `ReadySettles`). An awaited call
inside another call always waits for the whole deadline (`NestedAwaitStarves`). A Worker that cannot
get `vmMutex` in ten attempts leaves its promise pending for good (`PendingExplained`). Promise jobs wait
until some call was awaited (`ReadySettles`). Handles of tasks dropped with a queue stay in the static
`promiseCache` (`HandlesExplained`).

*Executor, stores, engine.* A task that submits to its own Executor can block it (`SubmitReturns`,
`TasksRun`). Closing a shared connection closes it for everybody, and a connection closed before its
query results leaves its sqlite3 handle open (`HandlesLive`, `DatabasesExplained`). What calls make in a
released engine survives a second release (`SingletonsExplained`).

*Lua VM.* A timer waits until every earlier one is through (`OneArmed`). A timer cleared while its task
waits, or while its callback is due, is used by it after it was freed. A cleared timer also stays in the list of
the loop's handles, since nothing calls `uv_close()`: an ordinary add, clear, add writes into the freed
handle (`LuaVM.cxx:91`, `:126`), and the destructor's `uv_loop_close()` reads one (`UsesExplained`). A callback
runs with no lock, beside whoever owns `vmMutex`; and when two VMs overlap, one clears the timers of the other,
with a `luaL_unref()` in a Lua state whose mutex it does not hold (`AloneInLua`). Adding a timer in a
callback blocks the Worker for good, and the release behind it (`CallsReturn`, `ReleaseReturns`). A VM that
outlives its release takes the Executor of its successor, whose timers then never run and are never
freed (`TimersServed`, `AllFreed`). `Timer.remove()` cannot remove anything, since `Timer.add()` returns
no result (`LuaVM.cxx:141-158`), although `src/scripts/Lua/biz.lua:158-168` expects a timer to stop.

*Services.* While JNI installs its callback before the reference it needs, a piece of a text is lost;
both bindings delete the reference before they tell `Log` (`LogShowsTexts`). A run of Zip says `true` for
a cut archive, a failed read or a failed write, and `false` for an input or a last output that fills its
buffer exactly (`ZipTells`). A body cannot be sent again on a redirect; `PUT` without a file is sent as
`GET` without parameters; of several kinds of data one is sent; a download truncates the old file before
it asks (`HttpKept`).

*Bindings* (`EndsExplained`, `BlocksFreedOnce`, `AnswersAsDeclared`). The process may end: at an address that leads
nowhere, which is a handle whose `open` failed and that a script passes on, one of a database, a query, a store
or a node that went with the engine, or that of a database which was closed before its promise ran; at a coder
or decoder used after a release; when a reader gets node 0 of a live decoder, a fractional number
to read as an integer or a whole one as a float (`JsonCodec.hxx:58`, `:69`), or an element of an
array, which has no name to put into the log, that is no value of the kind (`JsonCodec.cxx:395`, `:432`); when a
script stores a whole number as a float, when C passes null, when `z_bytes_*` gets a mode or format it does
not know. The decoder of a malformed text answers nothing, for node 0 too, as `Json.test.cxx:481-490` expects. JNI frees the strings of `kvAllKeys` twice and removes the
path of an upload before it is read; N-API frees no converted string and cuts the handles of
Zip to 32 bits; the calls for RSA are refused for every script.

## 5. Proofs

Every theorem holds for every value of the constants that satisfies the named assumption of its
module; those only say that names differ, that sets are finite and that bounds are numbers.

**`WorkerProofs`** (every set of clients and tasks, both builds, any set of throwing tasks):

| Theorem | Statement |
|---|---|
| `TypeCorrect` | `Spec => []TypeOK` |
| `MutualExclusion` | `Spec => []MutexDiscipline` |
| `WakeupsAreKept` | `Spec => []NoLostWakeup` |
| `FewLateStarts` | `Spec => []LateStarts` |
| `FirstInFirstOut` | `Spec => []FifoAccounting` |
| `Refinement` | `Spec => Queue!Spec` (the safety part of `ImplementsTaskQueue`) |

The first four follow from one inductive invariant, `IInv`. None of them is inductive alone:
`NoLostWakeup` needs to know what the loop learned under the mutex (`SleepInv`: when it is about to
sleep the queue is empty, and a stop can only have come from the build that takes no lock), which
holds while nobody else is in the mutex (`MutexDiscipline`), which needs to know which of the
destructor's steps belong to which build (`OwnerInv`). `LateStarts` needs that a late task is on its
way to the next test of the flag (`LateInv`). `CurInv`, `ArgInv` and `LifeInv` tie program counters to
the data that goes with them. `FifoAccounting` is proved on top of `IInv` from lemmas about
sequences (`MoveHead`). The refinement needs, in addition, that a task is not submitted twice
(`FreshInv`), from lemmas about the elements of sequences.

**`ExecutorProofs`** (every number of clients and tasks, any nesting of tasks, any capacity; `Largest` bounds
what `hardware_concurrency()` may say):

| Theorem | Statement |
|---|---|
| `TypeCorrect` | `Spec => []TypeOK` |
| `TurnIsInPool` | `Spec => []IndexInPool` |
| `TurnsAreFair` | `Spec => []RoundRobin` |
| `TasksHaveOnePlace` | `Spec => []OnePlace` |
| `NothingRunsLate` | `Spec => []NothingRunsAfterDestroy` |
| `PoolImplementsQueues` | `Spec => WorkersAreQueues` |
| `OnlySelfSubmissionBlocks` | while a thread is inside `operator>>`, somebody can go on, or there is a self-submission deadlock |
| `SelfSubmissionBlocksForEver` | `Spec => [](Deadlocked => []Deadlocked)` |

`IInv` says who is inside `Executor::mutex`, that a Worker is inside `operator>>` only for the task it runs
(`NestInv`), and how turn and size go together. `RoundRobin` is a statement about differences of counts;
it is kept because a dispatch adds one at the turn and moves the turn by one modulo the capacity
(`NextTurn`). `OnePlace` needs that two threads never submit the same task (`OneCallerInv`), which for a
child task holds because its parent runs at one Worker only. The refinement needs both, and that
nobody is inside `operator>>` once a Worker is closed (`QuietInv`), so that nothing is handed to a closed queue.
The last two justify the exception in `SubmitReturns` and `TasksRun` (a task that submits to its own
Executor). The holder of `Executor::mutex` can only wait for the Worker in turn (`MutexInv`); the task that
this one runs is either not inside `operator>>`, and goes on, or is the holder itself or waits for the holder
(`Deadlocked`), and then no step of anybody changes that.

**`VMLifetimeProofs`** (every number of callers, VMs, Workers and tasks):

| Theorem | Statement |
|---|---|
| `TypeCorrect` | `Spec => []TypeOK` |
| `NobodyInsideTheDead` | `Spec => []UsedWhileAlive` |
| `OnlyTheDroppedStay` | `Spec => []HandlesExplained` |
| `TeardownNeverWaits` | whenever a destructor runs, its next join returns at once |
| `OnlySelfJoinEnds` | `Spec => [](ended => SelfJoin)` |
| `DestroyedOnce` | `Spec => [][no VM's life goes back or skips a stage]_vars` |

The first two rest on an exact account of strong references (`RefsInv`: the holders of `refs[v]` are the
bridge, the calls, the rounds, the tasks and the asynchronous functions that use `v`, and nobody else) together with "alive exactly
while somebody holds one" (`LifeInv`). The last needs that a task is in one place (`UniqueInv`): removing
the handle of one task must not remove that of another place.

The last three are about the end of a VM. A release joins loopers and Workers with the bridge's mutex held, and
JS of calls and rounds waits for that mutex; `TeardownNeverWaits` says why this is no deadlock: who waits is
in a call or a round (`JSInv`), which is a reference to its VM, as a task is (`RefsInv`), so neither a round nor a
task of that VM is left when the destructors run, and only who releases holds the mutex (`BridgeInv`). `OnlySelfJoinEnds` confines finding 1: the process ends only when a
looper or a Worker drops the last reference, never when a caller does.

**`JSVMProofs`** (every set of threads and Workers, every script, any number of promises, calls and
attempts):

| Theorem | Statement |
|---|---|
| `TypeCorrect` | `Spec => []TypeOK` |
| `LocksBalance` | `Spec => []LockAccounting` |
| `OneInside` | two threads are never inside the JS context together |
| `HandlesAccounted` | `Spec => []HandleAccounting` |
| `PendingAccounted` | `Spec => []PendingExplained` |
| `NestedAwaitsStarve` | `Spec => []NestedAwaitStarves` |

`LockAccounting` counts frames of a stack, so the proof rests on how that count changes when the innermost
frame moves (`CountMove`), a call is entered (`CountAppend`) or returns (`CountReturn`); each action then
takes, gives or keeps one level of one thread (`TakeLevel`, `GiveLevel`, `KeepLevel`), and `LockInv` says in
addition that the mutex has an owner just when its depth is not 0. The types need to know that a promise
somebody submits, queues or works on was made by a function (`Made`): its continuation is that function's.

The last three come from a second invariant on top, `HInv`. Its core is `LoadInv`: the tasks are
spread over spots (the queue and the hands of each Worker, the submission of each thread), a promise
is at one spot exactly when its handle is cached, and no queue holds it twice (`OnceInv`); every
action moves one promise between two spots, takes it from its last or makes a new one, which nobody
has. `HeapInv` says that the pending promises are those ahead and those dropped; a promise job is of
a resolved one (`JobInv`). `NestedAwaitStarves` is not inductive without knowing it earlier: from
the submission of the task to the poll (`Starves`) the promise of a call whose thread owns the mutex
is pending, since a Worker that could resolve it would need that mutex (`LockInv`); and the frames
below the top are inside a host call (`BuriedInv`), where they keep their level.

**`LuaTimersProofs`** (every number of threads, VMs, calls and timers):

| Theorem | Statement |
|---|---|
| `TypeCorrect` | `Spec => []TypeOK` (of this module) |
| `NativeThreadsApart` | `Spec => []AloneInLua` |
| `LateUsesExplained` | `Spec => []UsesExplained` |
| `TimersAreServed` | `Spec => []TimersServed` |
| `AllAreFreed` | `Spec => []AllFreed` |
| `TimersOneByOne` | `Spec => []OneArmed` |
| `OnlyCallbacksBlock` | while a caller is inside, somebody can go on, or a callback is stuck in `Timer.add` |
| `StuckForEver` | `Spec => [](Stuck => []Stuck)` |

`UsesExplained` alone is not inductive: a freed timer could be armed or wait in a queue with nobody having
noticed. `UseInv` says that every freed timer that a queue, a due callback or the loop still refers to was
recorded when it was freed; it is kept because a timer that is being added is not registered, hence
not freed (`AddingInv`, `BornInv`). `LinkInv` says of both ends of the loop's list that they are not freed, were
freed as an end, or were linked when freed already. `NativeThreadsApart` rests on who owns `vmMutex` (`OwnerInv`), on
there being one Worker in a loop at a time (`LoneInv`), and on a timer being of the one VM that is alive unless
two overlapped (`MetInv`, with `GoneInv` and `AliveInv` of the layer below).

The last three need three layers above it. `VMInv`: who destroys a VM is the last to refer to it
(`GoneInv`), and two VMs are alive only after one was made beside another (`AliveInv`); so a destructor that
takes an Executor while the bridge holds a VM takes it from a successor, which is `TimersServed`.
`WorkerInv`: an Executor that is there will be reset by somebody (`ExecInv`), and a Worker that is there is
the Executor's or is joined (`WorkInv`), so a Worker that is stuck keeps some VM alive for good. `TimerInv`:
registered timers have somebody who will clear them (`OpenInv`), a timer that was added is registered,
freed, lost, being added or behind a stuck Worker (`WhereInv`), which with no VM alive is `AllFreed`;
the loop is told to stop only when nobody is left to add timers (`StopInv`), so a loop that has ended leaves
only freed timers behind (`RestInv`), and a task starts only when no loop runs (`StartsAlone`): hence
`OneArmed`.

The last two are about blocking, and justify `Stuck` in `CallsReturn` and `ReleaseReturns`. A caller waits for
`vmMutex`, whose owner is inside Lua (`OwnedInv`), or for a Worker that is still there and that nobody else
joins (`PoolInv`); so the chain of those who wait ends at somebody who can go on, at a Worker in its loop, or at
a callback that waits for its own Worker.

**`StoreProofs`** (every number of users, files, connections and results, every hash):

| Theorem | Statement |
|---|---|
| `TypeCorrect` | `Spec => []TypeOK` |
| `FoundIsUsable` | `Spec => []PoolUsable` |
| `HandlesStayAlive` | `Spec => []HandlesLive` |
| `NoDatabaseForgotten` | `Spec => []DatabasesExplained` |

The three properties lean on each other and on three facts that the runs do not list: how far an
open has got says what has been made (`PhaseInv`: a release waits for it), a connection that somebody
has was made for a file, so a new one is nobody's (`FileInv`), and results have one owner, connections
one user unless shared (`OwnerInv`). `HandlesLive` survives a close because the closing user is, by
`OwnerInv`, the only one with that connection, and `PoolUsable` says it is the one under its key; it
survives the creation of a store because, unless creation was raced, there was no store and so, by
`PoolUsable`, no connection.

**`FrontProofs`**, first about `Engine` (every set of addresses, any number of objects):

| Theorem | Statement |
|---|---|
| `EngineTypeCorrect` | `EngineSpec => []EngineType` |
| `NothingOutOfReach` | `EngineSpec => []CachedIsHeld` |
| `ReleasedIsExplained` | `EngineSpec => []SingletonsExplained` |
| `HandlesAreIndependent` | `EngineSpec => ReleasesAreIndependent` |

These invariants are inductive as they stand, given the types. The last one is an action property:
only `HandleRelease` takes a handle away, and two handles that both name their objects have
different addresses. (The names `EngineInit`, `EngineSpec`, ... keep the two modules apart.)

and about `Bindings` (every set of fronts, any number of handles kept):

| Theorem | Statement |
|---|---|
| `EndsAreExplained` | `Spec => []EndsExplained` |
| `BlocksAreFreedOnce` | `Spec => []BlocksFreedOnce` |
| `AnswersAreAsDeclared` | `Spec => []AnswersAsDeclared` |

`Bindings` looks functions up in the tables of five modules, so the proofs have two halves. The first
states what *every* entry of a table satisfies (`ScriptEntry`, `NativeEntry`, `JniEntry`, `NapiEntry`: which
types it asks for, what it passes on, what it gives back and with which helper) and proves that part by
part (`ScriptEntries`, ...): these are the facts a reviewer of the five files would check for a new
function. For JSON, `ReaderCrash` goes through the kinds of nodes of each reader. The second is an invariant, `CallsInv`: a handle cut to its lower half is one of a stream and kept
by an N-API program, only a decoder is broken, and in an engine without caches no coder or decoder is live
(`HeldInv`); a promise that waits is one of those that run a statement (`PendInv`); every argument of the call under way is one its parameter allows (`CallInv`), and the
coders, decoders and nodes among them are not live where the caller keeps none that is (`PassedInv`). `LostHeld` and
`PendAfterStep` carry the first two over a release and an `init()`. From these
`ScriptReads` and `NativeReads` say what the code reads of an argument, `CrashStep` goes through the
causes of a crash, `RefusedBlock` and `AnsweredBlock` through what is freed, and `RefusedScript` and `Seen`
through what the caller is told.

**`ServicesProofs`** (any number of loggers and clients, texts, sizes, requests and settings):

| Theorem | Statement |
|---|---|
| `LogShows` | `Spec => []LogShowsTexts` |
| `ZipAnswers` | `Spec => []ZipTells` |
| `HttpAnswers` | `Spec => []HttpKept` |

Each service has an invariant of its own that the others' steps do not touch. `LogInv`: who shows
pieces holds the mutex (`MutexInv`), what has been shown of a long text is a whole number of pieces
(`PieceInv`), and what a binding's callback finds is known from the point its owner has reached
(`JniInv`, `NapiInv`). `ZipInv`: until its last read a run has read full buffers, and every round of
zlib before the last of a chunk filled one (`ReadsInv`): the counts are multiples of the buffer,
which is what `false` means (`EndInv`). `HttpInv`: the client is there while a request uses it
(`ClientInv`), and what it has read of the settings (`SeenOf`), sent last (`WireOf`) and put on the
disk (`DiskOf`) follows from what was asked and how far it is.

Only model-checked: all liveness (`StopReturns`, `SubmitReturns`, the fairness half of
`ImplementsTaskQueue`, `CallsReturn`, `ReleaseReturns`, ...), since the prover has no support for ENABLED.
The theorems about blocking (`OnlySelfSubmissionBlocks`, `TeardownNeverWaits`, `OnlyCallbacksBlock`) are the
safety half of it: they name the guards of the actions (`CanGoOn`, `LooperJoins`, ...) in place of ENABLED.

## 6. Not modelled

* States the program reaches only through undefined behaviour, such as two awaited calls that
  assign the looper pointers at once, a use of a `PtrCache` pointer after another thread removed it,
  destroying an Executor that is in use, a Lua VM made while a Worker is in the loop: the
  guards exclude them and `PROJECT.json` lists them as hazards without a property. Calls of libuv from
  two threads at once are taken as atomic.
* The contents of the QuickJS context, of databases and of JSON documents; the bytes of Zip (they are
  counted); headers and the text of addresses of HTTP; who allocates the text shown to a log callback
  (both bindings free it); a callback that prints, which waits for its own mutex.
* The middle of libuv's list of handles (`LuaTimers` follows its two ends, where `uv_timer_init()` and
  `uv_loop_close()` look); what reading or writing a freed object does, beyond that it may crash.
* Stateless code (coding, crypto, device), the Apple and POSIX bindings (which only forward), the fetch of
  WebAssembly, build tools, `SpinLock` (unused).
* `loadFile`/`loadScript`/`loadBinary`/`bindFunc` of `JSVM`; `KVStore`, whose life is that of the SQLite
  store without query results; the clock predicate of `TimerTask`.

## 7. Plan

1. `TimerTask`: its clock predicate on top of `Daemon`; the load operations of `JSVM`; the KV store
   beside SQLite.
2. `JsonCodec` as a pure algorithm (paths, children) with a reference definition.
3. Proofs: the same layers for what 1 and 2 add; every safety property of today's passing runs is proved.
