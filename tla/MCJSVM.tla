------------------------------- MODULE MCJSVM -------------------------------
(* Two callers, two Workers, and calls of functions that return a value,    *)
(* fail, return the promise of native work, a chained one, one that never    *)
(* settles, one whose continuation awaits a call, one whose host callback    *)
(* awaits a function of JS, and two with a callback for os.setTimeout(), of  *)
(* which one makes a promise and the other awaits it.  The liveness run has  *)
(* fewer functions; in its the continuation of rejoin, and its callback,     *)
(* call the host, which awaits a JS function there and then.                 *)
EXTENDS JSVM
CONSTANTS a, b, tl1, tl2, tl3, pl1, pl2, pl3
Timed(await, host, makes, then, later) ==
  [await |-> await, host |-> host, makes |-> makes, then |-> then, later |-> later]
Fn(await, host, makes, then) == Timed(await, host, makes, then, NoFn)
MCScript ==
  [value   |-> Fn(FALSE, NoFn, "value", NoFn),
   fails   |-> Fn(FALSE, NoFn, "fails", NoFn),
   direct  |-> Fn(TRUE, NoFn, "direct", NoFn),
   fire    |-> Fn(FALSE, NoFn, "chained", NoFn),
   chained |-> Fn(TRUE, NoFn, "chained", "value"),
   never   |-> Fn(TRUE, NoFn, "never", NoFn),
   rejoin  |-> Fn(TRUE, NoFn, "chained", "never"),
   nested  |-> Fn(FALSE, "direct", "value", NoFn),
   tick    |-> Timed(FALSE, NoFn, "value", NoFn, "fire"),
   delays  |-> Timed(TRUE, NoFn, "value", NoFn, "direct")]
MCLiveScript ==
  [value   |-> Fn(FALSE, NoFn, "value", NoFn),
   chained |-> Fn(TRUE, NoFn, "chained", "value"),
   nested  |-> Fn(FALSE, "chained", "value", NoFn),
   inner   |-> Timed(TRUE, NoFn, "value", NoFn, "value"),
   rejoin  |-> Timed(FALSE, NoFn, "chained", "inner", "inner")]
MCLiveFns == DOMAIN MCLiveScript
MCOneWorker == 0 .. 0
MCCallers == {a, b}
MCTimerLoops == {tl1, tl2}
MCPromiseLoops == {pl1, pl2}
MCThreePromiseLoops == {pl1, pl2, pl3}
MCThreeTimerLoops == {tl1, tl2, tl3}
MCFns == DOMAIN MCScript
MCWorkers == 0 .. 1
MCPromises == 1 .. 2
=============================================================================
