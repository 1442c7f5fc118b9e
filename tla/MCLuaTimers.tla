---------------------------- MODULE MCLuaTimers ----------------------------
(* Two native threads and two timers; the calls suffice for two adds, a      *)
(* caller that retries meanwhile, and a VM made after a release.             *)
EXTENDS LuaTimers
CONSTANTS a, b, t1, t2
MCCallers == {a, b}
MCLoaders == {a}
MCTimers == {t1, t2}
MCRepeats == {t1}
=============================================================================
