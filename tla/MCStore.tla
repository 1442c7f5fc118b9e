------------------------------- MODULE MCStore -------------------------------
(* Two users, and three files of which two have the same hash. *)
EXTENDS Store, TLC
CONSTANTS u1, u2, f, g, h
MCUsers == {u1, u2}
MCFiles == {f, g, h}
MCHash == [x \in MCFiles |-> IF x = h THEN 2 ELSE 1]
Symmetry == Permutations({u1, u2}) \cup Permutations({f, g})
MCConns == 1 .. 3
MCResults == 1 .. 2
=============================================================================
