------------------------------- MODULE MCEngine ------------------------------
(* Two addresses and three objects: an address is used again. *)
EXTENDS Engine
CONSTANTS a1, a2
MCAddresses == {a1, a2}
=============================================================================
