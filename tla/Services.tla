------------------------------ MODULE Services -------------------------------
(***************************************************************************)
(* The services behind the facade that share no state with each other or   *)
(* with the rest: the log, the compression of a stream, the HTTP client.   *)
(* As none can see another, a behaviour has one of them at work; every     *)
(* step of each is a step here.                                            *)
(***************************************************************************)
EXTENDS Log, Zip, HttpClient

VARIABLE part  (* the one at work *)

servicesVars == <<part, logVars, zipVars, httpVars>>

(* The ones that are not at work are in some initial state. *)
LogRests == LogBegins("c")
ZipRests == /\ kind = "zip" /\ via = "bytes" /\ size = 0 /\ archive = 0 /\ corrupt = FALSE
            /\ buffer = 1 /\ ZipBegins

Init ==
  \/ part = "log" /\ LogInit /\ ZipRests /\ HttpInit
  \/ part = "zip" /\ LogRests /\ ZipInit /\ HttpInit
  \/ part = "http" /\ LogRests /\ ZipRests /\ HttpInit

LogStep == part = "log" /\ LogNext /\ UNCHANGED <<part, zipVars, httpVars>>
ZipStep == part = "zip" /\ ZipNext /\ UNCHANGED <<part, logVars, httpVars>>
HttpStep == part = "http" /\ HttpNext /\ UNCHANGED <<part, logVars, zipVars>>

Next == LogStep \/ ZipStep \/ HttpStep

Spec == Init /\ [][Next]_servicesVars
=============================================================================
