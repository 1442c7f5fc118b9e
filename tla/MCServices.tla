----------------------------- MODULE MCServices ------------------------------
(* One client asks, with data of up to two kinds; the other only races it for *)
(* the client object.                                                         *)
EXTENDS Services

CONSTANTS c1, c2

Few(a) == Cardinality({d \in {"p", "r", "f", "n"} : CASE d = "p" -> a.params [] d = "r" -> a.raw
                                                      [] d = "f" -> a.file [] OTHER -> a.fields > 0})
AllAsks == [t \in {c1, c2} |->
              IF t = c1
              THEN {a \in Questions : /\ a.op = "download" => a = [Plain EXCEPT !.op = "download", !.url = a.url]
                                      /\ a.empty => a.fields = 2
                                      /\ Few(a) <= 2
                                      /\ a.url # "http" => ~a.raw /\ ~a.file /\ a.fields = 0}
              ELSE {[Plain EXCEPT !.url = "invalid"]}]
=============================================================================
