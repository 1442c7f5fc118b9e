----------------------------- MODULE JsonNode -----------------------------
(***************************************************************************)
(* What src/core/json/JsonCodec.cxx reads out of one JSON node.  A node is *)
(* its kind: the types of nodeReadType(), with the strings split by what   *)
(* they say, numbers by whether they are 0, arrays by whether they are     *)
(* empty, and "missing" for the node an object does not have.              *)
(*                                                                         *)
(* A value that was read is "value", one that is empty or 0 is "empty",    *)
(* and "least" is MinInt64, which str2int64() answers for a string that is *)
(* no number.  "none" is std::nullopt, "crash" the end of the process.     *)
(* The readers here are of a node that has a name; Logged() is for others. *)
(***************************************************************************)

Strings == {"text", "digits", "decimal", "nothing"}
Ints == {"int", "zero", "big"}
Lists == {"list", "emptyList"}
Nodes == Strings \cup Ints \cup Lists \cup {"float", "bool", "null", "missing"}

Read == {"value", "empty", "least", "none", "crash"}

(* std::to_string() and cJSON_Print never give an empty string. *)
ReadString(n) ==
  CASE n \in {"missing", "null"} -> "none"
    [] n = "nothing" -> "empty"
    [] OTHER -> "value"

(* readNumber() gives a variant of an integer and a double; which of them    *)
(* depends on how the number is written, for a string on its having a point. *)
Variant(n) ==
  CASE n \in Ints \cup {"digits", "text", "nothing"} -> "int64"
    [] n \in {"float", "decimal"} -> "double"
    [] OTHER -> "none"

(* std::get_if of the other alternative is null, and it is dereferenced. *)
ReadNumInt(n) ==
  CASE Variant(n) = "none" -> "none"
    [] Variant(n) = "double" -> "crash"
    [] n = "zero" -> "empty"
    [] n \in {"text", "nothing"} -> "least"
    [] OTHER -> "value"

ReadNumFloat(n) ==
  CASE Variant(n) = "none" -> "none"
    [] Variant(n) = "int64" -> "crash"
    [] OTHER -> "value"

(* The name of a node that cannot be read is formatted into the log.  It is  *)
(* a null pointer for an element of an array and for the root.               *)
Logged(read, named) == IF read = "none" /\ ~named THEN "crash" ELSE read

(* readChildrenCount() and readChildren() of a node that is no list: none. *)
ReadList(n) == IF n = "list" THEN "value" ELSE "empty"
=============================================================================
