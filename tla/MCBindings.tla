----------------------------- MODULE MCBindings -----------------------------
(* Every way to call.  A call takes at most one handle and a node, and the   *)
(* longest chain of handles is a database and its query: two at a time.      *)
EXTENDS Bindings

AllFronts == {"c", "jni", "napi", "js", "lua"}
=============================================================================
