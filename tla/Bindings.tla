------------------------------ MODULE Bindings ------------------------------
(***************************************************************************)
(* A program that calls DynXX from outside: from C, from Kotlin through    *)
(* JNI, from ArkTS through N-API, or from a script in either language.  A  *)
(* call is made of its arguments, of what the layer it goes through makes  *)
(* of them, of what the facade answers, and of what becomes of the answer  *)
(* on its way back: the modules this one extends hold each layer.          *)
(*                                                                         *)
(* The caller keeps the handles it was given, the invalid ones too, and    *)
(* passes them on until it releases them; it never uses one afterwards.    *)
(* The handles that end with the engine, because it is released or because *)
(* it is initialised once more, are passed on as before.                   *)
(* A call that JavaScript gets a promise for is parsed on a Worker some    *)
(* time later, and its handle may then be gone: those that take a handle   *)
(* are deferred here, the others touch nothing that the caller shares.     *)
(*                                                                         *)
(* A failed open of a script is the empty string, of the others it is 0.   *)
(* The node 0 stands for the root of a JSON document.  A handle is "half"  *)
(* when it was cut to 32 bits, "stale" when its object is gone, "broken"   *)
(* when it is the decoder of a text that could not be parsed.              *)
(***************************************************************************)
EXTENDS Platforms, Integers, FiniteSets

CONSTANTS Fronts,     (* the ways to call, among "c", "jni", "napi", "js", "lua" *)
          MaxHeld     (* how many handles the caller keeps at a time             *)

ASSUME BindingsAssumption == Fronts \subseteq {"c", "jni", "napi", "js", "lua"}

VARIABLES front,      (* the way this program calls                              *)
          engine,     (* "off", "caches" (its root could not be made), or "on"   *)
          held,       (* the handles it keeps, by type                           *)
          item,       (* the JSON node it keeps, if that is live                 *)
          pend,       (* the promise that has not run: its function, its handle  *)
          at,         (* "idle", "called", "answered", or "gone": it crashed     *)
          op, args,   (* the call                                                *)
          out         (* how it ended: who answered, whether there was something *)
                      (* to answer, the block that C returned, how often it was  *)
                      (* freed, and what the caller sees                         *)

vars == <<front, engine, held, item, pend, at, op, args, out>>

Scripted == front \in {"js", "lua"}
NoOut == [by |-> "none", what |-> "nothing", block |-> "null", freed |-> 0, sees |-> "declared"]
NoPend == [op |-> "none", conn |-> "none"]
Items == [kind : Nodes \ {"missing"}, named : BOOLEAN]
NoRoot == [t \in HandleTypes |-> IF t = "node" /\ ~Scripted THEN "failed" ELSE "none"]

TypeOK ==
  /\ front \in Fronts
  /\ engine \in {"off", "caches", "on"}
  /\ held \in [HandleTypes -> {"none", "live", "failed", "half", "stale", "broken"}]
  /\ item \in Items \cup {Root}
  /\ pend.conn \in {"none", "live", "failed", "stale"}
  /\ at \in {"idle", "called", "answered", "gone"}
  /\ out.by \in {"none", "layer", "facade"}
  /\ out.block \in {"null", "heap", "literal"}

Ops == CASE front = "c" -> DOMAIN CTable
         [] front = "jni" -> DOMAIN JniTable
         [] front = "napi" -> DOMAIN NapiTable
         [] OTHER -> DOMAIN LibTable

Params(o) == IF Scripted THEN ScriptTable[o].params ELSE CTable[o].params
Gives(o) == IF Scripted THEN ScriptTable[o].gives ELSE CTable[o].gives

-----------------------------------------------------------------------------
(* The arguments of a call: a usual one for each parameter, or an unusual    *)
(* one for one of them.  The strings of Kotlin are never null.               *)
Usual(type) ==
  CASE type \in HandleTypes -> held[type]
    [] type \in {"str", "str?"} -> "text"
    [] type = "float?" -> "float"
    [] type \in {"bytes", "bytes?", "strs?", "list?"} -> "list"
    [] type \in {"ptr?", "file?"} -> "missing"
    [] OTHER -> "int"

Unusual(o, p) ==
  LET type == Params(o)[p]
  IN CASE type = "str" -> {"nothing"} \cup (IF front = "c" THEN {"missing"} ELSE {})
       [] type = "str?" -> {"nothing", "missing"}
       [] type = "float?" -> {"int"}
       [] type = "file?" -> {"text"}
       [] type \in {"bytes", "bytes?", "strs?", "list?"} -> {"emptyList"}
       [] type = "int" /\ p \in {"mode", "format"} ->
            {"big", "zero"} \cup (IF LeftOut(front, o, p) THEN {"missing"} ELSE {})
       [] type = "int" /\ p \notin {"mode", "format"} ->
            {"zero"} \cup (IF LeftOut(front, o, p) THEN {"missing"} ELSE {})
       [] OTHER -> {}

ArgsOf(o) ==
  LET usual == [p \in DOMAIN Params(o) |-> Usual(Params(o)[p])]
  IN {usual} \cup UNION {{[usual EXCEPT ![p] = v] : v \in Unusual(o, p)} : p \in DOMAIN Params(o)}

TypesIn(o) == {Params(o)[p] : p \in DOMAIN Params(o)} \cap HandleTypes
Keeps == {t \in HandleTypes \ {"node"} : held[t] # "none"}
MayCall(o) ==
  /\ \A t \in TypesIn(o) : held[t] # "none"
  /\ Gives(o) \in HandleTypes \ {"node"} =>
       held[Gives(o)] = "none" /\ Cardinality(Keeps) < MaxHeld

(* What a layer reads out of an argument. *)
SentNode(o, p) ==
  IF p \notin Sends(front, o) THEN "missing"
  ELSE IF SentAsBool(o, p) THEN "bool"
  ELSE IF args[p] \in {"live", "stale"} THEN "digits"
  ELSE IF args[p] = "failed" THEN "nothing" ELSE args[p]

NativeRead(o, p) ==
  IF \/ front = "napi" /\ NapiDrops(o, p)
     \/ args[p] \in {"nothing", "zero", "emptyList", "failed"}
  THEN "empty"
  ELSE CASE args[p] = "missing" -> "none"
         [] args[p] = "half" -> "half"
         [] OTHER -> "value"

Got == [p \in DOMAIN Params(op) |->
          IF Scripted THEN Parse(Params(op)[p], SentNode(op, p)) ELSE NativeRead(op, p)]

Passes(kind) == \E p \in DOMAIN args : args[p] = kind
PassesTo(types, kind) == \E p \in DOMAIN args : Params(op)[p] \in types /\ args[p] = kind

-----------------------------------------------------------------------------
(* The layer answers by itself. *)
Null(p) == IF Params(op)[p] \in HandleTypes THEN Got[p] = "empty" ELSE Got[p] = "none"
Refuses ==
  IF Scripted
  THEN \/ \E p \in DOMAIN Params(op) : MustHave(Params(op)[p], Got[p])
       \/ op = "net_http_request" /\ HttpMismatch(Got)
  ELSE \E p \in DOMAIN Params(op) : Params(op)[p] \in CTable[op].guards /\ Null(p)

(* The layer crashes: a JSON number of the other type, a null string, or a   *)
(* path that is read after it was given back.                                *)
LayerCrashes ==
  \/ \E p \in DOMAIN Params(op) : Got[p] = "crash"
  \/ ~Scripted /\ \E p \in DOMAIN Params(op) : Params(op)[p] = "str" /\ Got[p] = "none"
LayerMayCrash == front = "jni" /\ PathGivenBack(op, args)

(* The facade: the ways a call of it can end. *)
Is(types, reads) == \E p \in DOMAIN Params(op) : Params(op)[p] \in types /\ Got[p] \in reads
BadMode == \E p \in DOMAIN args : \/ p \in {"mode", "format"} /\ args[p] = "big"
                                  \/ p \in {"mode", "bufferSize"} /\ args[p] = "zero"
Unready == \/ op \in NeedsCaches /\ engine = "off"
           \/ op \in NeedsRoot /\ engine # "on"
Either == {"something", "nothing"}

(* A coder or a decoder is looked up in its cache, and the decoder reads. *)
Node == IF Is({"node"}, {"empty"}) THEN Root ELSE item
ReadAs(read) == IF read = "crash" THEN {"crash"}
                ELSE IF read \in {"none", "empty"} THEN {"nothing"} ELSE {"something"}
LookedUp ==
  IF engine = "off" THEN {"crash"}
  ELSE IF Is(Cached, {"least", "half"}) \/ PassesTo(Cached, "stale") \/ PassesTo(Cached, "broken")
  THEN {"nothing"}
  ELSE IF op \in Readers THEN ReadAs(ReadBy(op, Node))
  ELSE IF Gives(op) = "node" /\ ~FindsNode(op, Node) THEN {"nothing"} ELSE Either

(* Of the object at an address that is none, or is no longer, anything may be *)
(* read.  A query is dropped by its address, and the node 0 is not read.      *)
Gone == \E p \in DOMAIN args : Params(op)[p] \in Raw /\ args[p] = "stale" /\ Got[p] = "value"
Dereferenced ==
  IF op = "sqlite_query_drop" THEN Either
  ELSE IF Gone THEN {"crash"} \cup Either
  ELSE IF Is(Raw, {"least"}) THEN {"crash"} \cup (IF op \in LooksAtStore THEN {"nothing"} ELSE {})
  ELSE IF Is(Raw \ {"node"}, {"empty"}) THEN {"crash"}
  ELSE IF Is({"node"}, {"empty"}) THEN {"nothing"} ELSE Either

Initialised ==
  IF engine = "on" THEN {"something"} ELSE IF Got["root"] = "empty" THEN {"nothing"} ELSE Either

Results ==
  IF Unready \/ \E p \in Needs(op) : Got[p] \in {"empty", "none"} THEN {"nothing"}
  ELSE IF op = "init" THEN Initialised
  ELSE IF op = "json_decoder_init" THEN {"something"}
  ELSE IF TypesIn(op) \cap Cached # {} THEN LookedUp
  ELSE IF TypesIn(op) \cap Raw # {} THEN Dereferenced
  ELSE IF Throws(op, BadMode) THEN {"crash"}
  ELSE IF Catches(op, BadMode) THEN {"nothing"} ELSE Either

(* The way back. *)
FreesOf(block, what) ==
  CASE front = "jni" -> JniFrees(JniTable[op], block, what)
    [] front = "napi" -> NapiFrees(NapiTable[op], block, what)
    [] front = "c" /\ block # "null" /\ ~PassesTo({"str"}, "missing") -> 1
    [] OTHER -> 0

SeesOf(what) ==
  IF front = "napi" THEN Sees(NapiTable[op], Gives(op), what)
  ELSE IF Scripted /\ LeavesArgument(front, op) THEN "argument"
  ELSE IF Scripted /\ ~Fits(KindOf(op), Gives(op)) THEN "number" ELSE "declared"

Out(by, what, block) ==
  [by |-> by, what |-> what, block |-> block, freed |-> FreesOf(block, what),
   sees |-> SeesOf(what)]

(* What the caller keeps after the call. *)
Released ==
  CASE op = "sqlite_query_drop" -> {"query"}
    [] op = "sqlite_close" -> {"db", "query"}
    [] op = "kv_close" -> {"kv"}
    [] op = "z_zip_release" -> {"zip"}
    [] op = "z_unzip_release" -> {"unzip"}
    [] op = "json_decoder_release" -> {"decoder", "node"}
    [] OTHER -> {}

(* The engine: init() begins with new caches and keeps a root it has,        *)
(* release() drops the caches and what else there is.                        *)
Lost(types) == [t \in HandleTypes |->
                  IF t \in types /\ held[t] \in {"live", "broken"} THEN "stale" ELSE held[t]]
LostByInit == Lost(Cached \cup {"node"})

Given(what) ==
  IF what = "nothing" THEN {"failed"}
  ELSE IF SeesOf(what) = "half" THEN {"half"}
  ELSE IF Gives(op) # "decoder" THEN {"live"}
  ELSE IF Passes("nothing") THEN {"broken"} ELSE {"live", "broken"}

Kept(handle) ==
  IF Gives(op) \in HandleTypes THEN [held EXCEPT ![Gives(op)] = handle]
  ELSE IF op = "init" THEN LostByInit
  ELSE IF op = "release" THEN Lost(HandleTypes)
  ELSE [t \in HandleTypes |-> IF t \in Released THEN NoRoot[t] ELSE held[t]]

EngineAfter(what) ==
  CASE op = "init" -> IF what = "something" THEN "on" ELSE "caches"
    [] op = "release" -> "off"
    [] OTHER -> engine

(* A node that is found by its name has one, the next one of an array none. *)
Found == {i \in Items : /\ op = "json_decoder_read_node" => i.named
                        /\ op = "json_decoder_read_next" => i.named = Node.named}

(* The promise keeps a connection that was closed, or went with the engine. *)
PendAfter(kept) ==
  IF pend.conn = "live" /\ kept["db"] # "live" THEN [pend EXCEPT !.conn = "stale"] ELSE pend

-----------------------------------------------------------------------------
Init ==
  /\ front \in Fronts
  /\ engine = IF Scripted THEN "on" ELSE "off"
  /\ held = NoRoot /\ item = Root
  /\ pend = NoPend
  /\ at = "idle" /\ op = "none" /\ args = NoParams
  /\ out = NoOut

Deferred(o) == front = "js" /\ o \in Promises /\ TypesIn(o) # {}

Begin ==
  /\ at = "idle"
  /\ \E o \in Ops :
       /\ MayCall(o)
       /\ ~Deferred(o)
       /\ \E a \in ArgsOf(o) : op' = o /\ args' = a
  /\ at' = "called"
  /\ UNCHANGED <<front, engine, held, item, pend, out>>

(* The JSON is copied; the promise is made of a call that runs later. *)
Defer ==
  /\ at = "idle" /\ pend = NoPend
  /\ \E o \in Ops : /\ Deferred(o)
                    /\ MayCall(o)
                    /\ pend' = [op |-> o, conn |-> held["db"]]
  /\ UNCHANGED <<front, engine, held, item, at, op, args, out>>

Run ==
  /\ at = "idle" /\ pend # NoPend
  /\ op' = pend.op
  /\ args' = [conn |-> pend.conn, sql |-> "text"]
  /\ at' = "called"
  /\ pend' = NoPend
  /\ UNCHANGED <<front, engine, held, item, out>>

(* A script goes on after the host released or initialised the engine. *)
Host ==
  /\ at = "idle" /\ Scripted
  /\ \/ engine' = "off" /\ held' = Lost(HandleTypes)
     \/ /\ engine' \in IF engine = "on" THEN {"on"} ELSE {"caches", "on"}
        /\ held' = LostByInit
  /\ pend' = PendAfter(held')
  /\ UNCHANGED <<front, item, at, op, args, out>>

Refuse ==
  /\ at = "called"
  /\ Refuses
  /\ out' = Out("layer", "nothing",
                IF ~Scripted /\ CTable[op].otherwise = "literal" THEN "literal" ELSE "null")
  /\ held' = Kept("failed")
  /\ item' = IF held'["node"] = "live" THEN item ELSE Root
  /\ at' = "answered"
  /\ UNCHANGED <<front, engine, pend, op, args>>

Crash ==
  /\ at = "called"
  /\ ~Refuses
  /\ LayerCrashes \/ LayerMayCrash \/ "crash" \in Results
  /\ at' = "gone"
  /\ UNCHANGED <<front, engine, held, item, pend, op, args, out>>

Answer ==
  /\ at = "called"
  /\ ~Refuses /\ ~LayerCrashes
  /\ \E what \in Results \ {"crash"} :
       /\ out' = Out("facade", what,
                     IF Scripted THEN "null" ELSE Block(Gives(op), what))
       /\ \E handle \in Given(what) : held' = Kept(handle)
       /\ engine' = EngineAfter(what)
  /\ pend' = PendAfter(held')
  /\ item' \in IF held'["node"] # "live" THEN {Root}
               ELSE IF Gives(op) = "node" THEN Found ELSE {item}
  /\ at' = "answered"
  /\ UNCHANGED <<front, op, args>>

Return ==
  /\ at = "answered"
  /\ at' = "idle" /\ op' = "none" /\ args' = NoParams /\ out' = NoOut
  /\ UNCHANGED <<front, engine, held, item, pend>>

Next == Begin \/ Defer \/ Run \/ Host \/ Refuse \/ Crash \/ Answer \/ Return

Spec == Init /\ [][Next]_vars

-----------------------------------------------------------------------------
(* A handle that leads nowhere but is not 0 or empty, as the layers ask. *)
LeadsNowhere(types) ==
  \/ PassesTo(types, "stale") \/ PassesTo(types, "half")
  \/ Scripted /\ PassesTo(types, "failed")

(* What a decoder is asked to read that it cannot: the root as a value, a     *)
(* number as the type it was not written as, and an element of an array that *)
(* is no value of the kind.                                                  *)
Unreadable ==
  /\ op \in Readers /\ args["decoder"] = "live"
  /\ \/ args["node"] = "failed"
     \/ op = "json_decoder_read_integer" /\ item.kind \in {"float", "decimal"}
     \/ op = "json_decoder_read_float" /\ item.kind \in Ints \cup {"digits", "text", "nothing"}
     \/ /\ ~item.named
        /\ \/ item.kind = "null"
           \/ op # "json_decoder_read_string" /\ item.kind \in {"bool"} \cup Lists

(* No call ends the program, whatever the state of the engine and of the     *)
(* handles it is given, but: an address that leads nowhere (a database, a    *)
(* query, a store or a node that went with the engine, a promise's database  *)
(* that was closed, a failed open that a script passes on); any coder or     *)
(* decoder but 0 while the engine has no caches; a JSON value that its       *)
(* reader cannot read; a kv_write_float() of a script with a whole number;   *)
(* a null string that C does not look at; z_bytes_zip() and z_bytes_unzip()  *)
(* with a mode or a format that is none; and a file that Kotlin sends        *)
(* (DynXX-X.cxx:214-275,586-1109, JsonCodec.cxx:358-435, JsonCodec.hxx:51,   *)
(* DynXX-C.cxx, ScriptAPI.cxx:57-127, DynXXJNI.cxx:123).                     *)
EndsExplained ==
  at = "gone" =>
    \/ LeadsNowhere(Raw)
    \/ LeadsNowhere(Cached) /\ engine = "off"
    \/ Unreadable
    \/ Scripted /\ op = "kv_write_float" /\ args["v"] = "int"
    \/ front = "c" /\ PassesTo({"str"}, "missing")
    \/ op \in {"z_bytes_zip", "z_bytes_unzip"} /\ (Passes("big") \/ args["mode"] = "zero")
    \/ front = "jni" /\ PassesTo({"file?"}, "text")

(* Every block that C returns is freed once, and nothing else is, but: each  *)
(* string of JNI's kvAllKeys(), freed twice; an array without strings,       *)
(* never freed by either binding; the strings of N-API, never freed; and the *)
(* literal for a column of a query that failed, freed by JNI and by a caller *)
(* of C that does as it is told (JNIUtil.cxx:167-272, napi_util.cxx:7-300,   *)
(* CAPI.test.cxx:21).                                                        *)
BlocksFreedOnce ==
  at = "answered" =>
    \/ out.freed = IF out.block = "heap" THEN 1 ELSE 0
    \/ front = "jni" /\ op = "kv_all_keys" /\ out.freed = IF out.what = "something" THEN 2 ELSE 0
    \/ front = "napi" /\ op = "kv_all_keys" /\ out.freed = 0 /\ out.what = "nothing"
    \/ front = "napi" /\ Gives(op) = "chars" /\ out.freed = 0
    \/ /\ front \in {"c", "jni"} /\ op = "sqlite_query_read_column_text"
       /\ out.block = "literal" /\ out.freed = 1

(* A script's call whose arguments are right is never refused by the layer   *)
(* in front of the facade, and an answer has the type that was declared,     *)
(* but: the keys of RSA, refused always; the arguments that JavaScript may   *)
(* leave out, refused when it does; an empty string or list of N-API, seen   *)
(* as a number; N-API's handles of coders, cut to 32 bits; the JSON that a   *)
(* void function of Lua returns (DynXX.js:410-450, DynXX.lua, napi_util.cxx, *)
(* napi_init.cxx:747-890, LuaVM.hxx:16-22).                                  *)
AnswersAsDeclared ==
  at = "answered" =>
    /\ Scripted /\ out.by = "layer" =>
         \/ Passes("emptyList")
         \/ \E p \in DOMAIN args : args[p] = "missing" /\ LeftOut(front, op, p)
         \/ op \in {"crypto_rsa_gen_key", "crypto_rsa_encrypt", "crypto_rsa_decrypt"}
    /\ \/ out.sees = "declared"
       \/ front = "napi" /\ out.sees = "number" /\ out.what = "nothing"
       \/ front = "napi" /\ out.sees = "half" /\ op \in {"z_zip_init", "z_unzip_init"}
       \/ front = "lua" /\ out.sees = "argument" /\ KindOf(op) = "VOID"
=============================================================================
