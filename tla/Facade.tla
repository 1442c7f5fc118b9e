------------------------------- MODULE Facade -------------------------------
(***************************************************************************)
(* What the facade (src/DynXX-X.cxx, and the C++ functions of the script   *)
(* bridges) does with an argument before it is used.  A table has the      *)
(* parameters of each function that must not be 0 or empty: the function   *)
(* answers its empty result otherwise.  A function that is in no table     *)
(* passes its arguments on.                                                *)
(***************************************************************************)
EXTENDS CApi

FacadeNet == [net_http_request |-> {"url"}, net_http_download |-> {"url", "file"}]

(* The mistake of a cursor that is used without a look at it. *)
FacadeSQLiteNoCursor == [
  sqlite_open           |-> {"_id"},
  sqlite_execute        |-> {"conn", "sql"},
  sqlite_query_do       |-> {"conn", "sql"},
  sqlite_query_read_row |-> {},
  sqlite_query_read_column_text    |-> {"query_result", "column"},
  sqlite_query_read_column_integer |-> {"query_result", "column"},
  sqlite_query_read_column_float   |-> {"query_result", "column"},
  sqlite_query_drop     |-> {"query_result"},
  sqlite_close          |-> {"conn"}]

FacadeSQLite == [
  sqlite_open           |-> {"_id"},
  sqlite_execute        |-> {"conn", "sql"},
  sqlite_query_do       |-> {"conn", "sql"},
  sqlite_query_read_row |-> {"query_result"},
  sqlite_query_read_column_text    |-> {"query_result", "column"},
  sqlite_query_read_column_integer |-> {"query_result", "column"},
  sqlite_query_read_column_float   |-> {"query_result", "column"},
  sqlite_query_drop     |-> {"query_result"},
  sqlite_close          |-> {"conn"}]

FacadeKV == [
  kv_open          |-> {"_id"},
  kv_read_string   |-> {"conn", "k"},
  kv_write_string  |-> {"conn", "k"},
  kv_read_integer  |-> {"conn", "k"},
  kv_write_integer |-> {"conn", "k"},
  kv_read_float    |-> {"conn", "k"},
  kv_write_float   |-> {"conn", "k"},
  kv_all_keys      |-> {"conn"},
  kv_contains      |-> {"conn", "k"},
  kv_remove        |-> {"conn", "k"},
  kv_clear         |-> {"conn"},
  kv_close         |-> {"conn"}]

FacadeJson == [
  json_decoder_read_node    |-> {"decoder", "k"},
  json_decoder_read_string  |-> {"decoder"},
  json_decoder_read_integer |-> {"decoder"},
  json_decoder_read_float   |-> {"decoder"},
  json_decoder_read_child   |-> {"decoder"},
  json_decoder_read_children_count |-> {"decoder"},
  json_decoder_read_next    |-> {"decoder"},
  json_decoder_release      |-> {"decoder"}]

FacadeZip == [
  z_zip_input            |-> {"zip"},
  z_zip_process_do       |-> {"zip"},
  z_zip_process_finished |-> {"zip"},
  z_zip_release          |-> {"zip"}]

FacadeUnzip == [
  z_unzip_input            |-> {"unzip"},
  z_unzip_process_do       |-> {"unzip"},
  z_unzip_process_finished |-> {"unzip"},
  z_unzip_release          |-> {"unzip"}]

FacadeBytes == [
  z_bytes_zip   |-> {"bufferSize", "inBytes"},
  z_bytes_unzip |-> {"bufferSize", "inBytes"}]

FacadeLua == [lua_loadF |-> {"file"}, lua_loadS |-> {"script"}, lua_call |-> {"func"}]

FacadeJS == [
  js_loadF |-> {"file"},
  js_loadS |-> {"script", "name"},
  js_loadB |-> {"inBytes"},
  js_call  |-> {"func"}]

FacadeTable ==
  Table({FacadeNet, FacadeSQLite, FacadeKV, FacadeJson, FacadeZip, FacadeUnzip, FacadeBytes,
         FacadeLua, FacadeJS})

Needs(op) == IF op \in DOMAIN FacadeTable THEN FacadeTable[op] ELSE {}

(* The address is the object.  That of a coder or a decoder is looked up in  *)
(* a PtrCache first, which knows the live ones.                              *)
Raw == {"db", "query", "kv", "node"}
Cached == {"zip", "unzip", "decoder"}

(* A mode or a format that is none: Zip::Zip() throws, which z_zip_init()    *)
(* catches and z_bytes_zip() does not.                                       *)
Throws(op, bad) == op \in DOMAIN FacadeBytes /\ bad
Catches(op, bad) == op \in {"z_zip_init", "z_unzip_init"} /\ bad

(* What is needed besides arguments, or the empty result is answered: the    *)
(* cache that is made by init() and dropped by release(), or the root.  No   *)
(* store and no query is left without a root.                                *)
NeedsCaches == {"z_zip_init", "z_unzip_init", "json_decoder_init",
                "z_zip_release", "z_unzip_release", "json_decoder_release"}
NeedsRoot == {"sqlite_open", "sqlite_query_do", "sqlite_query_drop", "sqlite_close",
              "kv_open", "kv_close"}

(* Some of these look at a store first, which may be there or not. *)
LooksAtStore == {"sqlite_query_do", "sqlite_close", "kv_close"}

(* A node is its kind and whether it has a name.  The root is of no kind that *)
(* nodeReadType() knows when it is given as 0.                                *)
Root == [kind |-> "missing", named |-> FALSE]

Readers == {"json_decoder_read_string", "json_decoder_read_integer", "json_decoder_read_float"}
ReadBy(op, node) ==
  Logged(CASE op = "json_decoder_read_string" -> ReadString(node.kind)
           [] op = "json_decoder_read_integer" -> ReadNumInt(node.kind)
           [] op = "json_decoder_read_float" -> ReadNumFloat(node.kind),
         node.named)

(* The functions that look for another node.  The root has no next one, and  *)
(* is not known to have children, but they can be found by name.             *)
FindsNode(op, node) ==
  CASE op = "json_decoder_read_child" -> node.kind = "list"
    [] op = "json_decoder_read_node" -> node.kind \in {"list", "missing"}
    [] op = "json_decoder_read_next" -> node.kind # "missing"
=============================================================================
