-------------------------------- MODULE CApi --------------------------------
(***************************************************************************)
(* The C interface (src/DynXX-C.cxx, and the C functions of the two script *)
(* bridges), which the JNI and N-API bindings are written on.  An entry    *)
(* says what types the parameters have, which of them are looked at before *)
(* the facade is called, what is returned when one of those is null or 0,  *)
(* and what is returned otherwise:                                         *)
(*   "chars", "bytes"  one block from malloc(), or null when it is empty   *)
(*   "strings"         an array from malloc() of strings from malloc()     *)
(*   a handle type     the address of an object, or 0                      *)
(*   "num"             a number or a bool                                  *)
(* A null string that is not looked at becomes a std::string_view of null. *)
(***************************************************************************)
EXTENDS ScriptAPI

C(params, guards, otherwise, gives) ==
  [params |-> params, guards |-> guards, otherwise |-> otherwise, gives |-> gives]
Plain(params, gives) == C(params, {}, "zero", gives)

CBase == [
  get_version |-> Plain(NoParams, "chars"),
  root_path   |-> Plain(NoParams, "chars"),
  init        |-> Plain([root |-> "str"], "num"),
  release     |-> Plain(NoParams, "num")]

CDevice == [
  device_type         |-> Plain(NoParams, "num"),
  device_name         |-> Plain(NoParams, "chars"),
  device_manufacturer |-> Plain(NoParams, "chars"),
  device_model        |-> Plain(NoParams, "chars"),
  device_os_version   |-> Plain(NoParams, "chars"),
  device_cpu_arch     |-> Plain(NoParams, "num")]

CLog == [
  log_set_level |-> Plain([level |-> "int"], "num"),
  log_print     |-> C([level |-> "int", content |-> "str"], {"str"}, "zero", "num")]

CCoding ==
  LET str(gives, otherwise) == C([str |-> "str"], {"str"}, otherwise, gives)
  IN [coding_case_upper        |-> str("chars", "literal"),
      coding_case_lower        |-> str("chars", "literal"),
      coding_hex_str2bytes     |-> str("bytes", "zero"),
      coding_hex_bytes2str     |-> Plain([inBytes |-> "bytes"], "chars"),
      coding_str2bytes         |-> str("bytes", "zero"),
      coding_bytes2str         |-> Plain([inBytes |-> "bytes"], "chars"),
      coding_str_trim          |-> str("chars", "literal"),
      coding_str_escape_quotes |-> str("chars", "literal")]

CCrypto ==
  LET in == [inBytes |-> "bytes"]
      key == [inBytes |-> "bytes", keyBytes |-> "bytes"]
      gcm == [inBytes |-> "bytes", keyBytes |-> "bytes", initVectorBytes |-> "bytes",
              aadBytes |-> "bytes?", tagBits |-> "int"]
      rsa == [inBytes |-> "bytes", keyBytes |-> "bytes", padding |-> "int"]
      lines == [inBytes |-> "bytes", noNewLines |-> "int"]
  IN [crypto_rand            |-> Plain([len |-> "int"], "bytes"),
      crypto_aes_encrypt     |-> Plain(key, "bytes"),
      crypto_aes_decrypt     |-> Plain(key, "bytes"),
      crypto_aes_gcm_encrypt |-> Plain(gcm, "bytes"),
      crypto_aes_gcm_decrypt |-> Plain(gcm, "bytes"),
      crypto_rsa_gen_key |->
        C([base64 |-> "str", isPublic |-> "int"], {"str"}, "literal", "chars"),
      crypto_rsa_encrypt   |-> Plain(rsa, "bytes"),
      crypto_rsa_decrypt   |-> Plain(rsa, "bytes"),
      crypto_hash_md5      |-> Plain(in, "bytes"),
      crypto_hash_sha1     |-> Plain(in, "bytes"),
      crypto_hash_sha256   |-> Plain(in, "bytes"),
      crypto_base64_encode |-> Plain(lines, "bytes"),
      crypto_base64_decode |-> Plain(lines, "bytes")]

CNet == [
  net_http_request |->
    C([url |-> "str", params |-> "str?", method |-> "int", header_v |-> "strs?",
       form_field_name_v |-> "strs?", form_field_mime_v |-> "strs?",
       form_field_data_v |-> "strs?", cFILE |-> "file?", timeout |-> "int"],
      {"str"}, "literal", "chars"),
  net_http_download |->
    C([url |-> "str", file |-> "str", timeout |-> "int"], {"str"}, "zero", "num"),
  net_http_set_cert_path |-> Plain([path |-> "str?"], "num"),
  net_http_set_proxy |->
    Plain([host |-> "str?", port |-> "int", username |-> "str?", password |-> "str?"], "num"),
  net_http_set_dns_configs |-> Plain([configs |-> "list?"], "num")]

CSQLite ==
  LET sql == [conn |-> "db", sql |-> "str"]
      column == [query_result |-> "query", column |-> "str"]
      both(handle) == {handle, "str"}
  IN [sqlite_open     |-> Plain([_id |-> "str"], "db"),
      sqlite_execute  |-> C(sql, both("db"), "zero", "num"),
      sqlite_query_do |-> C(sql, both("db"), "zero", "query"),
      sqlite_query_read_row |-> Plain([query_result |-> "query"], "num"),
      sqlite_query_read_column_text    |-> C(column, both("query"), "literal", "chars"),
      sqlite_query_read_column_integer |-> C(column, both("query"), "zero", "num"),
      sqlite_query_read_column_float   |-> C(column, both("query"), "zero", "num"),
      sqlite_query_drop |-> Plain([query_result |-> "query"], "num"),
      sqlite_close      |-> Plain([conn |-> "db"], "num")]

CKV ==
  LET k(gives) == C([conn |-> "kv", k |-> "str"], {"kv", "str"}, "zero", gives)
      v(type) == C([conn |-> "kv", k |-> "str", v |-> type], {"kv", "str"}, "zero", "num")
  IN [kv_open          |-> Plain([_id |-> "str"], "kv"),
      kv_read_string   |-> k("chars"),
      kv_write_string  |-> v("str?"),
      kv_read_integer  |-> k("num"),
      kv_write_integer |-> v("int"),
      kv_read_float    |-> k("num"),
      kv_write_float   |-> v("float?"),
      kv_all_keys      |-> Plain([conn |-> "kv"], "strings"),
      kv_contains      |-> k("num"),
      kv_remove        |-> k("num"),
      kv_clear         |-> Plain([conn |-> "kv"], "num"),
      kv_close         |-> Plain([conn |-> "kv"], "num")]

CJson ==
  LET node(gives) == Plain([decoder |-> "decoder", node |-> "node"], gives)
  IN [json_node_read_type  |-> Plain([node |-> "node"], "num"),
      json_node_read_name  |-> Plain([node |-> "node"], "chars"),
      json_node_to_str     |-> Plain([node |-> "node"], "chars"),
      json_decoder_init    |-> Plain([json |-> "str"], "decoder"),
      json_decoder_read_node |->
        C([decoder |-> "decoder", node |-> "node", k |-> "str"], {"decoder", "str"},
          "zero", "node"),
      json_decoder_read_string  |-> node("chars"),
      json_decoder_read_integer |-> node("num"),
      json_decoder_read_float   |-> node("num"),
      json_decoder_read_child   |-> node("node"),
      json_decoder_read_children_count |-> node("num"),
      json_decoder_read_next    |-> node("node"),
      json_decoder_release      |-> Plain([decoder |-> "decoder"], "num")]

CZip ==
  LET zip == [zip |-> "zip"]
      unzip == [unzip |-> "unzip"]
      sizes == [bufferSize |-> "int", format |-> "int"]
      modes == [mode |-> "int", bufferSize |-> "int", format |-> "int"]
  IN [z_zip_init       |-> Plain(modes, "zip"),
      z_zip_input      |-> Plain([zip |-> "zip", inBytes |-> "bytes", inFinish |-> "int"], "num"),
      z_zip_process_do |-> Plain(zip, "bytes"),
      z_zip_process_finished |-> Plain(zip, "num"),
      z_zip_release    |-> Plain(zip, "num"),
      z_unzip_init       |-> Plain(sizes, "unzip"),
      z_unzip_input      |->
        Plain([unzip |-> "unzip", inBytes |-> "bytes", inFinish |-> "int"], "num"),
      z_unzip_process_do |-> Plain(unzip, "bytes"),
      z_unzip_process_finished |-> Plain(unzip, "num"),
      z_unzip_release    |-> Plain(unzip, "num"),
      z_bytes_zip   |->
        Plain([mode |-> "int", bufferSize |-> "int", format |-> "int", inBytes |-> "bytes"],
              "bytes"),
      z_bytes_unzip |->
        Plain([bufferSize |-> "int", format |-> "int", inBytes |-> "bytes"], "bytes")]

(* The bridges' own C functions. *)
CLua == [
  lua_loadF |-> Plain([file |-> "str"], "num"),
  lua_loadS |-> Plain([script |-> "str"], "num"),
  lua_call  |-> Plain([func |-> "str", params |-> "str"], "chars")]

CJS == [
  js_loadF |-> Plain([file |-> "str"], "num"),
  js_loadS |-> Plain([script |-> "str", name |-> "str"], "num"),
  js_loadB |-> Plain([inBytes |-> "bytes"], "num"),
  js_call  |-> C([func |-> "str", params |-> "str?"], {"str"}, "literal", "chars")]

CTable ==
  Table({CBase, CDevice, CLog, CCoding, CCrypto, CNet, CSQLite, CKV, CJson, CZip, CLua, CJS})
ScriptTable ==
  Table({ScriptBase, ScriptNet, ScriptSQLite, ScriptKVReads, ScriptKVKeys, ScriptCoding,
         ScriptAes, ScriptRsa, ScriptHash, ScriptZip, ScriptUnzip})
-----------------------------------------------------------------------------
(* dupStr() and dupBytes() give null for what is empty, dupCharsArray() an   *)
(* array however few strings there are.                                      *)
Block(gives, what) ==
  CASE gives = "strings" -> "heap"
    [] gives \in {"chars", "bytes"} /\ what = "something" -> "heap"
    [] OTHER -> "null"
=============================================================================
