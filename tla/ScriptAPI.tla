----------------------------- MODULE ScriptAPI -----------------------------
(***************************************************************************)
(* The functions scripts call (src/bridge/ScriptAPI.cxx), each of which    *)
(* takes one JSON object.  A table has an entry per function: the types of *)
(* its parameters and of its result.                                       *)
(*                                                                         *)
(* A type that ends in ? has a default; any other parameter must be there, *)
(* or the function answers its default result without calling the facade.  *)
(* A handle (one of HandleTypes) must not be 0, "bytes" must not be empty. *)
(***************************************************************************)
EXTENDS JsonNode

(* One table of several, none of which has an entry that another has. *)
Table(parts) ==
  [x \in UNION {DOMAIN t : t \in parts} |-> (CHOOSE t \in parts : x \in DOMAIN t)[x]]

HandleTypes == {"db", "query", "kv", "zip", "unzip", "decoder", "node"}

Fn(params, gives) == [params |-> params, gives |-> gives]
NoParams == [x \in {} |-> "str"]

ScriptBase == [
  get_version         |-> Fn(NoParams, "string"),
  root_path           |-> Fn(NoParams, "string"),
  device_type         |-> Fn(NoParams, "int"),
  device_name         |-> Fn(NoParams, "string"),
  device_manufacturer |-> Fn(NoParams, "string"),
  device_os_version   |-> Fn(NoParams, "string"),
  device_cpu_arch     |-> Fn(NoParams, "int"),
  log_print           |-> Fn([level |-> "int", content |-> "str"], "void")]

ScriptNet == [
  net_http_request |->
    Fn([url |-> "str", params |-> "str?", method |-> "int", fileSize |-> "int?",
        timeout |-> "int?", rawBodyBytes |-> "bytes?", header_v |-> "strs?",
        form_field_name_v |-> "strs?", form_field_mime_v |-> "strs?",
        form_field_data_v |-> "strs?", cFILE |-> "ptr?"], "string"),
  net_http_download |-> Fn([url |-> "str", file |-> "str", timeout |-> "int?"], "bool"),
  net_http_set_cert_path |-> Fn([path |-> "str?"], "void"),
  net_http_set_proxy |->
    Fn([host |-> "str?", username |-> "str?", password |-> "str?", port |-> "int?"], "void"),
  net_http_set_dns_configs |-> Fn([configs |-> "list?"], "void")]

ScriptSQLite == [
  sqlite_open       |-> Fn([_id |-> "str"], "db"),
  sqlite_execute    |-> Fn([conn |-> "db", sql |-> "str"], "bool"),
  sqlite_query_do   |-> Fn([conn |-> "db", sql |-> "str"], "query"),
  sqlite_query_read_row |-> Fn([query_result |-> "query"], "bool"),
  sqlite_query_read_column_text |-> Fn([query_result |-> "query", column |-> "str"], "string"),
  sqlite_query_read_column_integer |-> Fn([query_result |-> "query", column |-> "str"], "int"),
  sqlite_query_read_column_float |-> Fn([query_result |-> "query", column |-> "str"], "float"),
  sqlite_query_drop |-> Fn([query_result |-> "query"], "void"),
  sqlite_close      |-> Fn([conn |-> "db"], "void")]

ScriptKVReads == [
  kv_open         |-> Fn([_id |-> "str"], "kv"),
  kv_read_string  |-> Fn([conn |-> "kv", k |-> "str"], "string"),
  kv_write_string |-> Fn([conn |-> "kv", k |-> "str", v |-> "str?"], "bool"),
  kv_read_integer |-> Fn([conn |-> "kv", k |-> "str"], "int"),
  kv_write_integer |-> Fn([conn |-> "kv", k |-> "str", v |-> "int?"], "bool"),
  kv_read_float   |-> Fn([conn |-> "kv", k |-> "str"], "float"),
  kv_write_float  |-> Fn([conn |-> "kv", k |-> "str", v |-> "float?"], "bool")]

ScriptKVKeys == [
  kv_all_keys |-> Fn([conn |-> "kv"], "strings"),
  kv_contains |-> Fn([conn |-> "kv", k |-> "str"], "bool"),
  kv_remove   |-> Fn([conn |-> "kv", k |-> "str"], "bool"),
  kv_clear    |-> Fn([conn |-> "kv"], "void"),
  kv_close    |-> Fn([conn |-> "kv"], "void")]

ScriptCoding == [
  coding_case_upper    |-> Fn([str |-> "str"], "string"),
  coding_case_lower    |-> Fn([str |-> "str"], "string"),
  coding_hex_bytes2str |-> Fn([inBytes |-> "bytes"], "string"),
  coding_hex_str2bytes |-> Fn([str |-> "str"], "bytes"),
  coding_bytes2str     |-> Fn([inBytes |-> "bytes"], "string"),
  coding_str2bytes     |-> Fn([str |-> "str"], "bytes")]

ScriptAes ==
  LET key == [inBytes |-> "bytes", keyBytes |-> "bytes"]
      gcm == [inBytes |-> "bytes", keyBytes |-> "bytes", initVectorBytes |-> "bytes",
              aadBytes |-> "bytes?", tagBits |-> "int?"]
  IN [crypto_rand            |-> Fn([len |-> "int"], "bytes"),
      crypto_aes_encrypt     |-> Fn(key, "bytes"),
      crypto_aes_decrypt     |-> Fn(key, "bytes"),
      crypto_aes_gcm_encrypt |-> Fn(gcm, "bytes"),
      crypto_aes_gcm_decrypt |-> Fn(gcm, "bytes")]

ScriptRsa ==
  LET padded == [inBytes |-> "bytes", keyBytes |-> "bytes", padding |-> "int"]
  IN [crypto_rsa_gen_key |-> Fn([base64 |-> "str", isPublic |-> "int"], "string"),
      crypto_rsa_encrypt |-> Fn(padded, "bytes"),
      crypto_rsa_decrypt |-> Fn(padded, "bytes")]

ScriptHash ==
  LET in == [inBytes |-> "bytes"]
      lines == [inBytes |-> "bytes", noNewLines |-> "int?"]
  IN [crypto_hash_md5      |-> Fn(in, "bytes"),
      crypto_hash_sha1     |-> Fn(in, "bytes"),
      crypto_hash_sha256   |-> Fn(in, "bytes"),
      crypto_base64_encode |-> Fn(lines, "bytes"),
      crypto_base64_decode |-> Fn(lines, "bytes")]

ScriptZip == [
  z_zip_init |-> Fn([mode |-> "int", bufferSize |-> "int", format |-> "int"], "zip"),
  z_zip_input |-> Fn([zip |-> "zip", inBytes |-> "bytes", inFinish |-> "int"], "int"),
  z_zip_process_do |-> Fn([zip |-> "zip"], "bytes"),
  z_zip_process_finished |-> Fn([zip |-> "zip"], "bool"),
  z_zip_release |-> Fn([zip |-> "zip"], "void"),
  z_bytes_zip |-> Fn([mode |-> "int", bufferSize |-> "int", format |-> "int",
                      inBytes |-> "bytes"], "bytes")]

ScriptUnzip == [
  z_unzip_init |-> Fn([bufferSize |-> "int", format |-> "int"], "unzip"),
  z_unzip_input |-> Fn([unzip |-> "unzip", inBytes |-> "bytes", inFinish |-> "int"], "int"),
  z_unzip_process_do |-> Fn([unzip |-> "unzip"], "bytes"),
  z_unzip_process_finished |-> Fn([unzip |-> "unzip"], "bool"),
  z_unzip_release |-> Fn([unzip |-> "unzip"], "void"),
  z_bytes_unzip |-> Fn([bufferSize |-> "int", format |-> "int", inBytes |-> "bytes"], "bytes")]
-----------------------------------------------------------------------------
(* JsonParser: what a parameter of a type gets out of its node. *)
Parse(type, n) ==
  IF n = "missing" THEN "none"
  ELSE CASE type \in {"str", "str?"} -> ReadString(n)
         [] type = "float?" -> ReadNumFloat(n)
         [] type \in {"bytes", "bytes?", "strs?", "list?"} -> ReadList(n)
         [] type = "ptr?" -> IF ReadString(n) = "none" THEN "none"
                             ELSE IF n \in {"digits", "int", "big"} THEN "value" ELSE "least"
         [] OTHER -> ReadNumInt(n)

(* The checks before the facade is called. *)
MustHave(type, read) ==
  \/ type \in {"str", "int"} /\ read = "none"
  \/ type \in HandleTypes \cup {"bytes"} /\ read \in {"none", "empty"}

(* dynxx_net_http_request(): the form fields must come together, and a file  *)
(* together with its size.                                                   *)
HttpMismatch(read) ==
  LET has(p) == read[p] \notin {"none", "empty"}
  IN \/ has("form_field_name_v") # has("form_field_mime_v")
     \/ has("form_field_name_v") # has("form_field_data_v")
     \/ has("cFILE") # has("fileSize")
=============================================================================
