------------------------------ MODULE ScriptLib ------------------------------
(***************************************************************************)
(* The library scripts are written against (scripts/JS/DynXX.js, and       *)
(* scripts/Lua/DynXX.lua, which differs where it says so): the members of  *)
(* the JSON object that each of its functions makes of its arguments.      *)
(***************************************************************************)
EXTENDS Facade

LibBase == [
  get_version |-> {}, root_path |-> {}, log_print |-> {"level", "content"},
  device_type |-> {}, device_name |-> {}, device_manufacturer |-> {},
  device_os_version |-> {}, device_cpu_arch |-> {}]

FormFields == {"form_field_name_v", "form_field_mime_v", "form_field_data_v"}

LibNet == [
  net_http_request |-> {"url", "method", "params", "header_v", "rawBodyBytes", "timeout"}
                         \cup FormFields,
  net_http_download |-> {"url", "file", "timeout"},
  net_http_set_cert_path |-> {"path"},
  net_http_set_proxy |-> {"host", "port", "username", "password"},
  net_http_set_dns_configs |-> {"configs"}]

LibSQLite == [
  sqlite_open |-> {"_id"}, sqlite_execute |-> {"conn", "sql"},
  sqlite_query_do |-> {"conn", "sql"}, sqlite_query_read_row |-> {"query_result"},
  sqlite_query_read_column_text    |-> {"query_result", "column"},
  sqlite_query_read_column_integer |-> {"query_result", "column"},
  sqlite_query_read_column_float   |-> {"query_result", "column"},
  sqlite_query_drop |-> {"query_result"}, sqlite_close |-> {"conn"}]

(* The mistake of a key that is sent under another name. *)
LibKVKey == [
  kv_open |-> {"_id"}, kv_read_string |-> {"conn", "key"}, kv_write_string |-> {"conn", "k", "v"},
  kv_read_integer |-> {"conn", "k"}, kv_write_integer |-> {"conn", "k", "v"},
  kv_read_float |-> {"conn", "k"}, kv_write_float |-> {"conn", "k", "v"},
  kv_all_keys |-> {"conn"}, kv_contains |-> {"conn", "k"}, kv_remove |-> {"conn", "k"},
  kv_clear |-> {"conn"}, kv_close |-> {"conn"}]

LibKV == [
  kv_open |-> {"_id"}, kv_read_string |-> {"conn", "k"}, kv_write_string |-> {"conn", "k", "v"},
  kv_read_integer |-> {"conn", "k"}, kv_write_integer |-> {"conn", "k", "v"},
  kv_read_float |-> {"conn", "k"}, kv_write_float |-> {"conn", "k", "v"},
  kv_all_keys |-> {"conn"}, kv_contains |-> {"conn", "k"}, kv_remove |-> {"conn", "k"},
  kv_clear |-> {"conn"}, kv_close |-> {"conn"}]

LibCoding == [
  coding_hex_bytes2str |-> {"inBytes"}, coding_hex_str2bytes |-> {"str"},
  coding_bytes2str |-> {"inBytes"}, coding_str2bytes |-> {"str"},
  coding_case_upper |-> {"str"}, coding_case_lower |-> {"str"}]

(* The padding of RSA is never sent. *)
LibCrypto ==
  LET key == {"inBytes", "keyBytes"}
      gcm == key \cup {"initVectorBytes", "aadBytes", "tagBits"}
      lines == {"inBytes", "noNewLines"}
  IN [crypto_rand |-> {"len"}, crypto_aes_encrypt |-> key, crypto_aes_decrypt |-> key,
      crypto_aes_gcm_encrypt |-> gcm, crypto_aes_gcm_decrypt |-> gcm,
      crypto_rsa_gen_key |-> {"base64", "isPublic"},
      crypto_rsa_encrypt |-> key, crypto_rsa_decrypt |-> key,
      crypto_hash_md5 |-> {"inBytes"}, crypto_hash_sha1 |-> {"inBytes"},
      crypto_hash_sha256 |-> {"inBytes"},
      crypto_base64_encode |-> lines, crypto_base64_decode |-> lines]

LibZip == [
  z_zip_init |-> {"mode", "bufferSize", "format"}, z_zip_input |-> {"zip", "inBytes", "inFinish"},
  z_zip_process_do |-> {"zip"}, z_zip_process_finished |-> {"zip"}, z_zip_release |-> {"zip"},
  z_unzip_init |-> {"bufferSize", "format"}, z_unzip_input |-> {"unzip", "inBytes", "inFinish"},
  z_unzip_process_do |-> {"unzip"}, z_unzip_process_finished |-> {"unzip"},
  z_unzip_release |-> {"unzip"},
  z_bytes_zip |-> {"mode", "bufferSize", "format", "inBytes"},
  z_bytes_unzip |-> {"bufferSize", "format", "inBytes"}]

LibTable == Table({LibBase, LibNet, LibSQLite, LibKV, LibCoding, LibCrypto, LibZip})

(* DynXX.lua has no form fields. *)
LuaHttp == LibNet["net_http_request"] \ FormFields

Sends(front, op) ==
  IF front = "lua" /\ op = "net_http_request" THEN LuaHttp ELSE LibTable[op]

(* DynXX.d.ts lets a caller leave these out, and DynXX.js has no default for *)
(* them; DynXX.lua has one.                                                  *)
LeftOut(front, op, p) ==
  front = "js" /\ op \in {"z_bytes_zip", "z_bytes_unzip"} /\ p \in {"mode", "bufferSize", "format"}

(* What the bridges make of the answers (DEF_API): text for a string, for a  *)
(* handle and for a list as JSON.  The two bridges differ in the width of    *)
(* their integers, and in that some of JavaScript's calls are promises.      *)
Kinds == [
  STRING |-> {"get_version", "root_path", "device_name", "device_manufacturer",
     "device_os_version", "net_http_request", "sqlite_open", "sqlite_query_do",
     "sqlite_query_read_column_text", "kv_open", "kv_read_string", "kv_all_keys",
     "z_zip_init", "z_zip_process_do", "z_unzip_init", "z_unzip_process_do",
     "z_bytes_zip", "z_bytes_unzip"} \cup DOMAIN LibCoding \cup DOMAIN LibCrypto,
  BOOL |-> {"net_http_download", "sqlite_execute", "sqlite_query_read_row", "kv_write_string",
     "kv_write_integer", "kv_write_float", "kv_contains", "kv_remove",
     "z_zip_process_finished", "z_unzip_process_finished"},
  INTEGER |-> {"device_type", "device_cpu_arch", "sqlite_query_read_column_integer",
     "kv_read_integer", "z_zip_input", "z_unzip_input"},
  FLOAT |-> {"sqlite_query_read_column_float", "kv_read_float"},
  VOID |-> {"log_print", "net_http_set_cert_path", "net_http_set_proxy",
     "net_http_set_dns_configs", "sqlite_query_drop", "sqlite_close", "kv_clear", "kv_close",
     "z_zip_release", "z_unzip_release"}]

KindOf(op) == CHOOSE k \in DOMAIN Kinds : op \in Kinds[k]

Fits(kind, gives) ==
  CASE kind = "STRING" -> gives \in {"string", "bytes", "strings"} \cup HandleTypes
    [] kind = "BOOL" -> gives = "bool"
    [] kind = "INTEGER" -> gives = "int"
    [] kind = "FLOAT" -> gives = "float"
    [] kind = "VOID" -> gives = "void"

Promises == {"net_http_request", "net_http_download", "sqlite_execute", "sqlite_query_do",
             "z_bytes_zip", "z_bytes_unzip"}

(* A void function of Lua says that it left one result, and left none: what  *)
(* is on top of the stack is its argument.                                   *)
LeavesArgument(front, op) == front = "lua" /\ KindOf(op) = "VOID"

(* isPublic is sent as a JSON bool. *)
SentAsBool(op, p) == op = "crypto_rsa_gen_key" /\ p = "isPublic"
=============================================================================
