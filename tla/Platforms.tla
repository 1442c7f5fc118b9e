----------------------------- MODULE Platforms -----------------------------
(***************************************************************************)
(* What the Android binding (DynXXJNI.cxx, JNIUtil.cxx) and the OHOS       *)
(* binding (napi_init.cxx, napi_util.cxx) make of the result of each C     *)
(* function they call: the helper they hand it to.                         *)
(***************************************************************************)
EXTENDS ScriptLib

(* A table out of the functions each helper is used for. *)
As(uses) ==
  [op \in UNION {uses[helper] : helper \in DOMAIN uses} |->
     CHOOSE helper \in DOMAIN uses : op \in uses[helper]]

JniBase == As([
  boxJString |-> {"get_version"},
  number |-> {"init", "release"}])

JniLog == As([
  number |-> {"log_set_level", "log_print"}])

JniNet == As([
  boxJString |-> {"net_http_request"},
  number |-> {"net_http_set_cert_path", "net_http_set_proxy", "net_http_set_dns_configs"}])

JniScripts == As([
  number |-> {"lua_loadF", "lua_loadS", "js_loadF", "js_loadS", "js_loadB"},
  boxJString |-> {"lua_call", "js_call"}])

JniSQLite == As([
  number |-> {"sqlite_open", "sqlite_execute", "sqlite_query_do", "sqlite_query_read_row",
    "sqlite_query_read_column_integer", "sqlite_query_read_column_float", "sqlite_query_drop",
    "sqlite_close"},
  boxJString |-> {"sqlite_query_read_column_text"}])

JniKV == As([
  number |-> {"kv_open", "kv_write_string", "kv_read_integer", "kv_write_integer",
    "kv_read_float", "kv_write_float", "kv_contains", "kv_remove", "kv_clear", "kv_close"},
  boxJString |-> {"kv_read_string"},
  moveToJStringArray |-> {"kv_all_keys"}])

JniDevice == As([
  number |-> {"device_type", "device_cpu_arch"},
  boxJString |-> {"device_name", "device_manufacturer", "device_os_version"}])

JniCoding == As([
  boxJString |-> {"coding_hex_bytes2str"},
  moveToJByteArray |-> {"coding_hex_str2bytes"}])

JniCrypto == As([
  moveToJByteArray |-> {"crypto_rand", "crypto_aes_encrypt", "crypto_aes_decrypt",
    "crypto_aes_gcm_encrypt", "crypto_aes_gcm_decrypt", "crypto_rsa_encrypt",
    "crypto_rsa_decrypt", "crypto_hash_md5", "crypto_hash_sha1", "crypto_hash_sha256",
    "crypto_base64_encode", "crypto_base64_decode"},
  boxJString |-> {"crypto_rsa_gen_key"}])

JniJson == As([
  number |-> {"json_node_read_type", "json_decoder_init", "json_decoder_read_node",
    "json_decoder_read_integer", "json_decoder_read_float", "json_decoder_read_child",
    "json_decoder_read_next", "json_decoder_release"},
  boxJString |-> {"json_decoder_read_string"}])

JniZip == As([
  number |-> {"z_zip_init", "z_zip_input", "z_zip_process_finished", "z_zip_release",
    "z_unzip_init", "z_unzip_input", "z_unzip_process_finished", "z_unzip_release"},
  moveToJByteArray |-> {"z_zip_process_do", "z_unzip_process_do", "z_bytes_zip",
    "z_bytes_unzip"}])

JniTable ==
  Table({JniBase, JniLog, JniNet, JniScripts, JniSQLite, JniKV, JniDevice, JniCoding, JniCrypto,
         JniJson, JniZip})

(* The path of the file to send is given back to Java before it is opened. *)
PathGivenBack(op, args) == op = "net_http_request" /\ args["cFILE"] = "text"
-----------------------------------------------------------------------------
NapiBase == As([
  FromChars |-> {"get_version"},
  FromBool |-> {"init"},
  FromInt |-> {"release"}])

NapiLog == As([
  FromInt |-> {"log_set_level", "log_print"}])

NapiNet == As([
  FromChars |-> {"net_http_request"},
  FromInt |-> {"net_http_set_cert_path", "net_http_set_proxy", "net_http_set_dns_configs"}])

NapiSQLite == As([
  FromLong |-> {"sqlite_open", "sqlite_query_do", "sqlite_query_read_column_integer"},
  FromBool |-> {"sqlite_execute", "sqlite_query_read_row"},
  FromChars |-> {"sqlite_query_read_column_text"},
  FromDouble |-> {"sqlite_query_read_column_float"},
  FromInt |-> {"sqlite_query_drop", "sqlite_close"}])

NapiKV == As([
  FromLong |-> {"kv_open", "kv_read_integer"},
  FromDouble |-> {"kv_read_float"},
  FromChars |-> {"kv_read_string"},
  FromCharsArray |-> {"kv_all_keys"},
  FromBool |-> {"kv_write_string", "kv_write_integer", "kv_write_float", "kv_contains",
    "kv_remove"},
  FromInt |-> {"kv_clear", "kv_close"}])

NapiDevice == As([
  FromInt |-> {"device_type", "device_cpu_arch"},
  FromChars |-> {"device_name", "device_manufacturer", "device_os_version"}])

NapiJson == As([
  FromInt |-> {"json_node_read_type", "json_decoder_release"},
  FromLong |-> {"json_decoder_init", "json_decoder_read_node", "json_decoder_read_child",
    "json_decoder_read_next", "json_decoder_read_integer"},
  FromDouble |-> {"json_decoder_read_float"},
  FromChars |-> {"json_decoder_read_string"}])

NapiCrypto == As([
  FromByteArray |-> {"coding_hex_str2bytes", "crypto_rand", "crypto_aes_encrypt",
    "crypto_aes_decrypt", "crypto_aes_gcm_encrypt", "crypto_aes_gcm_decrypt"},
  FromChars |-> {"coding_hex_bytes2str"}])

NapiRsaHash == As([
  FromChars |-> {"crypto_rsa_gen_key"},
  FromByteArray |-> {"crypto_rsa_encrypt", "crypto_rsa_decrypt", "crypto_hash_md5",
    "crypto_hash_sha1", "crypto_hash_sha256", "crypto_base64_encode", "crypto_base64_decode"}])

NapiZip == As([
  FromInt |-> {"z_zip_init", "z_zip_input", "z_zip_release", "z_unzip_init", "z_unzip_input",
    "z_unzip_release"},
  FromBool |-> {"z_zip_process_finished", "z_unzip_process_finished"},
  FromByteArray |-> {"z_zip_process_do", "z_unzip_process_do", "z_bytes_zip", "z_bytes_unzip"}])

NapiScripts == As([
  FromBool |-> {"lua_loadF", "lua_loadS", "js_loadF", "js_loadS", "js_loadB"},
  FromChars |-> {"lua_call", "js_call"}])

NapiTable ==
  Table({NapiBase, NapiLog, NapiNet, NapiSQLite, NapiKV, NapiDevice, NapiJson, NapiCrypto,
         NapiRsaHash, NapiZip, NapiScripts})

(* jsonReadType() takes its one argument only when there is another. *)
NapiDrops(op, p) == op = "json_node_read_type" /\ p = "node"
-----------------------------------------------------------------------------
(* How often each piece of a block is freed: of an array its strings, then   *)
(* the array.  boxJString() frees what is not null, moveToJStringArray()     *)
(* boxes each string and frees it once more; it leaves an array without any. *)
JniFrees(helper, block, what) ==
  IF block = "null" THEN 0
  ELSE CASE helper \in {"boxJString", "moveToJByteArray"} -> 1
         [] helper = "moveToJStringArray" /\ what = "something" -> 2
         [] OTHER -> 0

(* The mistake of byte arrays that NapiCallContext is not told of. *)
NapiFreesNoBytes(helper, block, what) ==
  IF helper = "FromCharsArray" /\ block = "heap" /\ what = "something" THEN 1 ELSE 0

(* NapiCallContext frees at the end of the call what it was told of: arrays  *)
(* that are not empty.                                                       *)
NapiFrees(helper, block, what) ==
  IF helper \in {"FromByteArray", "FromCharsArray"} /\ block = "heap" /\ what = "something"
  THEN 1 ELSE 0

(* What the caller sees: a helper of N-API answers the number of an error    *)
(* code for an empty string or list, and FromInt keeps 32 bits of a handle.  *)
Sees(helper, gives, what) ==
  CASE helper \in {"FromChars", "FromByteArray", "FromCharsArray"} /\ what = "nothing" -> "number"
    [] helper = "FromInt" /\ gives \in HandleTypes /\ what = "something" -> "half"
    [] OTHER -> "declared"
=============================================================================
