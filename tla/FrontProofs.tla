----------------------------- MODULE FrontProofs -----------------------------
(***************************************************************************)
(* Proofs about what faces the application: Bindings, the calls that reach *)
(* the engine through its five fronts, and Engine, its life and handles.   *)
(*                                                                         *)
(* Bindings is a machine over tables: what a front asks, passes on and     *)
(* gives back is looked up by the name of the function.  The first part    *)
(* states what holds of every entry of a table and proves it part by part; *)
(* the second is the inductive invariant of a call, from these; the third  *)
(* has a theorem for each property of the runs.                            *)
(***************************************************************************)
EXTENDS Engine, Bindings, TLAPS
-----------------------------------------------------------------------------
(* An entry of a table comes from one of its parts. *)
LEMMA TableAt ==
  ASSUME NEW parts, NEW x \in DOMAIN Table(parts)
  PROVE  \E t \in parts : x \in DOMAIN t /\ Table(parts)[x] = t[x]
BY DEF Table

(* Every name of a part is a name of the table. *)
LEMMA TableDomain ==
  ASSUME NEW parts, NEW t \in parts, NEW x \in DOMAIN t
  PROVE  x \in DOMAIN Table(parts)
BY DEF Table

(* A name that only one part has keeps that part's entry. *)
LEMMA TableEntry ==
  ASSUME NEW parts, NEW t \in parts, NEW x \in DOMAIN t,
      \A u \in parts : x \in DOMAIN u => u = t
  PROVE  x \in DOMAIN Table(parts) /\ Table(parts)[x] = t[x]
<1>1. x \in DOMAIN Table(parts)
  BY DEF Table
<1>2. PICK u \in parts : x \in DOMAIN u /\ Table(parts)[x] = u[x]
  BY <1>1, TableAt
<1> QED BY <1>1, <1>2

(* The tables of a platform name the helper that lists the function. *)
LEMMA AsAt ==
  ASSUME NEW uses, NEW x \in DOMAIN As(uses)
  PROVE  As(uses)[x] \in DOMAIN uses /\ x \in uses[As(uses)[x]]
BY DEF As

(* The script library: no function is in two of its parts. *)
LEMMA LibEntries == ASSUME NEW o
  PROVE /\ o \in DOMAIN LibBase => o \in DOMAIN LibTable /\ LibTable[o] = LibBase[o]
        /\ o \in DOMAIN LibNet => o \in DOMAIN LibTable /\ LibTable[o] = LibNet[o]
        /\ o \in DOMAIN LibSQLite => o \in DOMAIN LibTable /\ LibTable[o] = LibSQLite[o]
        /\ o \in DOMAIN LibKV => o \in DOMAIN LibTable /\ LibTable[o] = LibKV[o]
        /\ o \in DOMAIN LibCoding => o \in DOMAIN LibTable /\ LibTable[o] = LibCoding[o]
        /\ o \in DOMAIN LibCrypto => o \in DOMAIN LibTable /\ LibTable[o] = LibCrypto[o]
        /\ o \in DOMAIN LibZip => o \in DOMAIN LibTable /\ LibTable[o] = LibZip[o]
<1> DEFINE Parts == {LibBase, LibNet, LibSQLite, LibKV, LibCoding, LibCrypto, LibZip}
<1>0. LibTable = Table(Parts)
  BY DEF LibTable
<1> HIDE DEF Parts
<1>1. ASSUME o \in DOMAIN LibBase PROVE o \in DOMAIN LibTable /\ LibTable[o] = LibBase[o]
  <2>1. \A u \in Parts : o \in DOMAIN u => u = LibBase
    BY <1>1 DEF Parts, LibBase, LibNet, LibSQLite, LibKV, LibCoding, LibCrypto, LibZip
  <2>2. LibBase \in Parts BY DEF Parts
  <2> QED BY <1>0, <1>1, <2>1, <2>2, TableEntry
<1>2. ASSUME o \in DOMAIN LibNet PROVE o \in DOMAIN LibTable /\ LibTable[o] = LibNet[o]
  <2>1. \A u \in Parts : o \in DOMAIN u => u = LibNet
    BY <1>2 DEF Parts, LibBase, LibNet, LibSQLite, LibKV, LibCoding, LibCrypto, LibZip
  <2>2. LibNet \in Parts BY DEF Parts
  <2> QED BY <1>0, <1>2, <2>1, <2>2, TableEntry
<1>3. ASSUME o \in DOMAIN LibSQLite PROVE o \in DOMAIN LibTable /\ LibTable[o] = LibSQLite[o]
  <2>1. \A u \in Parts : o \in DOMAIN u => u = LibSQLite
    BY <1>3 DEF Parts, LibBase, LibNet, LibSQLite, LibKV, LibCoding, LibCrypto, LibZip
  <2>2. LibSQLite \in Parts BY DEF Parts
  <2> QED BY <1>0, <1>3, <2>1, <2>2, TableEntry
<1>4. ASSUME o \in DOMAIN LibKV PROVE o \in DOMAIN LibTable /\ LibTable[o] = LibKV[o]
  <2>1. \A u \in Parts : o \in DOMAIN u => u = LibKV
    BY <1>4 DEF Parts, LibBase, LibNet, LibSQLite, LibKV, LibCoding, LibCrypto, LibZip
  <2>2. LibKV \in Parts BY DEF Parts
  <2> QED BY <1>0, <1>4, <2>1, <2>2, TableEntry
<1>5. ASSUME o \in DOMAIN LibCoding PROVE o \in DOMAIN LibTable /\ LibTable[o] = LibCoding[o]
  <2>1. \A u \in Parts : o \in DOMAIN u => u = LibCoding
    BY <1>5 DEF Parts, LibBase, LibNet, LibSQLite, LibKV, LibCoding, LibCrypto, LibZip
  <2>2. LibCoding \in Parts BY DEF Parts
  <2> QED BY <1>0, <1>5, <2>1, <2>2, TableEntry
<1>6. ASSUME o \in DOMAIN LibCrypto PROVE o \in DOMAIN LibTable /\ LibTable[o] = LibCrypto[o]
  <2>1. \A u \in Parts : o \in DOMAIN u => u = LibCrypto
    BY <1>6 DEF Parts, LibBase, LibNet, LibSQLite, LibKV, LibCoding, LibCrypto, LibZip
  <2>2. LibCrypto \in Parts BY DEF Parts
  <2> QED BY <1>0, <1>6, <2>1, <2>2, TableEntry
<1>7. ASSUME o \in DOMAIN LibZip PROVE o \in DOMAIN LibTable /\ LibTable[o] = LibZip[o]
  <2>1. \A u \in Parts : o \in DOMAIN u => u = LibZip
    BY <1>7 DEF Parts, LibBase, LibNet, LibSQLite, LibKV, LibCoding, LibCrypto, LibZip
  <2>2. LibZip \in Parts BY DEF Parts
  <2> QED BY <1>0, <1>7, <2>1, <2>2, TableEntry
<1> QED BY <1>1, <1>2, <1>3, <1>4, <1>5, <1>6, <1>7

(* The calls of a script that take a handle and return a promise. *)
Deferring == {"sqlite_execute", "sqlite_query_do"}

(* What a script function may ask of its arguments, and what it cannot do without. *)
ScriptTypes == (HandleTypes \ {"decoder", "node"}) \cup
  {"str", "str?", "float?", "bytes", "bytes?", "strs?", "list?", "ptr?", "int", "int?"}
Must == HandleTypes \cup {"str", "int", "bytes"}

(* What every script function asks: arguments of these types, those it cannot  *)
(* do without passed on by the library (the two of RSA are the exception), a   *)
(* promise only for the two calls that run a statement, a cache for a coder,   *)
(* and neither JSON nor the life of the engine.                                *)
ScriptEntry(o, e) ==
  /\ \A p \in DOMAIN e.params : e.params[p] \in ScriptTypes
  /\ \A p \in DOMAIN e.params : e.params[p] = "float?" => o = "kv_write_float" /\ p = "v"
  /\ \A p \in DOMAIN e.params :
       e.params[p] \in Must /\ o \notin {"crypto_rsa_encrypt",
                                         "crypto_rsa_decrypt"} => p \in LibTable[o]
  /\ \A p \in DOMAIN e.params : p \in {"mode", "bufferSize", "format"} => e.params[p] = "int"
  /\ o \in Promises /\ (\E p \in DOMAIN e.params : e.params[p] \in HandleTypes) => o \in Deferring
  /\ o \in Deferring => e.params = [conn |-> "db", sql |-> "str"]
  /\ o \notin Readers \cup {"init", "release"}
  /\ e.gives \in Cached => o \in NeedsCaches
  /\ o = "net_http_request" =>
       /\ FormFields \cup {"cFILE", "fileSize"} \subseteq DOMAIN e.params
       /\ \A p \in FormFields : e.params[p] = "strs?"

(* What a script function gives back fits the kind the bridges bind it as. *)
GivesEntry(o, e) ==
  /\ o \in Kinds.STRING => e.gives \in {"string", "bytes", "strings"} \cup HandleTypes
  /\ o \in Kinds.BOOL => e.gives = "bool"
  /\ o \in Kinds.INTEGER => e.gives = "int"
  /\ o \in Kinds.FLOAT => e.gives = "float"
  /\ o \in Kinds.VOID => e.gives = "void"

(* Every function of the library is an entry of that shape: part by part. *)
LEMMA ScriptEntries ==
  ASSUME NEW o \in DOMAIN ScriptTable, o \in DOMAIN LibTable
  PROVE  ScriptEntry(o, ScriptTable[o])
<1> USE DEF Fn, NoParams, ScriptTypes, Must, ScriptEntry, HandleTypes, FormFields,
            Deferring, Promises, Readers, Cached, NeedsCaches
<1>1. ASSUME o \in DOMAIN ScriptBase PROVE ScriptEntry(o, ScriptBase[o])
  BY <1>1, LibEntries DEF ScriptBase, LibBase
<1>2. ASSUME o \in DOMAIN ScriptNet PROVE ScriptEntry(o, ScriptNet[o])
  BY <1>2, LibEntries DEF ScriptNet, LibNet
<1>3. ASSUME o \in DOMAIN ScriptSQLite PROVE ScriptEntry(o, ScriptSQLite[o])
  BY <1>3, LibEntries DEF ScriptSQLite, LibSQLite
<1>4. ASSUME o \in DOMAIN ScriptKVReads PROVE ScriptEntry(o, ScriptKVReads[o])
  BY <1>4, LibEntries DEF ScriptKVReads, LibKV
<1>5. ASSUME o \in DOMAIN ScriptKVKeys PROVE ScriptEntry(o, ScriptKVKeys[o])
  BY <1>5, LibEntries DEF ScriptKVKeys, LibKV
<1>6. ASSUME o \in DOMAIN ScriptCoding PROVE ScriptEntry(o, ScriptCoding[o])
  BY <1>6, LibEntries DEF ScriptCoding, LibCoding
<1>7. ASSUME o \in DOMAIN ScriptAes PROVE ScriptEntry(o, ScriptAes[o])
  BY <1>7, LibEntries DEF ScriptAes, LibCrypto
<1>8. ASSUME o \in DOMAIN ScriptRsa PROVE ScriptEntry(o, ScriptRsa[o])
  BY <1>8, LibEntries DEF ScriptRsa, LibCrypto
<1>9. ASSUME o \in DOMAIN ScriptHash PROVE ScriptEntry(o, ScriptHash[o])
  BY <1>9, LibEntries DEF ScriptHash, LibCrypto
<1>10. ASSUME o \in DOMAIN ScriptZip PROVE ScriptEntry(o, ScriptZip[o])
  BY <1>10, LibEntries DEF ScriptZip, LibZip
<1>11. ASSUME o \in DOMAIN ScriptUnzip PROVE ScriptEntry(o, ScriptUnzip[o])
  BY <1>11, LibEntries DEF ScriptUnzip, LibZip
<1> HIDE DEF Fn, NoParams, ScriptEntry
<1>13. PICK t \in {ScriptBase, ScriptNet, ScriptSQLite, ScriptKVReads, ScriptKVKeys,
                   ScriptCoding, ScriptAes, ScriptRsa, ScriptHash, ScriptZip, ScriptUnzip} :
              o \in DOMAIN t /\ ScriptTable[o] = t[o]
  BY TableAt DEF ScriptTable
<1> QED BY <1>13, <1>1, <1>2, <1>3, <1>4, <1>5, <1>6, <1>7, <1>8, <1>9, <1>10, <1>11

(* Every script function is bound as a kind that fits what it gives back. *)
LEMMA ScriptGives ==
  ASSUME NEW o \in DOMAIN ScriptTable
  PROVE  GivesEntry(o, ScriptTable[o])
<1> USE DEF Fn, NoParams, GivesEntry, HandleTypes, Kinds, LibCoding, LibCrypto
<1>1. ASSUME o \in DOMAIN ScriptBase PROVE GivesEntry(o, ScriptBase[o])
  BY <1>1 DEF ScriptBase
<1>2. ASSUME o \in DOMAIN ScriptNet PROVE GivesEntry(o, ScriptNet[o])
  BY <1>2 DEF ScriptNet
<1>3. ASSUME o \in DOMAIN ScriptSQLite PROVE GivesEntry(o, ScriptSQLite[o])
  BY <1>3 DEF ScriptSQLite
<1>4. ASSUME o \in DOMAIN ScriptKVReads PROVE GivesEntry(o, ScriptKVReads[o])
  BY <1>4 DEF ScriptKVReads
<1>5. ASSUME o \in DOMAIN ScriptKVKeys PROVE GivesEntry(o, ScriptKVKeys[o])
  BY <1>5 DEF ScriptKVKeys
<1>6. ASSUME o \in DOMAIN ScriptCoding PROVE GivesEntry(o, ScriptCoding[o])
  BY <1>6 DEF ScriptCoding
<1>7. ASSUME o \in DOMAIN ScriptAes PROVE GivesEntry(o, ScriptAes[o])
  BY <1>7 DEF ScriptAes
<1>8. ASSUME o \in DOMAIN ScriptRsa PROVE GivesEntry(o, ScriptRsa[o])
  BY <1>8 DEF ScriptRsa
<1>9. ASSUME o \in DOMAIN ScriptHash PROVE GivesEntry(o, ScriptHash[o])
  BY <1>9 DEF ScriptHash
<1>10. ASSUME o \in DOMAIN ScriptZip PROVE GivesEntry(o, ScriptZip[o])
  BY <1>10 DEF ScriptZip
<1>11. ASSUME o \in DOMAIN ScriptUnzip PROVE GivesEntry(o, ScriptUnzip[o])
  BY <1>11 DEF ScriptUnzip
<1> HIDE DEF Fn, NoParams, GivesEntry
<1>13. PICK t \in {ScriptBase, ScriptNet, ScriptSQLite, ScriptKVReads, ScriptKVKeys,
                   ScriptCoding, ScriptAes, ScriptRsa, ScriptHash, ScriptZip, ScriptUnzip} :
              o \in DOMAIN t /\ ScriptTable[o] = t[o]
  BY TableAt DEF ScriptTable
<1> QED BY <1>13, <1>1, <1>2, <1>3, <1>4, <1>5, <1>6, <1>7, <1>8, <1>9, <1>10, <1>11

(* The facade asks for the same handles whichever part of its table is read. *)
LEMMA FacadeEntries == ASSUME NEW o
  PROVE /\ o \in DOMAIN FacadeSQLite => Needs(o) = FacadeSQLite[o]
        /\ o \in DOMAIN FacadeKV => Needs(o) = FacadeKV[o]
        /\ o \in DOMAIN FacadeBytes => Needs(o) = FacadeBytes[o]
        /\ o \in DOMAIN FacadeJson => Needs(o) = FacadeJson[o]
        /\ o \in DOMAIN FacadeZip => Needs(o) = FacadeZip[o]
        /\ o \in DOMAIN FacadeUnzip => Needs(o) = FacadeUnzip[o]
<1> DEFINE Parts == {FacadeNet, FacadeSQLite, FacadeKV, FacadeJson, FacadeZip, FacadeUnzip,
                     FacadeBytes,
         FacadeLua, FacadeJS}
<1>0. FacadeTable = Table(Parts)
  BY DEF FacadeTable
<1> HIDE DEF Parts
<1>1. ASSUME o \in DOMAIN FacadeSQLite PROVE Needs(o) = FacadeSQLite[o]
  <2>1. \A u \in Parts : o \in DOMAIN u => u = FacadeSQLite
    BY <1>1 DEF Parts, FacadeNet, FacadeSQLite, FacadeKV, FacadeJson, FacadeZip,
                FacadeUnzip, FacadeBytes, FacadeLua, FacadeJS
  <2>2. FacadeSQLite \in Parts BY DEF Parts
  <2>3. o \in DOMAIN Table(Parts) /\ Table(Parts)[o] = FacadeSQLite[o] BY <1>1, <2>1, <2>2,
      TableEntry
  <2> QED BY <1>0, <2>3 DEF Needs
<1>2. ASSUME o \in DOMAIN FacadeKV PROVE Needs(o) = FacadeKV[o]
  <2>1. \A u \in Parts : o \in DOMAIN u => u = FacadeKV
    BY <1>2 DEF Parts, FacadeNet, FacadeSQLite, FacadeKV, FacadeJson, FacadeZip,
                FacadeUnzip, FacadeBytes, FacadeLua, FacadeJS
  <2>2. FacadeKV \in Parts BY DEF Parts
  <2>3. o \in DOMAIN Table(Parts) /\ Table(Parts)[o] = FacadeKV[o] BY <1>2, <2>1, <2>2,
      TableEntry
  <2> QED BY <1>0, <2>3 DEF Needs
<1>3. ASSUME o \in DOMAIN FacadeBytes PROVE Needs(o) = FacadeBytes[o]
  <2>1. \A u \in Parts : o \in DOMAIN u => u = FacadeBytes
    BY <1>3 DEF Parts, FacadeNet, FacadeSQLite, FacadeKV, FacadeJson, FacadeZip,
                FacadeUnzip, FacadeBytes, FacadeLua, FacadeJS
  <2>2. FacadeBytes \in Parts BY DEF Parts
  <2>3. o \in DOMAIN Table(Parts) /\ Table(Parts)[o] = FacadeBytes[o] BY <1>3, <2>1, <2>2,
      TableEntry
  <2> QED BY <1>0, <2>3 DEF Needs
<1>4. ASSUME o \in DOMAIN FacadeJson PROVE Needs(o) = FacadeJson[o]
  <2>1. \A u \in Parts : o \in DOMAIN u => u = FacadeJson
    BY <1>4 DEF Parts, FacadeNet, FacadeSQLite, FacadeKV, FacadeJson, FacadeZip,
                FacadeUnzip, FacadeBytes, FacadeLua, FacadeJS
  <2>2. FacadeJson \in Parts BY DEF Parts
  <2>3. o \in DOMAIN Table(Parts) /\ Table(Parts)[o] = FacadeJson[o]
    BY <1>4, <2>1, <2>2, TableEntry
  <2> QED BY <1>0, <2>3 DEF Needs
<1>5. ASSUME o \in DOMAIN FacadeZip PROVE Needs(o) = FacadeZip[o]
  <2>1. \A u \in Parts : o \in DOMAIN u => u = FacadeZip
    BY <1>5 DEF Parts, FacadeNet, FacadeSQLite, FacadeKV, FacadeJson, FacadeZip,
                FacadeUnzip, FacadeBytes, FacadeLua, FacadeJS
  <2>2. FacadeZip \in Parts BY DEF Parts
  <2>3. o \in DOMAIN Table(Parts) /\ Table(Parts)[o] = FacadeZip[o]
    BY <1>5, <2>1, <2>2, TableEntry
  <2> QED BY <1>0, <2>3 DEF Needs
<1>6. ASSUME o \in DOMAIN FacadeUnzip PROVE Needs(o) = FacadeUnzip[o]
  <2>1. \A u \in Parts : o \in DOMAIN u => u = FacadeUnzip
    BY <1>6 DEF Parts, FacadeNet, FacadeSQLite, FacadeKV, FacadeJson, FacadeZip,
                FacadeUnzip, FacadeBytes, FacadeLua, FacadeJS
  <2>2. FacadeUnzip \in Parts BY DEF Parts
  <2>3. o \in DOMAIN Table(Parts) /\ Table(Parts)[o] = FacadeUnzip[o]
    BY <1>6, <2>1, <2>2, TableEntry
  <2> QED BY <1>0, <2>3 DEF Needs
<1> QED BY <1>1, <1>2, <1>3, <1>4, <1>5, <1>6

(* The parts of the C interface. *)
LEMMA CTableAt ==
  ASSUME NEW o \in DOMAIN CTable
  PROVE  \E t \in {CBase, CDevice, CLog, CCoding, CCrypto, CNet, CSQLite, CKV, CJson, CZip,
                   CLua, CJS} :
            o \in DOMAIN t /\ CTable[o] = t[o]
BY TableAt DEF CTable

(* The functions of the C interface that give back a text. *)
CharsOps == {"get_version", "root_path", "device_name", "device_manufacturer",
             "device_model", "device_os_version",
   "coding_case_upper", "coding_case_lower", "coding_hex_bytes2str", "coding_bytes2str",
       "coding_str_trim",
   "coding_str_escape_quotes", "crypto_rsa_gen_key", "net_http_request",
       "sqlite_query_read_column_text",
   "kv_read_string", "json_node_read_name", "json_node_to_str", "json_decoder_read_string",
       "lua_call", "js_call"}

(* The functions of the C interface that give back bytes. *)
BytesOps == {"coding_hex_str2bytes", "coding_str2bytes", "crypto_rand", "crypto_aes_encrypt",
   "crypto_aes_decrypt", "crypto_aes_gcm_encrypt", "crypto_aes_gcm_decrypt",
       "crypto_rsa_encrypt",
   "crypto_rsa_decrypt", "crypto_hash_md5", "crypto_hash_sha1", "crypto_hash_sha256",
   "crypto_base64_encode", "crypto_base64_decode", "z_zip_process_do", "z_unzip_process_do",
   "z_bytes_zip", "z_bytes_unzip"}

(* The functions of the C interface that give back a handle. *)
OpeningOps == {"sqlite_open", "sqlite_query_do", "kv_open", "z_zip_init", "z_unzip_init",
   "json_decoder_init", "json_decoder_read_node", "json_decoder_read_child",
       "json_decoder_read_next"}

(* What a function of the C interface may ask of its arguments. *)
NativeTypes == HandleTypes \cup {"str", "str?", "float?", "bytes", "bytes?", "strs?",
                                 "list?", "file?", "int"}

(* What every C function gives back and asks: a literal only where a text was *)
(* missing or a column is read, no handle that the facade does not ask for    *)
(* (but a node), a cache for a coder and a decoder, and a decoder and a node  *)
(* for the readers of JSON.                                                   *)
NativeEntry(o, e) ==
  /\ e.gives \in HandleTypes \cup {"chars", "bytes", "strings", "num"}
  /\ e.gives = "chars" => o \in CharsOps
  /\ e.gives = "bytes" => o \in BytesOps
  /\ e.gives = "strings" => o = "kv_all_keys"
  /\ e.gives \in HandleTypes => o \in OpeningOps
  /\ o \in {"z_zip_init", "z_unzip_init"} => e.gives \in {"zip", "unzip"}
  /\ e.otherwise = "literal" => o = "sqlite_query_read_column_text" \/ e.guards = {"str"}
  /\ \A p \in DOMAIN e.params : e.params[p] \in NativeTypes
  /\ \A p \in DOMAIN e.params : e.params[p] \in HandleTypes \ {"node"} => p \in Needs(o)
  /\ e.gives \in Cached => o \in NeedsCaches
  /\ o \in Readers => e.params = [decoder |-> "decoder", node |-> "node"]
  /\ \A p \in DOMAIN e.params : p \in {"mode", "bufferSize", "format"} => e.params[p] = "int"
  /\ o = "net_http_request" => "cFILE" \in DOMAIN e.params /\ e.params["cFILE"] = "file?"

(* Every function of the C interface is an entry of that shape: part by part. *)
LEMMA NativeEntries ==
  ASSUME NEW o \in DOMAIN CTable
  PROVE  NativeEntry(o, CTable[o])
<1> USE DEF C, Plain, NoParams, CharsOps, BytesOps, OpeningOps, NativeTypes, NativeEntry,
            HandleTypes, Readers, Cached, NeedsCaches
<1>1. ASSUME o \in DOMAIN CBase PROVE NativeEntry(o, CBase[o])
  BY <1>1 DEF CBase
<1>2. ASSUME o \in DOMAIN CDevice PROVE NativeEntry(o, CDevice[o])
  BY <1>2 DEF CDevice
<1>3. ASSUME o \in DOMAIN CLog PROVE NativeEntry(o, CLog[o])
  BY <1>3 DEF CLog
<1>4. ASSUME o \in DOMAIN CCoding PROVE NativeEntry(o, CCoding[o])
  BY <1>4 DEF CCoding
<1>5. ASSUME o \in DOMAIN CCrypto PROVE NativeEntry(o, CCrypto[o])
  <2>1. ASSUME NEW p \in DOMAIN CCrypto[o].params
        PROVE  /\ CCrypto[o].params[p] \in {"bytes", "bytes?", "int", "str"}
               /\ p \notin {"mode", "bufferSize", "format"}
    <3>1. \/ CCrypto[o].params = [len |-> "int"]
          \/ CCrypto[o].params = [base64 |-> "str", isPublic |-> "int"]
          \/ CCrypto[o].params = [inBytes |-> "bytes"]
          \/ CCrypto[o].params = [inBytes |-> "bytes", keyBytes |-> "bytes"]
          \/ CCrypto[o].params = [inBytes |-> "bytes", noNewLines |-> "int"]
          \/ CCrypto[o].params = [inBytes |-> "bytes", keyBytes |-> "bytes", padding |-> "int"]
          \/ CCrypto[o].params = [inBytes |-> "bytes", keyBytes |-> "bytes",
                 initVectorBytes |-> "bytes", aadBytes |-> "bytes?", tagBits |-> "int"]
      BY <1>5 DEF CCrypto
    <3> QED BY <2>1, <3>1
  <2>2. CASE o = "crypto_rsa_gen_key"
    <3>1. CCrypto[o] = C([base64 |-> "str", isPublic |-> "int"], {"str"}, "literal", "chars")
      BY <2>2 DEF CCrypto
    <3> QED BY <2>1, <2>2, <3>1
  <2>3. CASE o # "crypto_rsa_gen_key"
    <3>1. CCrypto[o].gives = "bytes" /\ CCrypto[o].otherwise = "zero"
      BY <1>5, <2>3 DEF CCrypto
    <3>2. o \in BytesOps /\ o \notin {"z_zip_init", "z_unzip_init", "net_http_request"}
      BY <1>5, <2>3 DEF CCrypto
    <3> QED BY <2>1, <3>1, <3>2
  <2> QED BY <2>2, <2>3
<1>6. ASSUME o \in DOMAIN CNet PROVE NativeEntry(o, CNet[o])
  BY <1>6 DEF CNet
<1>7. ASSUME o \in DOMAIN CSQLite PROVE NativeEntry(o, CSQLite[o])
  BY <1>7, FacadeEntries DEF CSQLite, FacadeSQLite
<1>8. ASSUME o \in DOMAIN CKV PROVE NativeEntry(o, CKV[o])
  <2>1. ASSUME NEW p \in DOMAIN CKV[o].params, CKV[o].params[p] \in HandleTypes \ {"node"}
        PROVE  p \in Needs(o)
    <3>1. o \in DOMAIN FacadeKV /\ p = "conn"
      BY <1>8, <2>1 DEF CKV, FacadeKV
    <3>2. "conn" \in FacadeKV[o]
      BY <1>8, <2>1, <3>1 DEF CKV, FacadeKV
    <3> QED BY <3>1, <3>2, FacadeEntries
  <2>2. /\ CKV[o].gives \in {"num", "chars", "strings", "kv"}
        /\ CKV[o].otherwise = "zero"
        /\ CKV[o].gives = "kv" => o = "kv_open"
        /\ CKV[o].gives = "chars" => o = "kv_read_string"
        /\ CKV[o].gives = "strings" => o = "kv_all_keys"
        /\ o \notin Readers \cup {"z_zip_init", "z_unzip_init", "net_http_request"}
    BY <1>8 DEF CKV
  <2>3. \A p \in DOMAIN CKV[o].params :
          CKV[o].params[p] \in NativeTypes /\ p \notin {"mode", "bufferSize", "format"}
    BY <1>8 DEF CKV
  <2> QED BY <2>1, <2>2, <2>3
<1>9. ASSUME o \in DOMAIN CJson PROVE NativeEntry(o, CJson[o])
  <2>1. ASSUME NEW p \in DOMAIN CJson[o].params, CJson[o].params[p] \in HandleTypes \ {"node"}
        PROVE  p \in Needs(o)
    <3>1. o \in DOMAIN FacadeJson /\ p = "decoder"
      BY <1>9, <2>1 DEF CJson, FacadeJson
    <3>2. "decoder" \in FacadeJson[o]
      BY <3>1 DEF FacadeJson
    <3> QED BY <3>1, <3>2, FacadeEntries
  <2>2. /\ CJson[o].gives \in {"num", "chars", "decoder", "node"}
        /\ CJson[o].otherwise = "zero"
        /\ CJson[o].gives = "decoder" => o = "json_decoder_init"
        /\ CJson[o].gives = "node" => o \in OpeningOps
        /\ CJson[o].gives = "chars" => o \in CharsOps
        /\ o \in Readers => CJson[o].params = [decoder |-> "decoder", node |-> "node"]
        /\ o \notin {"z_zip_init", "z_unzip_init", "net_http_request"}
    BY <1>9 DEF CJson
  <2>3. \A p \in DOMAIN CJson[o].params :
          CJson[o].params[p] \in NativeTypes /\ p \notin {"mode", "bufferSize", "format"}
    BY <1>9 DEF CJson
  <2> QED BY <2>1, <2>2, <2>3
<1>10. ASSUME o \in DOMAIN CZip PROVE NativeEntry(o, CZip[o])
  <2>1. ASSUME NEW p \in DOMAIN CZip[o].params, CZip[o].params[p] \in HandleTypes \ {"node"}
        PROVE  p \in Needs(o)
    <3>1. \/ o \in DOMAIN FacadeZip /\ p = "zip" /\ FacadeZip[o] = {"zip"}
          \/ o \in DOMAIN FacadeUnzip /\ p = "unzip" /\ FacadeUnzip[o] = {"unzip"}
      BY <1>10, <2>1 DEF CZip, FacadeZip, FacadeUnzip
    <3> QED BY <3>1, FacadeEntries
  <2>2. /\ CZip[o].gives \in {"num", "bytes", "zip", "unzip"}
        /\ CZip[o].otherwise = "zero"
        /\ CZip[o].gives \in {"zip", "unzip"} <=> o \in {"z_zip_init", "z_unzip_init"}
        /\ CZip[o].gives = "bytes" => o \in BytesOps
        /\ o \notin Readers \cup {"net_http_request"}
    BY <1>10 DEF CZip
  <2>3. \A p \in DOMAIN CZip[o].params :
          /\ CZip[o].params[p] \in NativeTypes
          /\ p \in {"mode", "bufferSize", "format"} => CZip[o].params[p] = "int"
    BY <1>10 DEF CZip
  <2> QED BY <2>1, <2>2, <2>3
<1>11. ASSUME o \in DOMAIN CLua PROVE NativeEntry(o, CLua[o])
  BY <1>11 DEF CLua
<1>12. ASSUME o \in DOMAIN CJS PROVE NativeEntry(o, CJS[o])
  BY <1>12 DEF CJS
<1> HIDE DEF C, Plain, NoParams, CharsOps, NativeEntry
<1>13. PICK t \in {CBase, CDevice, CLog, CCoding, CCrypto, CNet, CSQLite, CKV, CJson, CZip,
                   CLua, CJS} : o \in DOMAIN t /\ CTable[o] = t[o]
  BY CTableAt
<1> QED BY <1>13, <1>1, <1>2, <1>3, <1>4, <1>5, <1>6, <1>7, <1>8, <1>9, <1>10, <1>11, <1>12

(* Every function of the library is one of ScriptAPI and is bound as some kind. *)
LEMMA LibKnown ==
  ASSUME NEW o \in DOMAIN LibTable
  PROVE  o \in DOMAIN ScriptTable /\ \E k \in DOMAIN Kinds : o \in Kinds[k]
<1>1. PICK t \in {LibBase, LibNet, LibSQLite, LibKV, LibCoding, LibCrypto,
                   LibZip} : o \in DOMAIN t
  BY TableAt DEF LibTable
<1>2. o \in Kinds.STRING \cup Kinds.BOOL \cup Kinds.INTEGER \cup Kinds.FLOAT \cup Kinds.VOID
  BY <1>1 DEF Kinds, LibBase, LibNet, LibSQLite, LibKV, LibCoding, LibCrypto, LibZip
<1>3. \E k \in DOMAIN Kinds : o \in Kinds[k]
  BY <1>2 DEF Kinds
<1>4. \E u \in {ScriptBase, ScriptNet, ScriptSQLite, ScriptKVReads, ScriptKVKeys, ScriptCoding,
                ScriptAes, ScriptRsa, ScriptHash, ScriptZip, ScriptUnzip} : o \in DOMAIN u
  <2>1. CASE t = LibBase BY <1>1, <2>1 DEF LibBase, ScriptBase
  <2>2. CASE t = LibNet BY <1>1, <2>2 DEF LibNet, ScriptNet
  <2>3. CASE t = LibSQLite BY <1>1, <2>3 DEF LibSQLite, ScriptSQLite
  <2>4. CASE t = LibKV BY <1>1, <2>4 DEF LibKV, ScriptKVReads, ScriptKVKeys
  <2>5. CASE t = LibCoding BY <1>1, <2>5 DEF LibCoding, ScriptCoding
  <2>6. CASE t = LibCrypto BY <1>1, <2>6 DEF LibCrypto, ScriptAes, ScriptRsa, ScriptHash
  <2>7. CASE t = LibZip BY <1>1, <2>7 DEF LibZip, ScriptZip, ScriptUnzip
  <2> QED BY <1>1, <2>1, <2>2, <2>3, <2>4, <2>5, <2>6, <2>7
<1> QED BY <1>3, <1>4, TableDomain DEF ScriptTable

(* JNI gives a text, bytes and a list of texts back with one helper each. *)
JniEntry(o, h) ==
  /\ o \in CharsOps => h = "boxJString"
  /\ o \in BytesOps => h = "moveToJByteArray"
  /\ o = "kv_all_keys" => h = "moveToJStringArray"

(* Every function of DynXXJNI.cxx, part by part. *)
LEMMA JniEntries ==
  ASSUME NEW o \in DOMAIN JniTable
  PROVE  JniEntry(o, JniTable[o])
<1> USE DEF JniEntry, CharsOps, BytesOps
<1>1. ASSUME o \in DOMAIN JniBase PROVE JniEntry(o, JniBase[o])
  BY <1>1, AsAt DEF JniBase
<1>2. ASSUME o \in DOMAIN JniLog PROVE JniEntry(o, JniLog[o])
  BY <1>2, AsAt DEF JniLog
<1>3. ASSUME o \in DOMAIN JniNet PROVE JniEntry(o, JniNet[o])
  BY <1>3, AsAt DEF JniNet
<1>4. ASSUME o \in DOMAIN JniScripts PROVE JniEntry(o, JniScripts[o])
  BY <1>4, AsAt DEF JniScripts
<1>5. ASSUME o \in DOMAIN JniSQLite PROVE JniEntry(o, JniSQLite[o])
  BY <1>5, AsAt DEF JniSQLite
<1>6. ASSUME o \in DOMAIN JniKV PROVE JniEntry(o, JniKV[o])
  BY <1>6, AsAt DEF JniKV
<1>7. ASSUME o \in DOMAIN JniDevice PROVE JniEntry(o, JniDevice[o])
  BY <1>7, AsAt DEF JniDevice
<1>8. ASSUME o \in DOMAIN JniCoding PROVE JniEntry(o, JniCoding[o])
  BY <1>8, AsAt DEF JniCoding
<1>9. ASSUME o \in DOMAIN JniCrypto PROVE JniEntry(o, JniCrypto[o])
  BY <1>9, AsAt DEF JniCrypto
<1>10. ASSUME o \in DOMAIN JniJson PROVE JniEntry(o, JniJson[o])
  BY <1>10, AsAt DEF JniJson
<1>11. ASSUME o \in DOMAIN JniZip PROVE JniEntry(o, JniZip[o])
  BY <1>11, AsAt DEF JniZip
<1> HIDE DEF JniEntry
<1>13. PICK t \in {JniBase, JniLog, JniNet, JniScripts, JniSQLite, JniKV, JniDevice,
                  JniCoding, JniCrypto, JniJson, JniZip} : o \in DOMAIN t /\ JniTable[o] = t[o]
  BY TableAt DEF JniTable
<1> QED BY <1>13, <1>1, <1>2, <1>3, <1>4, <1>5, <1>6, <1>7, <1>8, <1>9, <1>10, <1>11

(* N-API too; a handle that is opened and given back as an int is that of a *)
(* stream.                                                                  *)
NapiEntry(o, h) ==
  /\ o \in BytesOps => h = "FromByteArray"
  /\ o = "kv_all_keys" => h = "FromCharsArray"
  /\ o \in CharsOps => h = "FromChars"
  /\ o \in OpeningOps /\ h = "FromInt" => o \in {"z_zip_init", "z_unzip_init"}

(* Every function of napi_init.cxx, part by part. *)
LEMMA NapiEntries ==
  ASSUME NEW o \in DOMAIN NapiTable
  PROVE  NapiEntry(o, NapiTable[o])
<1> USE DEF NapiEntry, OpeningOps, BytesOps, CharsOps
<1>1. ASSUME o \in DOMAIN NapiBase PROVE NapiEntry(o, NapiBase[o])
  BY <1>1, AsAt DEF NapiBase
<1>2. ASSUME o \in DOMAIN NapiLog PROVE NapiEntry(o, NapiLog[o])
  BY <1>2, AsAt DEF NapiLog
<1>3. ASSUME o \in DOMAIN NapiNet PROVE NapiEntry(o, NapiNet[o])
  BY <1>3, AsAt DEF NapiNet
<1>4. ASSUME o \in DOMAIN NapiSQLite PROVE NapiEntry(o, NapiSQLite[o])
  BY <1>4, AsAt DEF NapiSQLite
<1>5. ASSUME o \in DOMAIN NapiKV PROVE NapiEntry(o, NapiKV[o])
  BY <1>5, AsAt DEF NapiKV
<1>6. ASSUME o \in DOMAIN NapiDevice PROVE NapiEntry(o, NapiDevice[o])
  BY <1>6, AsAt DEF NapiDevice
<1>7. ASSUME o \in DOMAIN NapiJson PROVE NapiEntry(o, NapiJson[o])
  BY <1>7, AsAt DEF NapiJson
<1>8. ASSUME o \in DOMAIN NapiCrypto PROVE NapiEntry(o, NapiCrypto[o])
  BY <1>8, AsAt DEF NapiCrypto
<1>9. ASSUME o \in DOMAIN NapiRsaHash PROVE NapiEntry(o, NapiRsaHash[o])
  BY <1>9, AsAt DEF NapiRsaHash
<1>10. ASSUME o \in DOMAIN NapiZip PROVE NapiEntry(o, NapiZip[o])
  BY <1>10, AsAt DEF NapiZip
<1>11. ASSUME o \in DOMAIN NapiScripts PROVE NapiEntry(o, NapiScripts[o])
  BY <1>11, AsAt DEF NapiScripts
<1> HIDE DEF NapiEntry
<1>13. PICK t \in {NapiBase, NapiLog, NapiNet, NapiSQLite, NapiKV, NapiDevice, NapiJson,
                  NapiCrypto, NapiRsaHash, NapiZip,
                      NapiScripts} : o \in DOMAIN t /\ NapiTable[o] = t[o]
  BY TableAt DEF NapiTable
<1> QED BY <1>13, <1>1, <1>2, <1>3, <1>4, <1>5, <1>6, <1>7, <1>8, <1>9, <1>10, <1>11

(* Both platforms bind functions of the C interface only. *)
LEMMA NativeKnown ==
  ASSUME NEW o \in DOMAIN JniTable \cup DOMAIN NapiTable
  PROVE  o \in DOMAIN CTable
<1> DEFINE Parts == {CBase, CDevice, CLog, CCoding, CCrypto, CNet, CSQLite, CKV, CJson,
                     CZip, CLua, CJS}
<1>1. ASSUME o \in DOMAIN JniTable PROVE \E t \in Parts : o \in DOMAIN t
  <2>1. PICK t \in {JniBase, JniLog, JniNet, JniScripts, JniSQLite, JniKV,
                    JniDevice, JniCoding, JniCrypto, JniJson, JniZip} : o \in DOMAIN t
    BY <1>1, TableAt DEF JniTable
  <2>2. CASE t = JniBase BY <2>1, <2>2 DEF JniBase, CBase, As
  <2>3. CASE t = JniLog BY <2>1, <2>3 DEF JniLog, CLog, As
  <2>4. CASE t = JniNet BY <2>1, <2>4 DEF JniNet, CNet, As
  <2>5. CASE t = JniScripts BY <2>1, <2>5 DEF JniScripts, CLua, CJS, As
  <2>6. CASE t = JniSQLite BY <2>1, <2>6 DEF JniSQLite, CSQLite, As
  <2>7. CASE t = JniKV BY <2>1, <2>7 DEF JniKV, CKV, As
  <2>8. CASE t = JniDevice BY <2>1, <2>8 DEF JniDevice, CDevice, As
  <2>9. CASE t = JniCoding BY <2>1, <2>9 DEF JniCoding, CCoding, As
  <2>10. CASE t = JniCrypto BY <2>1, <2>10 DEF JniCrypto, CCrypto, As
  <2>11. CASE t = JniJson BY <2>1, <2>11 DEF JniJson, CJson, As
  <2>12. CASE t = JniZip BY <2>1, <2>12 DEF JniZip, CZip, As
  <2> QED BY <2>1, <2>2, <2>3, <2>4, <2>5, <2>6, <2>7, <2>8, <2>9, <2>10, <2>11, <2>12
<1>2. ASSUME o \in DOMAIN NapiTable PROVE \E t \in Parts : o \in DOMAIN t
  <2>1. PICK t \in {NapiBase, NapiLog, NapiNet, NapiSQLite, NapiKV, NapiDevice,
                    NapiJson, NapiCrypto, NapiRsaHash, NapiZip, NapiScripts} : o \in DOMAIN t
    BY <1>2, TableAt DEF NapiTable
  <2>2. CASE t = NapiBase BY <2>1, <2>2 DEF NapiBase, CBase, As
  <2>3. CASE t = NapiLog BY <2>1, <2>3 DEF NapiLog, CLog, As
  <2>4. CASE t = NapiNet BY <2>1, <2>4 DEF NapiNet, CNet, As
  <2>5. CASE t = NapiSQLite BY <2>1, <2>5 DEF NapiSQLite, CSQLite, As
  <2>6. CASE t = NapiKV BY <2>1, <2>6 DEF NapiKV, CKV, As
  <2>7. CASE t = NapiDevice BY <2>1, <2>7 DEF NapiDevice, CDevice, As
  <2>8. CASE t = NapiJson BY <2>1, <2>8 DEF NapiJson, CJson, As
  <2>9. CASE t = NapiCrypto BY <2>1, <2>9 DEF NapiCrypto, CCrypto, CCoding, As
  <2>10. CASE t = NapiRsaHash BY <2>1, <2>10 DEF NapiRsaHash, CCrypto, As
  <2>11. CASE t = NapiZip BY <2>1, <2>11 DEF NapiZip, CZip, As
  <2>12. CASE t = NapiScripts BY <2>1, <2>12 DEF NapiScripts, CLua, CJS, As
  <2> QED BY <2>1, <2>2, <2>3, <2>4, <2>5, <2>6, <2>7, <2>8, <2>9, <2>10, <2>11, <2>12
<1> QED BY <1>1, <1>2, TableDomain DEF CTable

-----------------------------------------------------------------------------
(* A handle cut to its lower half is a stream's, kept by an N-API program; no   *)
(* coder and no decoder outlives the caches; a node that is live is one of a    *)
(* document.                                                                    *)
HeldInv ==
  /\ front \in {"c", "jni", "napi", "js", "lua"}
  /\ engine \in {"off", "caches", "on"}
  /\ held \in [HandleTypes -> {"none", "live", "failed", "half", "stale", "broken"}]
  /\ \A t \in HandleTypes : held[t] = "half" => front = "napi" /\ t \in {"zip", "unzip"}
  /\ \A t \in HandleTypes : held[t] = "broken" => t = "decoder"
  /\ engine = "off" => \A t \in Cached : held[t] \notin {"live", "broken"}
  /\ held["node"] = "live" => item \in Items

(* A promise that waits is a script's and keeps a connection it was given. *)
PendInv ==
  /\ pend \in [op : Deferring \cup {"none"}, conn : {"none", "live", "failed", "stale"}]
  /\ pend # NoPend =>
       front = "js" /\ pend.op \in Deferring /\ pend.conn \in {"live", "failed", "stale"}

(* The arguments that a program can pass for a parameter of a type. *)
Allowed(type, v) ==
  /\ type \in HandleTypes => v \in {"live", "failed", "half", "stale", "broken"}
  /\ v = "half" => front = "napi" /\ type \in {"zip", "unzip"}
  /\ v = "broken" => type = "decoder"
  /\ type \in {"str", "str?"} => v \in {"text", "nothing", "missing"}
  /\ type = "str" /\ v = "missing" => front = "c"
  /\ type = "float?" => v \in {"float", "int"}
  /\ type \in {"bytes", "bytes?", "strs?", "list?"} => v \in {"list", "emptyList"}
  /\ type \in {"int", "int?"} => v \in {"int", "big", "zero", "missing"}
  /\ type = "ptr?" => v = "missing"

(* The call under way: a function of the front, with an argument for each parameter. *)
CallInv ==
  at # "idle" =>
    /\ op \in Ops
    /\ DOMAIN args = DOMAIN Params(op)
    /\ \A p \in DOMAIN Params(op) : Allowed(Params(op)[p], args[p])
    /\ \A p \in DOMAIN Params(op) :
         Params(op)[p] = "int" /\ args[p] = "missing" => LeftOut(front, op, p)

(* The handles of a call that has begun are those that the caller holds. *)
PassedInv ==
  at = "called" =>
    \A p \in DOMAIN Params(op) :
      /\ Params(op)[p] \in Cached /\ args[p] \in {"live", "broken"} => engine # "off"
      /\ Params(op)[p] = "node" /\ args[p] = "live" => item \in Items

(* The inductive invariant of the calls. *)
CallsInv == HeldInv /\ PendInv /\ CallInv /\ PassedInv

(* What the tables say of a function of the front in use. *)
LEMMA OpsKnown ==
  ASSUME HeldInv, NEW o \in Ops
  PROVE  /\ Scripted => /\ o \in DOMAIN LibTable
                        /\ Params(o) = ScriptTable[o].params /\ Gives(o) = ScriptTable[o].gives
                        /\ ScriptEntry(o, ScriptTable[o]) /\ GivesEntry(o, ScriptTable[o])
         /\ ~Scripted => /\ o \in DOMAIN CTable
                         /\ Params(o) = CTable[o].params /\ Gives(o) = CTable[o].gives
                         /\ NativeEntry(o, CTable[o])
         /\ front = "jni" => JniEntry(o, JniTable[o])
         /\ front = "napi" => NapiEntry(o, NapiTable[o])
<1>1. CASE Scripted
  <2>1. o \in DOMAIN LibTable
    BY <1>1 DEF Ops, Scripted
  <2>2. o \in DOMAIN ScriptTable
    BY <2>1, LibKnown
  <2>3. ScriptEntry(o, ScriptTable[o]) /\ GivesEntry(o, ScriptTable[o])
    BY <2>1, <2>2, ScriptEntries, ScriptGives
  <2> QED BY <1>1, <2>1, <2>3 DEF Params, Gives, Scripted
<1>2. CASE ~Scripted
  <2>1. o \in DOMAIN CTable
    BY <1>2, NativeKnown DEF Ops, Scripted, HeldInv
  <2>2. NativeEntry(o, CTable[o])
    BY <2>1, NativeEntries
  <2>3. front = "jni" => JniEntry(o, JniTable[o])
    BY JniEntries DEF Ops
  <2>4. front = "napi" => NapiEntry(o, NapiTable[o])
    BY NapiEntries DEF Ops
  <2> QED BY <1>2, <2>1, <2>2, <2>3, <2>4 DEF Params, Gives
<1> QED BY <1>1, <1>2

(* What a program may pass fits the parameters of the function. *)
LEMMA Arguments ==
  ASSUME HeldInv, NEW o \in Ops, MayCall(o), NEW a \in ArgsOf(o)
  PROVE  /\ DOMAIN a = DOMAIN Params(o)
         /\ \A p \in DOMAIN Params(o) : Allowed(Params(o)[p], a[p])
         /\ \A p \in DOMAIN Params(o) :
              Params(o)[p] = "int" /\ a[p] = "missing" => LeftOut(front, o, p)
         /\ \A p \in DOMAIN Params(o) : Params(o)[p] \in HandleTypes => a[p] = held[Params(o)[p]]
<1> DEFINE usual == [p \in DOMAIN Params(o) |-> Usual(Params(o)[p])]
<1>1. ASSUME NEW p \in DOMAIN Params(o)
      PROVE  Allowed(Params(o)[p], Usual(Params(o)[p]))
  <2>1. CASE Params(o)[p] \in HandleTypes
    <3>1. held[Params(o)[p]] # "none"
      BY <1>1, <2>1 DEF MayCall, TypesIn
    <3>2. Usual(Params(o)[p]) = held[Params(o)[p]]
      BY <2>1 DEF Usual, HandleTypes
    <3> QED BY <2>1, <3>1, <3>2 DEF HeldInv, Allowed, HandleTypes
  <2>2. CASE Params(o)[p] \notin HandleTypes
    <3>1. Usual(Params(o)[p]) =
            CASE Params(o)[p] \in {"str", "str?"} -> "text"
              [] Params(o)[p] = "float?" -> "float"
              [] Params(o)[p] \in {"bytes", "bytes?", "strs?", "list?"} -> "list"
              [] Params(o)[p] \in {"ptr?", "file?"} -> "missing"
              [] OTHER -> "int"
      BY <2>2 DEF Usual, HandleTypes
    <3> QED BY <2>2, <3>1 DEF Allowed
  <2> QED BY <2>1, <2>2
<1>2. ASSUME NEW p \in DOMAIN Params(o), NEW v \in Unusual(o, p)
      PROVE  Allowed(Params(o)[p], v)
  BY <1>2 DEF Unusual, Allowed, HandleTypes
<1>3. a = usual \/ \E p \in DOMAIN Params(o) : \E v \in Unusual(o,
    p) : a = [usual EXCEPT ![p] = v]
  BY DEF ArgsOf
<1>4. ASSUME NEW p \in DOMAIN Params(o), Params(o)[p] = "int"
      PROVE  Usual(Params(o)[p]) # "missing"
  BY <1>4 DEF Usual, HandleTypes
<1>5. ASSUME NEW p \in DOMAIN Params(o), Params(o)[p] = "int", "missing" \in Unusual(o, p)
      PROVE  LeftOut(front, o, p)
  BY <1>5 DEF Unusual
<1>6. ASSUME NEW p \in DOMAIN Params(o), Params(o)[p] \in HandleTypes
      PROVE  Usual(Params(o)[p]) = held[Params(o)[p]] /\ Unusual(o, p) = {}
  BY <1>6 DEF Usual, Unusual, HandleTypes
<1>7. \A p \in DOMAIN Params(o) : Params(o)[p] \in HandleTypes => a[p] = held[Params(o)[p]]
  BY <1>3, <1>6
<1> QED BY <1>1, <1>2, <1>3, <1>4, <1>5, <1>7

(* The invariant holds before the first call. *)
LEMMA CallsInit == Init => CallsInv
<1> SUFFICES ASSUME Init PROVE CallsInv
  OBVIOUS
<1>1. HeldInv
  BY BindingsAssumption DEF Init, HeldInv, NoRoot, BindingsAssumption, HandleTypes, Cached
<1>2. PendInv
  BY DEF Init, PendInv, NoPend
<1>3. CallInv /\ PassedInv
  BY DEF Init, CallInv, PassedInv
<1> QED BY <1>1, <1>2, <1>3 DEF CallsInv

(* Only an N-API program that opens a stream sees half a handle. *)
LEMMA HalfHandle ==
  ASSUME HeldInv, op \in Ops, NEW what, SeesOf(what) = "half"
  PROVE  front = "napi" /\ op \in {"z_zip_init", "z_unzip_init"} /\ Gives(op) \in {"zip",
      "unzip"}
<1>1. front = "napi"
  BY DEF SeesOf
<1>2. NapiTable[op] = "FromInt" /\ Gives(op) \in HandleTypes
  BY <1>1 DEF SeesOf, Sees
<1>3. Gives(op) = CTable[op].gives /\ NativeEntry(op, CTable[op]) /\ NapiEntry(op,
    NapiTable[op])
  BY <1>1, OpsKnown DEF Scripted
<1>4. op \in OpeningOps
  BY <1>2, <1>3 DEF NativeEntry
<1>5. op \in {"z_zip_init", "z_unzip_init"}
  BY <1>2, <1>3, <1>4 DEF NapiEntry
<1> QED BY <1>1, <1>3, <1>5 DEF NativeEntry

(* What is lost with the engine: handles become stale, and none becomes live. *)
LEMMA LostHeld ==
  ASSUME HeldInv, NEW types \in SUBSET HandleTypes
  PROVE  /\ Lost(types) \in [HandleTypes -> {"none", "live", "failed", "half", "stale", "broken"}]
         /\ \A t \in HandleTypes : Lost(types)[t] \in {held[t], "stale"}
         /\ \A t \in types : Lost(types)[t] \notin {"live", "broken"}
BY DEF Lost, HeldInv

(* What the caller keeps after a call stays within HeldInv, and a handle that *)
(* is live afterwards was given by the call or was live before.               *)
LEMMA KeptHeld ==
  ASSUME HeldInv, op \in Ops, NEW what, NEW handle \in Given(what) \cup {"failed"}
  PROVE  /\ Kept(handle) \in [HandleTypes -> {"none", "live", "failed", "half", "stale", "broken"}]
         /\ \A t \in HandleTypes :
              /\ Kept(handle)[t] = "half" => front = "napi" /\ t \in {"zip", "unzip"}
              /\ Kept(handle)[t] = "broken" => t = "decoder"
              /\ Kept(handle)[t] \in {"live", "broken"} =>
                   \/ Gives(op) = t /\ handle # "failed"
                   \/ Gives(op) # t /\ Kept(handle)[t] = held[t] /\ op # "release"
<1>1. CASE Gives(op) \in HandleTypes
  <2>1. Kept(handle) = [held EXCEPT ![Gives(op)] = handle]
    BY <1>1 DEF Kept
  <2>2. ASSUME SeesOf(what) = "half" PROVE front = "napi" /\ Gives(op) \in {"zip", "unzip"}
    BY <2>2, HalfHandle
  <2>3. /\ handle \in {"failed", "half", "live", "broken"}
        /\ handle = "half" => SeesOf(what) = "half"
        /\ handle = "broken" => Gives(op) = "decoder"
    BY DEF Given
  <2>4. op # "release"
    <3>1. CASE Scripted BY <3>1, OpsKnown DEF ScriptEntry
    <3>2. CASE ~Scripted BY <1>1, <3>2, OpsKnown DEF NativeEntry, OpeningOps
    <3> QED BY <3>1, <3>2
  <2> QED BY <1>1, <2>1, <2>2, <2>3, <2>4 DEF HeldInv
<1>2. CASE Gives(op) \notin HandleTypes /\ op \in {"init", "release"}
  <2>1. Kept(handle) = IF op = "init" THEN LostByInit ELSE Lost(HandleTypes)
    BY <1>2 DEF Kept
  <2>2. LostByInit = Lost(Cached \cup {"node"}) /\ Cached \cup {"node"} \subseteq HandleTypes
    BY DEF LostByInit, Cached, HandleTypes
  <2>3. CASE op = "init"
    BY <1>2, <2>1, <2>2, <2>3, LostHeld DEF HeldInv
  <2>4. CASE op = "release"
    BY <1>2, <2>1, <2>4, LostHeld DEF HeldInv
  <2> QED BY <1>2, <2>3, <2>4
<1>3. CASE Gives(op) \notin HandleTypes /\ op \notin {"init", "release"}
  <2>1. Kept(handle) = [t \in HandleTypes |-> IF t \in Released THEN NoRoot[t] ELSE held[t]]
    BY <1>3 DEF Kept
  <2>2. \A t \in HandleTypes : NoRoot[t] \in {"none", "failed"}
    BY DEF NoRoot
  <2> QED BY <1>3, <2>1, <2>2 DEF HeldInv
<1> QED BY <1>1, <1>2, <1>3

(* A promise keeps what it was given, or loses it. *)
LEMMA PendAfterStep ==
  ASSUME PendInv, NEW kept, pend' = PendAfter(kept), front' = front
  PROVE  PendInv'
<1>1. CASE pend' = pend
  BY <1>1 DEF PendInv
<1>2. CASE pend.conn = "live" /\ pend' = [pend EXCEPT !.conn = "stale"]
  <2>1. pend # NoPend
    BY <1>2 DEF NoPend
  <2>2. pend'.op = pend.op /\ pend'.conn = "stale"
    BY <1>2 DEF PendInv
  <2>3. pend' \in [op : Deferring \cup {"none"}, conn : {"none", "live", "failed", "stale"}]
    BY <1>2 DEF PendInv
  <2> QED BY <2>1, <2>2, <2>3 DEF PendInv
<1> QED BY <1>1, <1>2 DEF PendAfter

(* Where there are no caches, a call gives back no coder and no decoder. *)
LEMMA NoCachesNoHandle ==
  ASSUME HeldInv, op \in Ops, engine = "off", Gives(op) \in Cached,
         NEW what \in Results, NEW handle \in Given(what)
  PROVE  handle = "failed"
<1>1. op \in NeedsCaches
  <2>1. CASE Scripted BY <2>1, OpsKnown DEF ScriptEntry
  <2>2. CASE ~Scripted BY <2>2, OpsKnown DEF NativeEntry
  <2> QED BY <2>1, <2>2
<1>2. Results = {"nothing"}
  BY <1>1 DEF Results, Unready
<1> QED BY <1>2 DEF Given

(* An answer leaves the handles as they should be. *)
LEMMA AnswerHeld ==
  ASSUME HeldInv, CallInv, Answer
  PROVE  HeldInv'
<1>1. op \in Ops /\ front' = front
  BY DEF Answer, CallInv
<1>2. PICK what \in Results : /\ \E handle \in Given(what) : held' = Kept(handle)
                              /\ engine' = EngineAfter(what)
  BY DEF Answer
<1>3. PICK handle \in Given(what) : held' = Kept(handle)
  BY <1>2
<1>4. /\ held' \in [HandleTypes -> {"none", "live", "failed", "half", "stale", "broken"}]
      /\ \A t \in HandleTypes :
           /\ held'[t] = "half" => front = "napi" /\ t \in {"zip", "unzip"}
           /\ held'[t] = "broken" => t = "decoder"
           /\ held'[t] \in {"live", "broken"} =>
                \/ Gives(op) = t /\ handle # "failed"
                \/ Gives(op) # t /\ held'[t] = held[t] /\ op # "release"
  BY <1>1, <1>3, KeptHeld
<1>5. engine' \in {"off", "caches", "on"} /\ (engine' = "off" => op = "release" \/ engine = "off")
  BY <1>2 DEF EngineAfter, HeldInv
<1>6. ASSUME engine' = "off", NEW t \in Cached PROVE held'[t] \notin {"live", "broken"}
  <2>1. t \in HandleTypes
    BY <1>6 DEF Cached, HandleTypes
  <2>2. CASE Gives(op) = t
    <3>1. op # "release"
      <4>1. CASE Scripted BY <1>1, <4>1, OpsKnown DEF ScriptEntry
      <4>2. CASE ~Scripted BY <1>1, <2>1, <2>2, <4>2, OpsKnown DEF NativeEntry, OpeningOps
      <4> QED BY <4>1, <4>2
    <3>2. handle = "failed"
      BY <1>1, <1>2, <1>3, <1>5, <1>6, <2>2, <3>1, NoCachesNoHandle
    <3> QED BY <1>4, <2>1, <2>2, <3>2
  <2>3. CASE Gives(op) # t
    BY <1>4, <1>5, <1>6, <2>1, <2>3 DEF HeldInv
  <2> QED BY <2>2, <2>3
<1>7. ASSUME held'["node"] = "live" PROVE item' \in Items
  <2>1. item' \in IF Gives(op) = "node" THEN Found ELSE {item}
    BY <1>7 DEF Answer
  <2>2. CASE Gives(op) = "node"
    BY <2>1, <2>2 DEF Found
  <2>3. CASE Gives(op) # "node"
    BY <1>4, <1>7, <2>1, <2>3 DEF HeldInv, HandleTypes
  <2> QED BY <2>2, <2>3
<1> QED BY <1>1, <1>4, <1>5, <1>6, <1>7 DEF HeldInv

(* So does a refusal, which gives nothing. *)
LEMMA RefuseHeld ==
  ASSUME HeldInv, CallInv, Refuse
  PROVE  HeldInv'
<1>1. op \in Ops /\ front' = front /\ engine' = engine /\ held' = Kept("failed")
  BY DEF Refuse, CallInv
<1>2. /\ held' \in [HandleTypes -> {"none", "live", "failed", "half", "stale", "broken"}]
      /\ \A t \in HandleTypes :
           /\ held'[t] = "half" => front = "napi" /\ t \in {"zip", "unzip"}
           /\ held'[t] = "broken" => t = "decoder"
           /\ held'[t] \in {"live", "broken"} => held'[t] = held[t]
  BY <1>1, KeptHeld
<1>3. held'["node"] = "live" => item' = item /\ held["node"] = "live"
  BY <1>2 DEF Refuse, HandleTypes
<1>4. engine' = "off" => \A t \in Cached : held'[t] \notin {"live", "broken"}
  BY <1>1, <1>2 DEF HeldInv, Cached, HandleTypes
<1> QED BY <1>1, <1>2, <1>3, <1>4 DEF HeldInv

(* And the host, which only takes handles away. *)
LEMMA HostHeld ==
  ASSUME HeldInv, Host
  PROVE  HeldInv'
<1>1. Cached \cup {"node"} \subseteq HandleTypes
  BY DEF Cached, HandleTypes
<1>2. \/ engine' = "off" /\ held' = Lost(HandleTypes)
      \/ engine' \in {"caches", "on"} /\ held' = Lost(Cached \cup {"node"})
  BY DEF Host, LostByInit
<1>3. /\ held' \in [HandleTypes -> {"none", "live", "failed", "half", "stale", "broken"}]
      /\ \A t \in HandleTypes : held'[t] \in {held[t], "stale"}
      /\ engine' = "off" => \A t \in HandleTypes : held'[t] \notin {"live", "broken"}
  BY <1>1, <1>2, LostHeld
<1>4. front' = front /\ item' = item
  BY DEF Host
<1> QED BY <1>1, <1>2, <1>3, <1>4 DEF HeldInv, HandleTypes

(* Every step keeps the invariant: a call begins with the arguments of its      *)
(* function, a promise keeps a connection of its front, and an answer keeps the *)
(* handles apart.                                                               *)
LEMMA CallsStep == CallsInv /\ [Next]_vars => CallsInv'
<1> SUFFICES ASSUME CallsInv, [Next]_vars PROVE CallsInv'
  OBVIOUS
<1>0. HeldInv /\ PendInv /\ CallInv /\ PassedInv
  BY DEF CallsInv
<1>1. ASSUME UNCHANGED <<front, engine, held, item>> PROVE HeldInv'
  BY <1>0, <1>1 DEF HeldInv
<1>2. ASSUME front' = front, pend' = pend PROVE PendInv'
  BY <1>0, <1>2 DEF PendInv
<1>3. ASSUME front' = front, op' = op, args' = args, at # "idle" PROVE CallInv'
  BY <1>0, <1>3 DEF CallInv, Ops, Params, Scripted, Allowed
<1>4. ASSUME at' = "idle" PROVE CallInv'
  BY <1>4 DEF CallInv
<1>5. ASSUME at' # "called" PROVE PassedInv'
  BY <1>5 DEF PassedInv
<1>6. ASSUME front' = front, NEW o \in Ops, op' = o, DOMAIN args' = DOMAIN Params(o),
             \A p \in DOMAIN Params(o) : Allowed(Params(o)[p], args'[p]),
             \A p \in DOMAIN Params(o) :
               Params(o)[p] = "int" /\ args'[p] = "missing" => LeftOut(front, o, p)
      PROVE  CallInv'
  BY <1>6 DEF CallInv, Ops, Params, Scripted, Allowed
<1>7. CASE Begin
  <2>1. PICK o \in Ops : MayCall(o) /\ \E a \in ArgsOf(o) : op' = o /\ args' = a
    BY <1>7 DEF Begin
  <2>2. /\ DOMAIN args' = DOMAIN Params(o)
        /\ \A p \in DOMAIN Params(o) : Allowed(Params(o)[p], args'[p])
        /\ \A p \in DOMAIN Params(o) :
             Params(o)[p] = "int" /\ args'[p] = "missing" => LeftOut(front, o, p)
    BY <1>0, <2>1, Arguments
  <2>3. CallInv'
    BY <1>6, <1>7, <2>1, <2>2 DEF Begin
  <2>4. \A p \in DOMAIN Params(o) : Params(o)[p] \in HandleTypes => args'[p] = held[Params(o)[p]]
    BY <1>0, <2>1, Arguments
  <2>5. PassedInv'
    <3>1. UNCHANGED <<front, engine, item>> /\ op' = o /\ Params(o)' = Params(o)
      BY <1>7, <2>1 DEF Begin, Params, Scripted
    <3>2. ASSUME NEW p \in DOMAIN Params(o)
          PROVE  /\ Params(o)[p] \in Cached /\ args'[p] \in {"live", "broken"} => engine # "off"
                 /\ Params(o)[p] = "node" /\ args'[p] = "live" => item \in Items
      BY <1>0, <2>4, <3>2 DEF HeldInv, Cached, HandleTypes
    <3> QED BY <3>1, <3>2 DEF PassedInv, Params, Scripted
  <2> QED BY <1>1, <1>2, <1>7, <2>3, <2>5 DEF Begin, CallsInv
<1>8. CASE Defer
  <2>1. PICK o \in Ops : Deferred(o) /\ MayCall(o) /\ pend' = [op |-> o, conn |-> held["db"]]
    BY <1>8 DEF Defer
  <2>2. front = "js" /\ o \in Promises /\ TypesIn(o) # {}
    BY <2>1 DEF Deferred
  <2>3. Params(o) = ScriptTable[o].params /\ ScriptEntry(o, ScriptTable[o])
    BY <1>0, <2>2, OpsKnown DEF Scripted
  <2>4. o \in Deferring
    BY <2>2, <2>3 DEF TypesIn, ScriptEntry
  <2>5. Params(o) = [conn |-> "db", sql |-> "str"]
    BY <2>3, <2>4 DEF ScriptEntry
  <2>6. "db" \in TypesIn(o)
    BY <2>5 DEF TypesIn, HandleTypes
  <2>7. held["db"] \in {"live", "failed", "stale"}
    BY <1>0, <2>1, <2>2, <2>6 DEF MayCall, HeldInv, HandleTypes
  <2>8. PendInv'
    BY <1>8, <2>1, <2>2, <2>4, <2>7 DEF Defer, PendInv
  <2>9. CallInv'
    BY <1>4, <1>8 DEF Defer
  <2> QED BY <1>1, <1>5, <1>8, <2>8, <2>9 DEF Defer, CallsInv
<1>9. CASE Run
  <2>1. front = "js" /\ pend.op \in Deferring /\ pend.conn \in {"live", "failed", "stale"}
    BY <1>0, <1>9 DEF Run, PendInv
  <2>2. pend.op \in DOMAIN LibSQLite
    BY <2>1 DEF Deferring, LibSQLite
  <2>3. pend.op \in Ops
    BY <2>1, <2>2, LibEntries DEF Ops
  <2>4. Params(pend.op) = [conn |-> "db", sql |-> "str"]
    BY <1>0, <2>1, <2>3, OpsKnown DEF ScriptEntry, Scripted
  <2>5. op' = pend.op /\ args' = [conn |-> pend.conn, sql |-> "text"] /\ front' = front
    BY <1>9 DEF Run
  <2>6. DOMAIN args' = DOMAIN Params(pend.op)
    BY <2>4, <2>5
  <2>7. \A p \in DOMAIN Params(pend.op) :
          Allowed(Params(pend.op)[p], args'[p]) /\ Params(pend.op)[p] # "int"
    BY <2>1, <2>4, <2>5 DEF Allowed, HandleTypes
  <2>8. CallInv'
    BY <1>6, <2>3, <2>5, <2>6, <2>7
  <2>9. PendInv'
    BY <1>9 DEF Run, PendInv, NoPend
  <2>10. PassedInv'
    <3>1. PICK o : o = pend.op
      OBVIOUS
    <3>2. Params(o)' = Params(o) /\ op' = o
      BY <2>5, <3>1 DEF Params, Scripted
    <3>3. \A p \in DOMAIN Params(o) : Params(o)[p] \notin Cached \cup {"node"}
      BY <2>4, <3>1 DEF Cached
    <3> QED BY <3>2, <3>3 DEF PassedInv, Params, Scripted
  <2> QED BY <1>1, <1>9, <2>8, <2>9, <2>10 DEF Run, CallsInv
<1>10. CASE Refuse
  BY <1>0, <1>2, <1>3, <1>5, <1>10, RefuseHeld DEF Refuse, CallsInv
<1>11. CASE Crash
  BY <1>1, <1>2, <1>3, <1>5, <1>11 DEF Crash, CallsInv
<1>12. CASE Answer
  <2>1. HeldInv'
    BY <1>0, <1>12, AnswerHeld
  <2>2. PendInv'
    BY <1>0, <1>12, PendAfterStep DEF Answer
  <2> QED BY <1>3, <1>5, <1>12, <2>1, <2>2 DEF Answer, CallsInv
<1>13. CASE Return
  BY <1>1, <1>2, <1>4, <1>5, <1>13 DEF Return, CallsInv
<1>14. CASE Host
  <2>1. HeldInv'
    BY <1>0, <1>14, HostHeld
  <2>2. PendInv'
    BY <1>0, <1>14, PendAfterStep DEF Host
  <2> QED BY <1>4, <1>5, <1>14, <2>1, <2>2 DEF Host, CallsInv
<1>15. CASE UNCHANGED vars
  <2>1. PassedInv'
    BY <1>0, <1>15 DEF PassedInv, Params, Scripted, vars
  <2> QED BY <1>1, <1>2, <1>3, <1>4, <1>15, <2>1 DEF vars, CallsInv
<1> QED BY <1>7, <1>8, <1>9, <1>10, <1>11, <1>12, <1>13, <1>14, <1>15 DEF Next

-----------------------------------------------------------------------------
(* What a script function reads of an argument that went through the library *)
(* and the JSON: only an int for a float crashes, only the text of a failed  *)
(* handle is taken for another one.                                          *)
LEMMA ScriptReads ==
  ASSUME CallInv, HeldInv, at # "idle", Scripted, NEW p \in DOMAIN Params(op)
  PROVE  /\ Got[p] = "crash" => op = "kv_write_float" /\ args["v"] = "int"
         /\ Params(op)[p] \in HandleTypes =>
              /\ Got[p] \in {"value", "least", "none"}
              /\ Got[p] = "least" => args[p] = "failed"
              /\ args[p] \in {"live", "stale", "failed"}
         /\ MustHave(Params(op)[p], Got[p]) =>
              \/ args[p] \in {"emptyList", "missing"}
              \/ op \in {"crypto_rsa_gen_key", "crypto_rsa_encrypt", "crypto_rsa_decrypt"}
         /\ Params(op)[p] = "int" /\ args[p] = "zero" /\ op \in {"z_bytes_zip",
                                                                 "z_bytes_unzip"} =>
              Got[p] = "empty"
<1> DEFINE type == Params(op)[p]
           node == SentNode(op, p)
<1>1. /\ op \in Ops /\ Allowed(type, args[p])
      /\ ScriptEntry(op, ScriptTable[op]) /\ Params(op) = ScriptTable[op].params
  BY OpsKnown DEF CallInv
<1>2. type \in ScriptTypes /\ (type = "float?" => op = "kv_write_float" /\ p = "v")
  BY <1>1 DEF ScriptEntry
<1>3. type \in Must /\ op \notin {"crypto_rsa_encrypt",
                                  "crypto_rsa_decrypt"} => p \in Sends(front, op)
  <2>1. type \in Must /\ op \notin {"crypto_rsa_encrypt",
                                    "crypto_rsa_decrypt"} => p \in LibTable[op]
    BY <1>1 DEF ScriptEntry
  <2>2. op = "net_http_request" /\ p \in FormFields => type \notin Must
    BY <1>1 DEF ScriptEntry, Must, HandleTypes
  <2>3. op = "net_http_request" => LibTable[op] = LibNet["net_http_request"]
    BY LibEntries DEF LibNet
  <2> QED BY <2>1, <2>2, <2>3 DEF Sends, LuaHttp
<1>4. Got[p] = Parse(type, node)
  BY DEF Got
<1>5. \/ p \notin Sends(front, op) /\ node = "missing"
      \/ node = "bool"
      \/ args[p] \in {"live", "stale"} /\ node = "digits"
      \/ args[p] = "failed" /\ node = "nothing"
      \/ args[p] \notin {"live", "stale", "failed"} /\ node = args[p]
  BY DEF SentNode
<1>6. node = "bool" => op = "crypto_rsa_gen_key"
  <2>1. args[p] # "bool"
    BY <1>1, <1>2 DEF Allowed, ScriptTypes
  <2> QED BY <2>1 DEF SentNode, SentAsBool
<1>7. type \in HandleTypes => args[p] \in {"live", "stale", "failed"}
  BY <1>1, <1>2 DEF Allowed, ScriptTypes, Scripted
<1> HIDE DEF type, node
<1> USE DEF MustHave, Must
<1>8. CASE type = "float?"
  <2>1. args[p] \in {"float", "int"}
    BY <1>1, <1>8 DEF Allowed
  <2>2. Got[p] = ReadNumFloat(node) \/ Got[p] = "none"
    BY <1>4, <1>8 DEF Parse
  <2>3. Got[p] = "crash" => args[p] = "int"
    BY <1>2, <1>5, <1>6, <1>8, <2>1, <2>2 DEF ReadNumFloat, Variant, Ints
  <2>4. type \notin HandleTypes \cup {"str", "int", "bytes"}
    BY <1>8 DEF HandleTypes
  <2> QED BY <1>2, <1>8, <2>3, <2>4 DEF type
<1>9. CASE type \in {"str", "str?"}
  <2>1. type \notin HandleTypes \cup {"int", "bytes"}
    BY <1>9 DEF HandleTypes
  <2>2. args[p] \in {"text", "nothing", "missing"} /\ (type = "str" => args[p] # "missing")
    BY <1>1, <1>9 DEF Allowed, Scripted
  <2>3. Got[p] = IF node = "missing" THEN "none" ELSE ReadString(node)
    BY <1>4, <1>9 DEF Parse
  <2>4. Got[p] # "crash" /\ (Got[p] = "none" => node \in {"missing", "null"})
    BY <2>3 DEF ReadString
  <2> QED BY <1>3, <1>5, <2>1, <2>2, <2>4 DEF type
<1>10. CASE type \in {"bytes", "bytes?", "strs?", "list?"}
  <2>1. type \notin HandleTypes \cup {"int", "str"}
    BY <1>10 DEF HandleTypes
  <2>2. args[p] \in {"list", "emptyList"}
    BY <1>1, <1>10 DEF Allowed
  <2>3. Got[p] = IF node = "missing" THEN "none" ELSE ReadList(node)
    BY <1>4, <1>10 DEF Parse
  <2>4. Got[p] # "crash" /\ (node = "list" => Got[p] = "value")
    BY <2>3 DEF ReadList
  <2> QED BY <1>3, <1>5, <1>6, <2>1, <2>2, <2>4 DEF type
<1>11. CASE type = "ptr?"
  <2>1. type \notin HandleTypes \cup {"int", "str", "bytes"}
    BY <1>11 DEF HandleTypes
  <2>2. Got[p] \in {"none", "value", "least"}
    BY <1>4, <1>11 DEF Parse
  <2> QED BY <2>1, <2>2 DEF type
<1>12. CASE type \in HandleTypes \cup {"int", "int?"}
  <2>1. Got[p] = IF node = "missing" THEN "none" ELSE ReadNumInt(node)
    BY <1>4, <1>12 DEF Parse, HandleTypes
  <2>2. CASE type \in HandleTypes
    <3>1. node \in {"missing", "bool"} => Got[p] = "none"
      BY <2>1 DEF ReadNumInt, Variant, Ints
    <3>2. node = "digits" => Got[p] = "value"
      BY <2>1 DEF ReadNumInt, Variant, Ints
    <3>3. node = "nothing" => Got[p] = "least"
      BY <2>1 DEF ReadNumInt, Variant, Ints
    <3>4. type # "int"
      BY <2>2 DEF HandleTypes
    <3> QED BY <1>3, <1>5, <1>6, <1>7, <2>2, <3>1, <3>2, <3>3, <3>4 DEF type
  <2>3. CASE type \in {"int", "int?"}
    <3>1. args[p] \in {"int", "big", "zero",
                       "missing"} /\ type \notin HandleTypes \cup {"str", "bytes"}
      BY <1>1, <2>3 DEF Allowed, HandleTypes
    <3>2. node \in {"int", "big"} => Got[p] = "value"
      BY <2>1 DEF ReadNumInt, Variant, Ints
    <3>3. node \in {"missing", "bool"} => Got[p] = "none"
      BY <2>1 DEF ReadNumInt, Variant, Ints
    <3>4. node = "zero" => Got[p] = "empty"
      BY <2>1 DEF ReadNumInt, Variant, Ints
    <3> QED BY <1>3, <1>5, <1>6, <2>3, <3>1, <3>2, <3>3, <3>4 DEF type
  <2> QED BY <1>12, <2>2, <2>3
<1> QED BY <1>2, <1>8, <1>9, <1>10, <1>11, <1>12 DEF ScriptTypes

(* What a C function, called by C, JNI or N-API, reads of an argument. *)
LEMMA NativeReads ==
  ASSUME CallInv, HeldInv, at # "idle", ~Scripted, NEW p \in DOMAIN Params(op)
  PROVE  /\ Got[p] \in {"empty", "none", "half", "value"}
         /\ Got[p] = "half" => Params(op)[p] \in {"zip", "unzip"}
         /\ Got[p] = "none" => args[p] = "missing"
         /\ Params(op)[p] = "str" /\ args[p] = "missing" => front = "c" /\ Got[p] = "none"
         /\ Params(op)[p] \in HandleTypes /\ Got[p] = "empty" =>
              args[p] = "failed" \/ NapiDrops(op, p)
         /\ args[p] \in {"zero", "failed"} => Got[p] = "empty"
         /\ args[p] = "live" => Got[p] = "value" \/ NapiDrops(op, p)
<1>1. Got[p] = NativeRead(op, p)
  BY DEF Got
<1>2. Allowed(Params(op)[p], args[p])
  BY DEF CallInv
<1>3. Params(op)[p] \in HandleTypes => args[p] \in {"live", "failed", "half", "stale", "broken"}
  BY <1>2 DEF Allowed
<1>4. Params(op)[p] = "str" /\ args[p] = "missing" => front = "c"
  BY <1>2 DEF Allowed
<1>5. args[p] = "half" => Params(op)[p] \in {"zip", "unzip"}
  BY <1>2 DEF Allowed
<1> QED BY <1>1, <1>3, <1>4, <1>5 DEF NativeRead

(* A handle of the facade's own that is at the end of its way not 0 was not 0 *)
(* for the caller.                                                            *)
LEMMA NotZero ==
  ASSUME CallInv, HeldInv, at # "idle", NEW p \in DOMAIN Params(op),
         Params(op)[p] \in HandleTypes \ {"node"}, Got[p] # "empty"
  PROVE  \/ args[p] \in {"live", "broken", "stale", "half"}
         \/ Scripted /\ args[p] = "failed"
<1>1. Allowed(Params(op)[p], args[p])
  BY DEF CallInv
<1>2. CASE Scripted
  BY <1>1, <1>2 DEF Allowed
<1>3. CASE ~Scripted
  BY <1>1, <1>3, NativeReads DEF Allowed
<1> QED BY <1>2, <1>3

(* A coder or a decoder that is looked up in no cache leads nowhere. *)
LEMMA NoCachesCrash ==
  ASSUME CallsInv, at = "called", engine = "off",
         \A p \in Needs(op) : Got[p] \notin {"empty", "none"},
         TypesIn(op) \cap Cached # {}
  PROVE  LeadsNowhere(Cached)
<1>1. CallInv /\ HeldInv /\ PassedInv /\ op \in Ops /\ DOMAIN args = DOMAIN Params(op)
  BY DEF CallsInv, CallInv
<1>2. PICK p \in DOMAIN Params(op) : Params(op)[p] \in Cached
  BY DEF TypesIn
<1>3. Params(op)[p] \in HandleTypes \ {"node"}
  BY <1>2 DEF Cached, HandleTypes
<1>4. args[p] \notin {"live", "broken"}
  BY <1>1, <1>2 DEF PassedInv
<1>5. Scripted \/ Got[p] # "empty"
  <2>1. ASSUME ~Scripted PROVE p \in Needs(op)
    BY <1>1, <1>3, <2>1, OpsKnown DEF NativeEntry
  <2> QED BY <2>1
<1>6. Scripted => args[p] \in {"stale", "failed"}
  BY <1>1, <1>3, <1>4, ScriptReads
<1>7. args[p] \in {"stale", "half"} \/ (Scripted /\ args[p] = "failed")
  BY <1>1, <1>3, <1>4, <1>5, <1>6, NotZero
<1> QED BY <1>1, <1>2, <1>7 DEF LeadsNowhere, PassesTo

(* A reader of JSON crashes only on what it cannot read. *)
LEMMA ReaderCrash ==
  ASSUME CallsInv, at = "called", op \in Readers, "crash" \in LookedUp, engine # "off",
         \A p \in Needs(op) : Got[p] \notin {"empty", "none"}
  PROVE  Unreadable \/ LeadsNowhere(Raw)
<1>1. CallInv /\ HeldInv /\ PassedInv /\ op \in Ops /\ DOMAIN args = DOMAIN Params(op)
  BY DEF CallsInv, CallInv
<1>2. ~Scripted
  BY <1>1, OpsKnown DEF ScriptEntry
<1>3. Params(op) = [decoder |-> "decoder", node |-> "node"]
  BY <1>1, <1>2, OpsKnown DEF NativeEntry
<1>4. "decoder" \in Needs(op)
  BY <1>1, <1>2, <1>3, OpsKnown DEF NativeEntry, HandleTypes
<1>5. /\ Allowed("decoder", args["decoder"]) /\ Allowed("node", args["node"])
  BY <1>1, <1>3 DEF CallInv
<1>6. args["decoder"] \in {"live", "stale", "broken"}
  BY <1>1, <1>2, <1>3, <1>4, <1>5, NativeReads DEF Allowed, HandleTypes
<1>7. args["decoder"] \notin {"stale", "broken"}
  <2>1. ~PassesTo(Cached, "stale") /\ ~PassesTo(Cached, "broken")
    BY DEF LookedUp
  <2> QED BY <1>1, <1>3, <2>1 DEF PassesTo, Cached
<1>8. args["node"] \in {"live", "failed", "stale"}
  BY <1>5 DEF Allowed, HandleTypes
<1>9. CASE args["node"] = "stale"
  BY <1>1, <1>3, <1>9 DEF LeadsNowhere, PassesTo, Raw
<1>10. CASE args["node"] = "failed"
  BY <1>6, <1>7, <1>10 DEF Unreadable
<1>11. CASE args["node"] = "live"
  <2>1. ~NapiDrops(op, "node")
    BY DEF NapiDrops, Readers
  <2>2. Got["node"] = "value"
    BY <1>1, <1>2, <1>3, <1>11, <2>1, NativeReads
  <2>3. Node = item
    BY <1>3, <2>2 DEF Node, Is
  <2>4. item \in Items
    BY <1>1, <1>3, <1>11 DEF PassedInv
  <2>5. ReadBy(op, item) = "crash"
    BY <2>3 DEF LookedUp, ReadAs, Either
  <2>6. item.kind \in Nodes \ {"missing"}
    BY <2>4 DEF Items
  <2> USE DEF Logged, Nodes, Strings, Ints, Lists
  <2>7. CASE op = "json_decoder_read_string"
    <3>1. Logged(ReadString(item.kind), item.named) = "crash"
      BY <2>5, <2>7 DEF ReadBy
    <3>2. ~item.named /\ item.kind = "null"
      BY <2>6, <3>1 DEF ReadString
    <3> QED BY <1>6, <1>7, <3>2 DEF Unreadable
  <2>8. CASE op = "json_decoder_read_integer"
    <3>1. Logged(ReadNumInt(item.kind), item.named) = "crash"
      BY <2>5, <2>8 DEF ReadBy
    <3>2. \/ item.kind \in {"float", "decimal"}
          \/ ~item.named /\ item.kind \in {"null", "bool"} \cup Lists
      BY <2>6, <3>1 DEF ReadNumInt, Variant
    <3> QED BY <1>6, <1>7, <2>8, <3>2 DEF Unreadable
  <2>9. CASE op = "json_decoder_read_float"
    <3>1. Logged(ReadNumFloat(item.kind), item.named) = "crash"
      BY <2>5, <2>9 DEF ReadBy
    <3>2. \/ item.kind \in Ints \cup {"digits", "text", "nothing"}
          \/ ~item.named /\ item.kind \in {"null", "bool"} \cup Lists
      BY <2>6, <3>1 DEF ReadNumFloat, Variant
    <3> QED BY <1>6, <1>7, <2>9, <3>2 DEF Unreadable
  <2> QED BY <2>7, <2>8, <2>9 DEF Readers
<1> QED BY <1>8, <1>9, <1>10, <1>11

(* An address is read only where it leads nowhere. *)
LEMMA AddressCrash ==
  ASSUME CallsInv, at = "called", "crash" \in Dereferenced,
         \A p \in Needs(op) : Got[p] \notin {"empty", "none"}
  PROVE  LeadsNowhere(Raw)
<1>1. CallInv /\ HeldInv /\ op \in Ops /\ DOMAIN args = DOMAIN Params(op)
  BY DEF CallsInv, CallInv
<1>2. \/ PassesTo(Raw, "stale")
      \/ Is(Raw, {"least"})
      \/ Is(Raw \ {"node"}, {"empty"})
  BY DEF Dereferenced, Either, Gone, PassesTo
<1>3. CASE PassesTo(Raw, "stale")
  BY <1>3 DEF LeadsNowhere
<1>4. CASE Is(Raw, {"least"}) \/ Is(Raw \ {"node"}, {"empty"})
  <2>1. PICK p \in DOMAIN Params(op) :
          \/ Params(op)[p] \in Raw /\ Got[p] = "least"
          \/ Params(op)[p] \in Raw \ {"node"} /\ Got[p] = "empty"
    BY <1>4 DEF Is
  <2>2. Params(op)[p] \in HandleTypes
    BY <2>1 DEF Raw, HandleTypes
  <2>3. Scripted
    <3>1. ASSUME ~Scripted PROVE FALSE
      <4>1. Got[p] = "empty" /\ Params(op)[p] \in HandleTypes \ {"node"}
        BY <1>1, <2>1, <2>2, <3>1, NativeReads
      <4>2. p \in Needs(op)
        BY <1>1, <3>1, <4>1, OpsKnown DEF NativeEntry
      <4> QED BY <4>1, <4>2
    <3> QED BY <3>1
  <2>4. args[p] = "failed" /\ Params(op)[p] \in Raw
    BY <1>1, <2>1, <2>2, <2>3, ScriptReads
  <2> QED BY <1>1, <2>3, <2>4 DEF LeadsNowhere, PassesTo
<1> QED BY <1>2, <1>3, <1>4

(* A call that crashes has one of the causes of EndsExplained: by the cause in *)
(* the layer, in the facade or in the reader of the JSON.                      *)
LEMMA CrashStep == CallsInv /\ Crash => EndsExplained'
<1> SUFFICES ASSUME CallsInv, Crash PROVE EndsExplained'
  OBVIOUS
<1> DEFINE Because ==
      \/ LeadsNowhere(Raw)
      \/ LeadsNowhere(Cached) /\ engine = "off"
      \/ Unreadable
      \/ Scripted /\ op = "kv_write_float" /\ args["v"] = "int"
      \/ front = "c" /\ PassesTo({"str"}, "missing")
      \/ op \in {"z_bytes_zip", "z_bytes_unzip"} /\ (Passes("big") \/ args["mode"] = "zero")
      \/ front = "jni" /\ PassesTo({"file?"}, "text")
<1>1. /\ at = "called" /\ HeldInv /\ CallInv /\ op \in Ops /\ DOMAIN args = DOMAIN Params(op)
      /\ UNCHANGED <<front, engine, item, op, args>>
  BY DEF Crash, CallsInv, CallInv
<1>0. /\ LeadsNowhere(Raw)' = LeadsNowhere(Raw) /\ LeadsNowhere(Cached)' = LeadsNowhere(Cached)
      /\ \A types, kind : PassesTo(types, kind)' = PassesTo(types, kind)
      /\ Passes("big")' = Passes("big")
  BY <1>1 DEF LeadsNowhere, PassesTo, Passes, Scripted, Params
<1>7. Unreadable' = Unreadable /\ Scripted' = Scripted
  BY <1>1 DEF Unreadable, Scripted
<1>6. SUFFICES Because
  BY <1>0, <1>1, <1>7 DEF EndsExplained
<1>2. CASE \E p \in DOMAIN Params(op) : Got[p] = "crash"
  <2>1. PICK p \in DOMAIN Params(op) : Got[p] = "crash"
    BY <1>2
  <2>2. Scripted
    BY <1>1, <2>1, NativeReads
  <2> QED BY <1>1, <2>1, <2>2, ScriptReads
<1>3. CASE ~Scripted /\ \E p \in DOMAIN Params(op) : Params(op)[p] = "str" /\ Got[p] = "none"
  <2>1. PICK p \in DOMAIN Params(op) : Params(op)[p] = "str" /\ Got[p] = "none"
    BY <1>3
  <2>2. args[p] = "missing"
    BY <1>1, <1>3, <2>1, NativeReads
  <2>3. front = "c"
    BY <1>1, <1>3, <2>1, <2>2, NativeReads
  <2> QED BY <1>1, <2>1, <2>2, <2>3 DEF PassesTo
<1>4. CASE LayerMayCrash
  <2>1. front = "jni" /\ op = "net_http_request" /\ args["cFILE"] = "text"
    BY <1>4 DEF LayerMayCrash, PathGivenBack
  <2>2. Params(op) = CTable[op].params /\ NativeEntry(op, CTable[op])
    BY <1>1, <2>1, OpsKnown DEF Scripted
  <2>3. "cFILE" \in DOMAIN args /\ Params(op)["cFILE"] = "file?"
    BY <1>1, <2>1, <2>2 DEF NativeEntry
  <2> QED BY <2>1, <2>3 DEF PassesTo
<1>5. CASE "crash" \in Results
  <2>1. ASSUME NEW p \in Needs(op) PROVE Got[p] \notin {"empty", "none"}
    BY <1>5, <2>1 DEF Results
  <2>2. \/ TypesIn(op) \cap Cached # {} /\ "crash" \in LookedUp
        \/ "crash" \in Dereferenced
        \/ Throws(op, BadMode)
    BY <1>5 DEF Results, Initialised, Either
  <2>4. CASE TypesIn(op) \cap Cached # {} /\ "crash" \in LookedUp
    <3>1. engine = "off" \/ op \in Readers
      BY <2>4 DEF LookedUp, Either
    <3> QED BY <1>1, <2>1, <2>4, <3>1, NoCachesCrash, ReaderCrash
  <2>5. CASE "crash" \in Dereferenced
    BY <1>1, <2>1, <2>5, AddressCrash
  <2>3. CASE Throws(op, BadMode)
    <3>1. op \in {"z_bytes_zip", "z_bytes_unzip"} /\ BadMode
      BY <2>3 DEF Throws, FacadeBytes
    <3>2. PICK p \in DOMAIN args : \/ p \in {"mode", "format"} /\ args[p] = "big"
                                   \/ p \in {"mode", "bufferSize"} /\ args[p] = "zero"
      BY <3>1 DEF BadMode
    <3>3. ASSUME p = "bufferSize", args[p] = "zero" PROVE FALSE
      <4>1. p \in Needs(op)
        BY <3>1, <3>3, FacadeEntries DEF FacadeBytes
      <4>2. Params(op)[p] = "int"
        BY <1>1, <3>2, <3>3, OpsKnown DEF NativeEntry, ScriptEntry
      <4>3. Got[p] = "empty"
        BY <1>1, <3>1, <3>2, <3>3, <4>2, ScriptReads, NativeReads
      <4> QED BY <2>1, <4>1, <4>3
    <3> QED BY <3>1, <3>2, <3>3 DEF Passes
  <2> QED BY <2>2, <2>3, <2>4, <2>5
<1> QED BY <1>2, <1>3, <1>4, <1>5 DEF Crash, LayerCrashes

(* No other step ends the process. *)
LEMMA EndsStep == CallsInv /\ EndsExplained /\ [Next]_vars => EndsExplained'
<1> SUFFICES ASSUME CallsInv, EndsExplained, [Next]_vars PROVE EndsExplained'
  OBVIOUS
<1>1. CASE Crash
  BY <1>1, CrashStep
<1>2. CASE UNCHANGED vars
  BY <1>2 DEF EndsExplained, LeadsNowhere, Unreadable, PassesTo, Passes, Scripted, Params, vars
<1>3. ASSUME Begin \/ Defer \/ Run \/ Host \/ Refuse \/ Answer \/ Return PROVE at' # "gone"
  BY <1>3 DEF Begin, Defer, Run, Host, Refuse, Answer, Return
<1> QED BY <1>1, <1>2, <1>3 DEF EndsExplained, Next

(* The process ends only for an address that leads nowhere, a coder or a decoder *)
(* that is not 0 where there are no caches, a JSON value that its reader cannot  *)
(* read, a whole number written as a float, a missing text of C, a mode or       *)
(* format that is none, or a file from Kotlin: no other function, argument or    *)
(* state of the engine ends it, in any front (DynXX-X.cxx:214-275,586-1109,      *)
(* JsonCodec.cxx:358-435, JsonCodec.hxx:51, ScriptAPI.cxx:57, DynXXJNI.cxx:123). *)
THEOREM EndsAreExplained == Spec => []EndsExplained
<1>1. Init => EndsExplained
  BY DEF Init, EndsExplained
<1> QED BY <1>1, CallsInit, CallsStep, EndsStep, PTL DEF Spec

-----------------------------------------------------------------------------
(* Where there is no block nothing is freed. *)
LEMMA NoBlock == ASSUME NEW what PROVE FreesOf("null", what) = 0
BY DEF FreesOf, JniFrees, NapiFrees

(* The facade crashes, gives something or gives nothing. *)
LEMMA ResultsKnown == Results \subseteq {"crash", "something", "nothing"}
BY DEF Results, Initialised, LookedUp, ReadAs, Dereferenced, Either

(* BlocksFreedOnce for a block and the number of times it is freed: once if it *)
(* is on the heap, and the exceptions of the fronts.                           *)
BlockFreed(block, what, freed) ==
  \/ freed = IF block = "heap" THEN 1 ELSE 0
  \/ front = "jni" /\ op = "kv_all_keys" /\ freed = IF what = "something" THEN 2 ELSE 0
  \/ front = "napi" /\ op = "kv_all_keys" /\ freed = 0 /\ what = "nothing"
  \/ front = "napi" /\ Gives(op) = "chars" /\ freed = 0
  \/ /\ front \in {"c", "jni"} /\ op = "sqlite_query_read_column_text"
     /\ block = "literal" /\ freed = 1

(* A refused call frees no block, but C and JNI may free a literal. *)
LEMMA RefusedBlock ==
  ASSUME HeldInv, CallInv, at # "idle", Refuses
  PROVE  LET block == IF ~Scripted /\ CTable[op].otherwise = "literal" THEN "literal" ELSE "null"
         IN BlockFreed(block, "nothing", FreesOf(block, "nothing"))
<1>1. CASE Scripted \/ CTable[op].otherwise # "literal"
  BY <1>1, NoBlock DEF BlockFreed
<1>2. CASE ~Scripted /\ CTable[op].otherwise = "literal"
  <2>1. /\ op \in Ops /\ DOMAIN args = DOMAIN Params(op)
        /\ NativeEntry(op, CTable[op])
    BY <1>2, OpsKnown DEF CallInv
  <2>2. CASE front = "napi"
    BY <1>2, <2>2 DEF FreesOf, NapiFrees, BlockFreed
  <2>3. CASE op # "sqlite_query_read_column_text"
    <3>1. CTable[op].guards = {"str"}
      BY <1>2, <2>1, <2>3 DEF NativeEntry
    <3>2. PICK p \in DOMAIN Params(op) : Params(op)[p] = "str" /\ Null(p)
      BY <1>2, <3>1 DEF Refuses
    <3>3. Got[p] = "none"
      BY <3>2 DEF Null, HandleTypes
    <3>4. args[p] = "missing"
      BY <1>2, <3>2, <3>3, NativeReads
    <3>5. front = "c"
      BY <1>2, <3>2, <3>4, NativeReads
    <3>6. PassesTo({"str"}, "missing")
      BY <2>1, <3>2, <3>4 DEF PassesTo
    <3> QED BY <1>2, <3>5, <3>6 DEF FreesOf, BlockFreed
  <2>4. CASE op = "sqlite_query_read_column_text" /\ front = "c"
    BY <1>2, <2>4 DEF FreesOf, BlockFreed
  <2>5. CASE op = "sqlite_query_read_column_text" /\ front = "jni"
    <3>1. JniTable[op] = "boxJString"
      BY <2>5, OpsKnown DEF JniEntry, CharsOps, CallInv
    <3> QED BY <1>2, <2>5, <3>1 DEF FreesOf, JniFrees, BlockFreed
  <2> QED BY <1>2, <2>2, <2>3, <2>4, <2>5 DEF HeldInv, Scripted
<1> QED BY <1>1, <1>2

(* The block of an answered call is freed by the helper of its type. *)
LEMMA AnsweredBlock ==
  ASSUME HeldInv, CallInv, at # "idle", ~LayerCrashes, NEW what \in {"something", "nothing"}
  PROVE  LET block == IF Scripted THEN "null" ELSE Block(Gives(op), what)
         IN BlockFreed(block, what, FreesOf(block, what))
<1>1. CASE Scripted \/ Block(Gives(op), what) = "null"
  BY <1>1, NoBlock DEF BlockFreed
<1>2. CASE ~Scripted /\ Block(Gives(op), what) # "null"
  <2>1. /\ op \in Ops /\ DOMAIN args = DOMAIN Params(op)
        /\ NativeEntry(op, CTable[op]) /\ Gives(op) = CTable[op].gives
        /\ front = "jni" => JniEntry(op, JniTable[op])
        /\ front = "napi" => NapiEntry(op, NapiTable[op])
    BY <1>2, OpsKnown DEF CallInv
  <2>2. /\ Block(Gives(op), what) = "heap"
        /\ \/ Gives(op) = "strings"
           \/ Gives(op) \in {"chars", "bytes"} /\ what = "something"
    BY <1>2 DEF Block
  <2>3. CASE front = "c"
    <3>1. ASSUME NEW p \in DOMAIN args, Params(op)[p] = "str", args[p] = "missing" PROVE FALSE
      <4>1. Got[p] = "none"
        BY <1>2, <2>1, <3>1, NativeReads
      <4> QED BY <1>2, <2>1, <3>1, <4>1 DEF LayerCrashes
    <3>2. ~PassesTo({"str"}, "missing")
      BY <3>1 DEF PassesTo
    <3> QED BY <1>2, <2>2, <2>3, <3>2 DEF FreesOf, BlockFreed
  <2>4. CASE front = "jni"
    <3>1. Gives(op) = "strings" => op = "kv_all_keys"
      BY <2>1 DEF NativeEntry
    <3>2. Gives(op) = "chars" => JniTable[op] = "boxJString"
      BY <2>1, <2>4 DEF NativeEntry, JniEntry
    <3>3. Gives(op) = "bytes" => JniTable[op] = "moveToJByteArray"
      BY <2>1, <2>4 DEF NativeEntry, JniEntry
    <3>4. op = "kv_all_keys" => JniTable[op] = "moveToJStringArray"
      BY <2>1, <2>4 DEF JniEntry
    <3>5. CASE Gives(op) = "strings"
      BY <1>2, <2>2, <2>4, <3>1, <3>4, <3>5 DEF FreesOf, JniFrees, BlockFreed
    <3>6. CASE Gives(op) \in {"chars", "bytes"}
      BY <1>2, <2>2, <2>4, <3>2, <3>3, <3>6 DEF FreesOf, JniFrees, BlockFreed
    <3> QED BY <2>2, <3>5, <3>6
  <2>5. CASE front = "napi"
    <3>1. Gives(op) = "strings" => op = "kv_all_keys"
      BY <2>1 DEF NativeEntry
    <3>2. Gives(op) = "bytes" => NapiTable[op] = "FromByteArray"
      BY <2>1, <2>5 DEF NativeEntry, NapiEntry
    <3>3. op = "kv_all_keys" => NapiTable[op] = "FromCharsArray"
      BY <2>1, <2>5 DEF NapiEntry
    <3>4. Gives(op) = "chars" => NapiTable[op] \notin {"FromByteArray", "FromCharsArray"}
      BY <2>1, <2>5 DEF NativeEntry, NapiEntry
    <3> QED BY <1>2, <2>2, <2>5, <3>1, <3>2, <3>3, <3>4 DEF FreesOf, NapiFrees, BlockFreed
  <2> QED BY <1>2, <2>3, <2>4, <2>5 DEF HeldInv, Scripted
<1> QED BY <1>1, <1>2

(* Only a refusal and an answer give back a block. *)
LEMMA BlocksStep == CallsInv /\ BlocksFreedOnce /\ [Next]_vars => BlocksFreedOnce'
<1> SUFFICES ASSUME CallsInv, BlocksFreedOnce, [Next]_vars PROVE BlocksFreedOnce'
  OBVIOUS
<1>1. HeldInv /\ CallInv
  BY DEF CallsInv
<1>2. ASSUME NEW by, NEW what, NEW block, BlockFreed(block, what, FreesOf(block, what)),
             out' = Out(by, what, block), UNCHANGED <<front, op>>
      PROVE  BlocksFreedOnce'
  BY <1>2 DEF BlocksFreedOnce, BlockFreed, Out, Gives, Scripted
<1>3. CASE Refuse
  <2> DEFINE block == IF ~Scripted /\ CTable[op].otherwise = "literal" THEN "literal" ELSE "null"
  <2>1. BlockFreed(block, "nothing", FreesOf(block, "nothing"))
    BY <1>1, <1>3, RefusedBlock DEF Refuse
  <2>2. out' = Out("layer", "nothing", block)
    BY <1>3 DEF Refuse
  <2> HIDE DEF block
  <2> QED BY <1>2, <1>3, <2>1, <2>2 DEF Refuse
<1>4. CASE Answer
  <2>1. PICK what \in Results \ {"crash"} :
          out' = Out("facade", what, IF Scripted THEN "null" ELSE Block(Gives(op), what))
    BY <1>4 DEF Answer
  <2> DEFINE block == IF Scripted THEN "null" ELSE Block(Gives(op), what)
  <2>2. what \in {"something", "nothing"}
    BY ResultsKnown
  <2>3. BlockFreed(block, what, FreesOf(block, what))
    BY <1>1, <1>4, <2>2, AnsweredBlock DEF Answer
  <2>4. out' = Out("facade", what, block)
    BY <2>1
  <2> HIDE DEF block
  <2> QED BY <1>2, <1>4, <2>3, <2>4 DEF Answer
<1>5. ASSUME Begin \/ Defer \/ Run \/ Host \/ Crash \/ Return PROVE at' # "answered"
  BY <1>5 DEF Begin, Defer, Run, Host, Crash, Return
<1>6. CASE UNCHANGED vars
  BY <1>6 DEF BlocksFreedOnce, Gives, Scripted, vars
<1> QED BY <1>3, <1>4, <1>5, <1>6 DEF BlocksFreedOnce, Next

(* What C allocates for a caller is freed exactly once, whatever the function   *)
(* and the front, but for the named exceptions: JNI's keys, freed twice; a list *)
(* without keys and the texts of N-API, freed never; the literal of a column,   *)
(* freed by JNI and C (JNIUtil.cxx:167-272, napi_util.cxx:169-176).             *)
THEOREM BlocksAreFreedOnce == Spec => []BlocksFreedOnce
<1>1. Init => BlocksFreedOnce
  BY DEF Init, BlocksFreedOnce
<1> QED BY <1>1, CallsInit, CallsStep, BlocksStep, PTL DEF Spec

-----------------------------------------------------------------------------
(* A script's call is refused in front of the facade only for an empty list, *)
(* an argument that its declaration lets a script leave out, or for RSA.     *)
LEMMA RefusedScript ==
  ASSUME HeldInv, CallInv, at # "idle", Scripted, Refuses
  PROVE  \/ Passes("emptyList")
         \/ \E p \in DOMAIN args : args[p] = "missing" /\ LeftOut(front, op, p)
         \/ op \in {"crypto_rsa_gen_key", "crypto_rsa_encrypt", "crypto_rsa_decrypt"}
<1>1. /\ op \in Ops /\ DOMAIN args = DOMAIN Params(op) /\ op \in DOMAIN LibTable
      /\ Params(op) = ScriptTable[op].params /\ ScriptEntry(op, ScriptTable[op])
  BY OpsKnown DEF CallInv
<1>2. CASE \E p \in DOMAIN Params(op) : MustHave(Params(op)[p], Got[p])
  <2>1. PICK p \in DOMAIN Params(op) : MustHave(Params(op)[p], Got[p])
    BY <1>2
  <2>2. \/ args[p] \in {"emptyList", "missing"}
        \/ op \in {"crypto_rsa_gen_key", "crypto_rsa_encrypt", "crypto_rsa_decrypt"}
    BY <2>1, ScriptReads
  <2>3. ASSUME args[p] = "missing" PROVE LeftOut(front, op, p)
    <3>1. Allowed(Params(op)[p], "missing")
      BY <2>3 DEF CallInv
    <3>2. Params(op)[p] \in HandleTypes \cup {"str", "int", "bytes"}
      BY <2>1 DEF MustHave
    <3>3. Params(op)[p] = "int"
      BY <3>1, <3>2 DEF Allowed, Scripted
    <3> QED BY <2>3, <3>3 DEF CallInv
  <2> QED BY <1>1, <2>2, <2>3 DEF Passes
<1>3. CASE op = "net_http_request" /\ HttpMismatch(Got)
  <2>1. FormFields \cup {"cFILE", "fileSize"} \subseteq DOMAIN Params(op)
    BY <1>1, <1>3 DEF ScriptEntry
  <2>2. ASSUME NEW p \in DOMAIN Params(op), p \notin Sends(front, op) PROVE Got[p] = "none"
    BY <2>2 DEF Got, SentNode, Parse
  <2>3. LibTable[op] = LibNet["net_http_request"]
    BY <1>3, LibEntries DEF LibNet
  <2>4. Got["cFILE"] = "none" /\ Got["fileSize"] = "none"
    BY <2>1, <2>2, <2>3 DEF Sends, LibNet, LuaHttp, FormFields
  <2>5. PICK p \in FormFields, q \in FormFields :
          (Got[p] \notin {"none", "empty"}) # (Got[q] \notin {"none", "empty"})
    BY <1>3, <2>4 DEF HttpMismatch, FormFields
  <2>6. front # "lua"
    <3>1. ASSUME front = "lua" PROVE Got[p] = "none" /\ Got[q] = "none"
      BY <1>3, <2>1, <2>2, <3>1 DEF Sends, LuaHttp
    <3> QED BY <2>5, <3>1
  <2>7. ASSUME NEW r \in FormFields, args[r] # "emptyList" PROVE Got[r] = "value"
    <3>1. r \in Sends(front, op)
      BY <2>3, <2>6 DEF Sends, LibNet
    <3>2. Params(op)[r] = "strs?" /\ r \in DOMAIN Params(op)
      BY <1>1, <1>3, <2>1 DEF ScriptEntry
    <3>3. args[r] = "list"
      BY <2>7, <3>2 DEF CallInv, Allowed
    <3>4. SentNode(op, r) = "list"
      BY <1>3, <3>1, <3>3 DEF SentNode, SentAsBool
    <3> QED BY <3>2, <3>4 DEF Got, Parse, ReadList
  <2>8. args[p] = "emptyList" \/ args[q] = "emptyList"
    BY <2>5, <2>7
  <2> QED BY <1>1, <2>1, <2>8 DEF Passes
<1> QED BY <1>2, <1>3 DEF Refuses

(* How a result may look to the caller. *)
SeenAs(what, sees) ==
  \/ sees = "declared"
  \/ front = "napi" /\ sees = "number" /\ what = "nothing"
  \/ front = "napi" /\ sees = "half" /\ op \in {"z_zip_init", "z_unzip_init"}
  \/ front = "lua" /\ sees = "argument" /\ KindOf(op) = "VOID"

(* Every front shows a result in one of these ways. *)
LEMMA Seen ==
  ASSUME HeldInv, CallInv, at # "idle", NEW what
  PROVE  SeenAs(what, SeesOf(what))
<1>1. op \in Ops
  BY DEF CallInv
<1>2. CASE front = "napi"
  <2>1. SeesOf(what) = Sees(NapiTable[op], Gives(op), what)
    BY <1>2 DEF SeesOf
  <2>2. SeesOf(what) = "half" => op \in {"z_zip_init", "z_unzip_init"}
    BY <1>1, <1>2, HalfHandle
  <2>3. SeesOf(what) \in {"declared", "half"} \/ (SeesOf(what) = "number" /\ what = "nothing")
    BY <2>1 DEF Sees
  <2> QED BY <1>2, <2>2, <2>3 DEF SeenAs
<1>3. CASE Scripted
  <2>1. front # "napi"
    BY <1>3 DEF Scripted
  <2>2. op \in DOMAIN LibTable /\ GivesEntry(op,
      ScriptTable[op]) /\ Gives(op) = ScriptTable[op].gives
    BY <1>1, <1>3, OpsKnown
  <2>3. KindOf(op) \in DOMAIN Kinds /\ op \in Kinds[KindOf(op)]
    BY <2>2, LibKnown DEF KindOf
  <2>4. Fits(KindOf(op), Gives(op))
    <3>1. KindOf(op) \in {"STRING", "BOOL", "INTEGER", "FLOAT", "VOID"}
      BY <2>3 DEF Kinds
    <3> QED BY <2>2, <2>3, <3>1 DEF GivesEntry, Fits
  <2> QED BY <1>3, <2>1, <2>4 DEF SeesOf, SeenAs, LeavesArgument
<1>4. CASE front # "napi" /\ ~Scripted
  BY <1>4 DEF SeesOf, SeenAs
<1> QED BY <1>2, <1>3, <1>4

(* Only a refusal and an answer are seen. *)
LEMMA AnswersStep == CallsInv /\ AnswersAsDeclared /\ [Next]_vars => AnswersAsDeclared'
<1> SUFFICES ASSUME CallsInv, AnswersAsDeclared, [Next]_vars PROVE AnswersAsDeclared'
  OBVIOUS
<1>1. HeldInv /\ CallInv
  BY DEF CallsInv
<1>2. ASSUME NEW what, NEW block, out' = Out("facade", what, block), UNCHANGED <<front, op,
    args>>,
             at # "idle"
      PROVE  AnswersAsDeclared'
  <2>1. out'.by = "facade" /\ out'.what = what /\ SeenAs(what, out'.sees)
    BY <1>1, <1>2, Seen DEF Out
  <2> QED BY <1>2, <2>1 DEF AnswersAsDeclared, SeenAs
<1>3. CASE Refuse
  <2>1. PICK block : out' = Out("layer", "nothing", block)
    BY <1>3 DEF Refuse
  <2>2. /\ at # "idle" /\ Refuses
        /\ UNCHANGED <<front, op, args>>
    BY <1>3 DEF Refuse
  <2>3. out'.what = "nothing" /\ SeenAs("nothing", out'.sees)
    BY <1>1, <2>1, <2>2, Seen DEF Out
  <2>4. Scripted => \/ Passes("emptyList")
                    \/ \E p \in DOMAIN args : args[p] = "missing" /\ LeftOut(front, op, p)
                    \/ op \in {"crypto_rsa_gen_key", "crypto_rsa_encrypt", "crypto_rsa_decrypt"}
    BY <1>1, <2>2, RefusedScript
  <2> QED BY <2>2, <2>3, <2>4 DEF AnswersAsDeclared, SeenAs, Scripted, Passes
<1>4. CASE Answer
  <2>1. PICK what, block : out' = Out("facade", what, block)
    BY <1>4 DEF Answer
  <2> QED BY <1>2, <1>4, <2>1 DEF Answer
<1>5. ASSUME Begin \/ Defer \/ Run \/ Host \/ Crash \/ Return PROVE at' # "answered"
  BY <1>5 DEF Begin, Defer, Run, Host, Crash, Return
<1>6. CASE UNCHANGED vars
  BY <1>6 DEF AnswersAsDeclared, Scripted, Passes, vars
<1> QED BY <1>3, <1>4, <1>5, <1>6 DEF AnswersAsDeclared, Next

(* A caller sees the type its front declares and a script is refused nothing   *)
(* that it passed in full, but for the named exceptions: RSA, an empty list, an *)
(* argument that JavaScript may leave out; no text and half handles of N-API;   *)
(* the functions of Lua without a result (DynXX.js, napi_util.cxx, LuaVM.hxx).  *)
THEOREM AnswersAreAsDeclared == Spec => []AnswersAsDeclared
<1>1. Init => AnswersAsDeclared
  BY DEF Init, AnswersAsDeclared
<1> QED BY <1>1, CallsInit, CallsStep, AnswersStep, PTL DEF Spec

-----------------------------------------------------------------------------

USE EngineAssumption DEF EngineAssumption, Objects

(* The types are inductive by themselves: an object that is cached was made. *)
LEMMA EngineTypeInit == EngineInit => EngineType
<1> SUFFICES ASSUME EngineInit PROVE EngineType
  OBVIOUS
<1>1. root \in BOOLEAN /\ caches \in BOOLEAN /\ logging \in BOOLEAN /\ failed \in BOOLEAN
  BY DEF EngineInit
<1>2. cache \in [Addresses -> 0 .. next - 1 \cup {Nothing}] /\ next \in 1 .. MaxObject + 1
  BY DEF EngineInit, Empty
<1>3. /\ handles \subseteq Addresses \X Objects
      /\ made \subseteq Singletons /\ strays \subseteq Singletons
  BY DEF EngineInit
<1> QED BY <1>1, <1>2, <1>3 DEF EngineType

LEMMA EngineTypeStep == EngineType /\ [EngineNext]_engineVars => EngineType'
<1> SUFFICES ASSUME EngineType, [EngineNext]_engineVars PROVE EngineType'
  OBVIOUS
<1> USE DEF EngineType, Empty, NewCaches, ReleaseAlways
<1>1. ASSUME NEW ok \in BOOLEAN, InitNew(ok) PROVE EngineType'
  BY <1>1 DEF InitNew, Singletons
<1>2. CASE InitAgain BY <1>2 DEF InitAgain, history
<1>3. CASE Release BY <1>3 DEF Release
<1>4. CASE ReleaseAgain BY <1>4 DEF ReleaseAgain
<1>5. CASE LogSet BY <1>5 DEF LogSet, history
<1>6. ASSUME NEW s \in Singletons, FirstUse(s) PROVE EngineType'
  BY <1>6 DEF FirstUse
<1>7. ASSUME NEW a \in Addresses, HandleMake(a) PROVE EngineType'
  BY <1>7 DEF HandleMake
<1>8. ASSUME NEW h \in handles, HandleRelease(h) PROVE EngineType'
  BY <1>8 DEF HandleRelease
<1>9. CASE UNCHANGED engineVars BY <1>9 DEF engineVars, history
<1> QED BY <1>1, <1>2, <1>3, <1>4, <1>5, <1>6, <1>7, <1>8, <1>9 DEF EngineNext

(* Every variable keeps its type, however many handles are made: an object *)
(* in the cache is one that was made before.                               *)
THEOREM EngineTypeCorrect == EngineSpec => []EngineType
BY EngineTypeInit, EngineTypeStep, PTL DEF EngineSpec

(* A step that makes or gives back a handle changes the cache at its own *)
(* address only; every other step leaves the cache alone or empties it.  *)
LEMMA CachedStep == EngineType /\ CachedIsHeld /\ [EngineNext]_engineVars => CachedIsHeld'
<1> SUFFICES ASSUME EngineType, CachedIsHeld, [EngineNext]_engineVars PROVE CachedIsHeld'
  OBVIOUS
<1>1. ASSUME cache' = Empty PROVE CachedIsHeld'
  BY <1>1 DEF CachedIsHeld, Empty
<1>2. ASSUME UNCHANGED <<cache, handles, caches>> PROVE CachedIsHeld'
  BY <1>2 DEF CachedIsHeld
<1>3. ASSUME NEW ok \in BOOLEAN, InitNew(ok) PROVE CachedIsHeld'
  BY <1>1, <1>3 DEF InitNew, NewCaches
<1>4. CASE InitAgain BY <1>1, <1>4 DEF InitAgain, NewCaches
<1>5. CASE Release \/ ReleaseAgain
  BY <1>1, <1>5 DEF Release, ReleaseAgain, ReleaseAlways
<1>6. CASE LogSet BY <1>2, <1>6 DEF LogSet
<1>7. ASSUME NEW s \in Singletons, FirstUse(s) PROVE CachedIsHeld'
  BY <1>2, <1>7 DEF FirstUse
<1>8. ASSUME NEW a \in Addresses, HandleMake(a) PROVE CachedIsHeld'
  BY <1>8 DEF HandleMake, CachedIsHeld, EngineType
<1>9. ASSUME NEW h \in handles, HandleRelease(h) PROVE CachedIsHeld'
  <2>1. PICK a \in Addresses, o \in Objects : h = <<a, o>>
    BY DEF EngineType
  <2>2. cache' = [cache EXCEPT ![a] = Nothing] /\ handles' = handles \ {h} /\ caches' = caches
    BY <1>9, <2>1 DEF HandleRelease
  <2>3. ASSUME NEW b \in Addresses, cache'[b] # Nothing
        PROVE  b # a /\ cache'[b] = cache[b]
    BY <2>2, <2>3 DEF EngineType
  <2> QED BY <2>1, <2>2, <2>3 DEF CachedIsHeld
<1>10. CASE UNCHANGED engineVars BY <1>2, <1>10 DEF engineVars
<1> QED BY <1>3, <1>4, <1>5, <1>6, <1>7, <1>8, <1>9, <1>10 DEF EngineNext

(* No object is left in a cache that the application has no handle of, with *)
(* stale handles given back in between included.                            *)
THEOREM NothingOutOfReach == EngineSpec => []CachedIsHeld
<1>1. EngineInit => CachedIsHeld
  BY DEF EngineInit, CachedIsHeld, Empty
<1> QED BY <1>1, CachedStep, EngineTypeCorrect, PTL DEF EngineSpec

LEMMA SingletonsStep == SingletonsExplained /\ [EngineNext]_engineVars => SingletonsExplained'
<1> SUFFICES ASSUME SingletonsExplained, [EngineNext]_engineVars PROVE SingletonsExplained'
  OBVIOUS
<1> USE DEF SingletonsExplained
<1>1. ASSUME NEW ok \in BOOLEAN, InitNew(ok) PROVE SingletonsExplained'
  BY <1>1 DEF InitNew, NewCaches
<1>2. CASE InitAgain BY <1>2 DEF InitAgain, NewCaches
<1>3. CASE Release BY <1>3 DEF Release, ReleaseAlways
<1>4. CASE ReleaseAgain BY <1>4 DEF ReleaseAgain, ReleaseAlways
<1>5. CASE LogSet BY <1>5 DEF LogSet, history
<1>6. ASSUME NEW s \in Singletons, FirstUse(s) PROVE SingletonsExplained'
  BY <1>6 DEF FirstUse
<1>7. ASSUME NEW a \in Addresses, HandleMake(a) PROVE SingletonsExplained'
  BY <1>7 DEF HandleMake
<1>8. ASSUME NEW h \in handles, HandleRelease(h) PROVE SingletonsExplained'
  BY <1>8 DEF HandleRelease
<1>9. CASE UNCHANGED engineVars BY <1>9 DEF engineVars, history
<1> QED BY <1>1, <1>2, <1>3, <1>4, <1>5, <1>6, <1>7, <1>8, <1>9 DEF EngineNext

(* An initialised engine has its VMs and caches; a released one has only what *)
(* calls made since, and caches only after an initialisation that failed.     *)
THEOREM ReleasedIsExplained == EngineSpec => []SingletonsExplained
<1>1. EngineInit => SingletonsExplained
  BY DEF EngineInit, SingletonsExplained
<1> QED BY <1>1, SingletonsStep, PTL DEF EngineSpec

(* Only a release of a handle takes one away, and it changes one address: two *)
(* handles that both name their objects have different addresses.             *)
LEMMA IndependentStep ==
  EngineType /\ [EngineNext]_engineVars =>
    (root = root' /\ handles \ handles' # {} /\ (\A g \in handles \ handles' : Named(g)) =>
       \A h \in handles \cap handles' : Named(h) => Named(h)')
<1> SUFFICES ASSUME EngineType, [EngineNext]_engineVars, handles \ handles' # {},
                    \A g \in handles \ handles' : Named(g),
                    NEW h \in handles \cap handles', Named(h)
             PROVE  Named(h)'
  OBVIOUS
<1>1. PICK g \in handles : HandleRelease(g)
  BY DEF EngineNext, InitNew, InitAgain, Release, ReleaseAgain, ReleaseAlways, LogSet, FirstUse,
         HandleMake, engineVars, history
<1>2. handles' = handles \ {g} /\ cache' = [cache EXCEPT ![g[1]] = Nothing]
  BY <1>1 DEF HandleRelease
<1>3. Named(g) /\ h # g
  BY <1>2
<1>4. h[1] # g[1]
  BY <1>3 DEF EngineType, Named
<1> QED BY <1>2, <1>4 DEF EngineType, Named

(* Giving back handles that are not stale leaves every other handle in place. *)
THEOREM HandlesAreIndependent == EngineSpec => ReleasesAreIndependent
BY IndependentStep, EngineTypeCorrect, PTL DEF EngineSpec, ReleasesAreIndependent
==============================================================================
