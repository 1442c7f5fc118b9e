----------------------------- MODULE HttpClient ------------------------------
(***************************************************************************)
(* Requests and downloads of the HTTP client (core/net/HttpClient.cxx) and *)
(* its part of the facade (DynXX-X.cxx).  Each runs on the thread that     *)
(* calls it, while another thread sets the certificate, the proxy and the  *)
(* DNS entries; each of the three is read at a moment of its own.  The     *)
(* client object is made by whoever comes first, with no lock.             *)
(*                                                                         *)
(* The server is external: it answers, or sends the client elsewhere, with *)
(* "see other" (a GET is to follow) or "same" (the same again: a 307).  So *)
(* is libcurl, with the options that the code sets: it follows, and cannot *)
(* send again what it got from the code's callbacks, which do not rewind.  *)
(* The headers of answers are left out.                                    *)
(***************************************************************************)
EXTENDS Integers, Sequences, FiniteSets

CONSTANTS Clients,   (* the threads that request                            *)
          Asks,      (* what each of them may ask                           *)
          MaxSets,   (* bound on the settings                               *)
          MaxHops    (* bound on the hops of a request                      *)

(* What a caller asks: an operation, with the data it gives.  Of the form     *)
(* fields: how many there are, and whether one of them is empty.              *)
Questions == [op : {"request", "download"}, url : {"http", "https", "invalid"},
              method : {"get", "post", "put"}, params : BOOLEAN, raw : BOOLEAN,
              fields : 0 .. 2, empty : BOOLEAN, file : BOOLEAN]
Plain == [op |-> "request", url |-> "http", method |-> "get", params |-> FALSE, raw |-> FALSE,
          fields |-> 0, empty |-> FALSE, file |-> FALSE]
NoAsk == [Plain EXCEPT !.op = "none"]

ASSUME HttpAssumption == Asks \in [Clients -> SUBSET Questions] /\ MaxSets \in Nat /\ MaxHops \in Nat

VARIABLES
  config,   (* gCertPath, gProxy, gDnsConfigs: the number of the setting, or 0 *)
  sets,     (* history: the settings so far                                *)
  client,   (* _http_client: the number of the object, or 0                *)
  made,     (* the objects ever made                                       *)
  inits,    (* how often libcurl is initialised: it counts                 *)
  pc, ask,  (* where each thread is, what it asks                          *)
  mine,     (* the object it has made, and the one it found                *)
  got,      (* the configuration it has read                               *)
  seen,     (* history: the configurations since it began                  *)
  hop,      (* how often it was sent elsewhere                             *)
  wire,     (* what the server was sent last: the method and its data      *)
  ok,       (* the caller gets an answer, and for a download: true         *)
  disk      (* a download's file: "old", "part", "whole", or "cut"         *)

httpVars == <<config, sets, client, made, inits, pc, ask, mine, got, seen, hop, wire, ok, disk>>

ConfigParts == {"cert", "proxy", "dns"}
NoConfig == [p \in ConfigParts |-> 0]
Each(v) == [t \in Clients |-> v]

HttpInit ==
  /\ config = NoConfig /\ sets = 0
  /\ client = 0 /\ made = 0 /\ inits = 0
  /\ pc = Each("idle") /\ ask = Each(NoAsk) /\ mine = Each([new |-> 0, old |-> 0])
  /\ got = Each(NoConfig) /\ seen = Each(<<>>)
  /\ hop = Each(0) /\ wire = Each([method |-> "none", data |-> {}])
  /\ ok = Each(FALSE) /\ disk = Each("old")

Creating == {t \in Clients : pc[t] \in {"look", "make", "swap", "cert", "proxy", "dns"}}
Go(t, to) == pc' = [pc EXCEPT ![t] = to]
-----------------------------------------------------------------------------
(* One of the three is set, under the lock: to nothing, or to something new.  *)
(* The threads that are creating a request may see it.                        *)
SetConfig ==
  /\ sets < MaxSets
  /\ \E p \in ConfigParts : \E v \in {0, sets + 1} : config' = [config EXCEPT ![p] = v]
  /\ sets' = sets + 1
  /\ seen' = [t \in Clients |-> IF t \in Creating THEN Append(seen[t], config') ELSE seen[t]]
  /\ UNCHANGED <<client, made, inits, pc, ask, mine, got, hop, wire, ok, disk>>

Ask(t) ==
  /\ pc[t] = "idle"
  /\ \E a \in Asks[t] : ask' = [ask EXCEPT ![t] = a]
  /\ seen' = [seen EXCEPT ![t] = <<config>>]
  /\ Go(t, "look")
  /\ UNCHANGED <<config, sets, client, made, inits, mine, got, hop, wire, ok, disk>>

(* The client object: looked for, made (which initialises libcurl), put in    *)
(* the place of the one that was there, which is destroyed.                   *)
FindClient(t) ==
  /\ pc[t] = "look"
  /\ Go(t, IF client = 0 THEN "make" ELSE "cert")
  /\ UNCHANGED <<config, sets, client, made, inits, ask, mine, got, seen, hop, wire, ok, disk>>

(* The mistake of destroying the old one first, and libcurl with it. *)
MakeClientLate(t) ==
  /\ pc[t] = "make"
  /\ inits' = IF client = 0 THEN inits ELSE inits - 1
  /\ made' = made + 1
  /\ mine' = [mine EXCEPT ![t] = [new |-> made + 1, old |-> 0]]
  /\ Go(t, "swap")
  /\ UNCHANGED <<config, sets, client, ask, got, seen, hop, wire, ok, disk>>

MakeClient(t) ==
  /\ pc[t] = "make"
  /\ inits' = inits + 1
  /\ made' = made + 1
  /\ mine' = [mine EXCEPT ![t] = [new |-> made + 1, old |-> client]]
  /\ Go(t, "swap")
  /\ UNCHANGED <<config, sets, client, ask, got, seen, hop, wire, ok, disk>>

(* Two threads race on the pointer: the old one may have been read before. *)
PutClient(t) ==
  /\ pc[t] = "swap"
  /\ client' = mine[t].new
  /\ \E old \in {mine[t].old, client} : inits' = IF old = 0 THEN inits ELSE inits - 1
  /\ Go(t, "cert")
  /\ UNCHANGED <<config, sets, made, ask, mine, got, seen, hop, wire, ok, disk>>
-----------------------------------------------------------------------------
(* createReq(): the certificate is read for https only.  With an address that *)
(* is none it stops here, and the request goes on without one.                *)
ReadCert(t) ==
  /\ pc[t] = "cert"
  /\ got' = IF ask[t].url = "https" THEN [got EXCEPT ![t]["cert"] = config["cert"]] ELSE got
  /\ Go(t, IF ask[t].url = "invalid" THEN "body" ELSE "proxy")
  /\ UNCHANGED <<config, sets, client, made, inits, ask, mine, seen, hop, wire, ok, disk>>

ReadProxy(t) ==
  /\ pc[t] = "proxy"
  /\ got' = [got EXCEPT ![t]["proxy"] = config["proxy"]]
  /\ Go(t, "dns")
  /\ UNCHANGED <<config, sets, client, made, inits, ask, mine, seen, hop, wire, ok, disk>>

ReadDns(t) ==
  /\ pc[t] = "dns"
  /\ got' = [got EXCEPT ![t]["dns"] = config["dns"]]
  /\ Go(t, "body")
  /\ UNCHANGED <<config, sets, client, made, inits, ask, mine, seen, hop, wire, ok, disk>>

(* What is sent.  A file makes it a PUT; form fields make it a POST of one     *)
(* part, in which each field replaces the one before; else only a POST has a   *)
(* body, and only a GET has parameters in its address.                         *)
Wire(a) ==
  LET query == IF a.method = "get" /\ a.params THEN {"query"} ELSE {}
  IN IF a.file THEN [method |-> "put", data |-> query \cup {"file"}]
     ELSE IF a.fields > 0 THEN [method |-> "post", data |-> query \cup {"lastField"}]
     ELSE IF a.method # "post" THEN [method |-> "get", data |-> query]
     ELSE [method |-> "post",
           data |-> IF a.raw THEN {"raw"} ELSE IF a.params THEN {"params"} ELSE {}]

End(t, good) == Go(t, "done") /\ ok' = [ok EXCEPT ![t] = good]

(* The file of a download is opened, which empties it, or cannot be.  A form   *)
(* with an empty field ends the request.                                       *)
PutBody(t) ==
  /\ pc[t] = "body"
  /\ IF ask[t].op = "download"
     THEN \/ Go(t, "send") /\ disk' = [disk EXCEPT ![t] = "part"] /\ UNCHANGED ok
          \/ End(t, FALSE) /\ UNCHANGED disk
     ELSE /\ IF ask[t].fields > 0 /\ ask[t].empty /\ ~ask[t].file
             THEN End(t, FALSE) ELSE Go(t, "send") /\ UNCHANGED ok
          /\ UNCHANGED disk
  /\ got' = [got EXCEPT ![t] = NoConfig]      \* it is libcurl's now
  /\ seen' = [seen EXCEPT ![t] = <<>>]
  /\ UNCHANGED <<config, sets, client, made, inits, ask, mine, hop, wire>>

Send(t) ==
  /\ pc[t] = "send"
  /\ IF ask[t].url = "invalid"
     THEN End(t, FALSE) /\ UNCHANGED wire
     ELSE Go(t, "wait") /\ wire' = [wire EXCEPT ![t] = Wire(ask[t])] /\ UNCHANGED ok
  /\ UNCHANGED <<config, sets, client, made, inits, ask, mine, got, seen, hop, disk>>

(* The server sends it elsewhere, to an address that has no query of ours. *)
Redirect(t) ==
  /\ pc[t] = "wait" /\ hop[t] < MaxHops
  /\ hop' = [hop EXCEPT ![t] = @ + 1]
  /\ \/ /\ wire' = [wire EXCEPT ![t] = [method |-> "get", data |-> {}]]
        /\ UNCHANGED <<pc, ok>>
     \/ /\ wire[t].data \cap {"raw", "file"} = {}
        /\ wire' = [wire EXCEPT ![t].data = @ \ {"query"}]
        /\ UNCHANGED <<pc, ok>>
     \/ /\ wire[t].data \cap {"raw", "file"} # {}
        /\ End(t, FALSE)
        /\ UNCHANGED wire
  /\ UNCHANGED <<config, sets, client, made, inits, ask, mine, got, seen, disk>>

(* The answer, or an error: the timeout, a lost connection, a full disk.  A    *)
(* download wants a 200; what its file holds back until it is closed may be    *)
(* lost then, and nobody looks.                                                *)
Respond(t) ==
  /\ pc[t] = "wait"
  /\ \/ End(t, FALSE) /\ UNCHANGED disk
     \/ End(t, TRUE) /\ disk' = [disk EXCEPT ![t] = IF @ = "part" THEN "whole" ELSE @]
     \/ disk[t] = "part" /\ End(t, TRUE) /\ disk' = [disk EXCEPT ![t] = "cut"]
  /\ UNCHANGED <<config, sets, client, made, inits, ask, mine, got, seen, hop, wire>>

HttpNext ==
  \/ SetConfig
  \/ \E t \in Clients : \/ Ask(t) \/ FindClient(t) \/ MakeClient(t) \/ PutClient(t)
                        \/ ReadCert(t) \/ ReadProxy(t) \/ ReadDns(t)
                        \/ PutBody(t) \/ Send(t) \/ Redirect(t) \/ Respond(t)
-----------------------------------------------------------------------------
(* Whoever makes the client object, and whoever loses that race: libcurl is   *)
(* initialised while a request is under way (DynXX-X.cxx:460, :575).          *)
LibraryReady ==
  \A t \in Clients : pc[t] \in {"cert", "proxy", "dns", "body", "send", "wait"} => inits > 0

(* A request has the certificate, the proxy and the DNS entries that were set *)
(* at three moments of its creation, in this order: all of one moment when    *)
(* nobody set them meanwhile (HttpClient.cxx:82, :413, :472).                 *)
ConfigOfItsTime ==
  \A t \in Clients :
    pc[t] = "body" /\ ask[t].url # "invalid" =>
      \E i, j, k \in DOMAIN seen[t] :
        /\ i <= j /\ j <= k
        /\ ask[t].url = "https" => got[t]["cert"] = seen[t][i]["cert"]
        /\ got[t]["proxy"] = seen[t][j]["proxy"]
        /\ got[t]["dns"] = seen[t][k]["dns"]

(* A request that gives its method the one kind of data it takes is sent as   *)
(* that method with that data.  What is not sent again after a redirect is    *)
(* not answered, unless the server asked for a GET (HttpClient.cxx:309-346,   *)
(* :547-610).                                                                 *)
Given(a) == {d \in {"params", "raw", "lastField", "file"} :
               CASE d = "params" -> a.params [] d = "raw" -> a.raw
                 [] d = "file" -> a.file [] OTHER -> a.fields = 1}
Proper(a) == CASE a.method = "get" -> Given(a) \subseteq {"params"}
               [] a.method = "post" -> Given(a) \in {{}, {"params"}, {"raw"}, {"lastField"}}
               [] OTHER -> Given(a) = {"file"}
SentAsAsked ==
  \A t \in Clients :
    LET a == ask[t]
    IN pc[t] \in {"wait", "done"} /\ wire[t].method # "none" /\ Proper(a) /\ a.fields < 2 =>
         \/ wire[t].method = a.method /\ wire[t].data = IF a.method # "get" THEN Given(a)
                                           ELSE IF a.params /\ hop[t] = 0 THEN {"query"} ELSE {}
         \/ hop[t] > 0 /\ wire[t] = [method |-> "get", data |-> {}]
         \/ pc[t] = "done" /\ ~ok[t]

(* A download that returns true has its file whole, up to what was lost when  *)
(* it was closed; with any other end the old file is gone as soon as it was   *)
(* opened (HttpClient.cxx:612-640).                                           *)
DownloadTold ==
  \A t \in Clients : pc[t] = "done" /\ ask[t].op = "download" =>
                       IF ok[t] THEN disk[t] \in {"whole", "cut"} ELSE disk[t] \in {"old", "part"}

HttpKept == LibraryReady /\ ConfigOfItsTime /\ SentAsAsked /\ DownloadTold
=============================================================================
