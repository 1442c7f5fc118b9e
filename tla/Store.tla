-------------------------------- MODULE Store --------------------------------
(***************************************************************************)
(* The SQLite store behind the facade: handles of connections and query    *)
(* results (src/DynXX-X.cxx), the connection pool (core/store/             *)
(* ConnPool.hxx) and the databases (core/store/SQLite.cxx).  The KV store  *)
(* is the same without query results.                                      *)
(*                                                                         *)
(* A handle is the address of an object that the pool, or the cache of     *)
(* query results, owns; the facade uses it without asking whether it is    *)
(* still there.  A user is a part of the application that opens a file,    *)
(* works on its handle and closes it once; using a handle whose object is  *)
(* gone is undefined, so here a user whose connection is gone does nothing *)
(* but forget it, and a release of the engine ends every use.              *)
(*                                                                         *)
(* The pool is indexed by the hash of the file's path alone.               *)
(***************************************************************************)
EXTENDS Integers, FiniteSets

CONSTANTS
  Users,     (* parts of the application, on threads of their own         *)
  Files,     (* the files they open                                       *)
  Hash,      (* genCid(): the key of each file in the pool                *)
  Conns,     (* names for connections: 1 .. n, bound on how many are made *)
  Results,   (* names for query results: 1 .. n, likewise                 *)
  Nothing    (* no file, no connection                                    *)

Keys == {Hash[f] : f \in Files}

ASSUME StoreAssumption ==
  /\ Hash \in [Files -> Keys]
  /\ Conns \subseteq Nat /\ Results \subseteq Nat
  /\ Nothing \notin Files /\ Nothing \notin Conns

VARIABLES
  root,      (* _root is set: the engine is initialised                     *)
  store,     (* _sqlite is set                                              *)
  pool,      (* ConnPool::conns: the connection of each key, or Nothing     *)
  file,      (* history: the file each connection was made for              *)
  opened,    (* the sqlite3 handles that are open: those of these Conns     *)
  hasCache,  (* sqlQRCache is set                                           *)
  results,   (* the query results in it                                     *)
  over,      (* the connection that each result has a statement of          *)
  broken,    (* the connections that sqlite3_open_v2() gave an error for    *)
  pc,        (* where each user is in dynxxSQLiteOpen()                     *)
  want,      (* the file it opens or has opened                             *)
  handle,    (* its connection, or Nothing                                  *)
  owns,      (* the query results it has not dropped                        *)
  shared,    (* history: one connection was handed to two users at a time   *)
  raced,     (* history: a store, or a cache of results, replaced another   *)
  orphans    (* history: connections closed while results were outstanding  *)

userVars == <<pc, want, handle, owns>>
history == <<shared, raced, orphans>>
vars == <<root, store, pool, file, opened, hasCache, results, over, broken, userVars, history>>

Alive == {pool[k] : k \in Keys} \ {Nothing}

Init ==
  /\ root = FALSE
  /\ store = FALSE
  /\ pool = [k \in Keys |-> Nothing]
  /\ file = [c \in Conns |-> Nothing]
  /\ opened = {}
  /\ hasCache = FALSE /\ results = {}
  /\ over = [r \in Results |-> Nothing]
  /\ broken = {}
  /\ pc = [u \in Users |-> "idle"]
  /\ want = [u \in Users |-> Nothing]
  /\ handle = [u \in Users |-> Nothing]
  /\ owns = [u \in Users |-> {}]
  /\ shared = FALSE /\ raced = FALSE /\ orphans = {}
-----------------------------------------------------------------------------
(* sqlite3_close() by ~Connection: it refuses, and the handle stays open for *)
(* good, while statements of the connection are not finalised.               *)
HasResults(c) == \E r \in results : over[r] = c
CloseDb(cs) == opened' = opened \ {c \in cs : ~HasResults(c)}

DynxxInit ==
  /\ ~root
  /\ root' = TRUE
  /\ UNCHANGED <<store, pool, file, opened, hasCache, results, over, broken, userVars, history>>

(* dynxxSQLiteOpen(): an engine that is not initialised has no handles. *)
OpenBegin(u, f) ==
  /\ pc[u] = "idle" /\ handle[u] = Nothing /\ owns[u] = {}
  /\ root
  /\ pc' = [pc EXCEPT ![u] = IF ~store THEN "store" ELSE IF ~hasCache THEN "cache" ELSE "pool"]
  /\ want' = [want EXCEPT ![u] = f]
  /\ UNCHANGED <<root, store, pool, file, opened, hasCache, results, over, broken, handle, owns, history>>

(* _sqlite was null when the user looked: it makes a store.  Nothing keeps  *)
(* two users from doing so at once; the later store destroys the earlier.   *)
OpenMakeStore(u) ==
  /\ pc[u] = "store"
  /\ store' = TRUE
  /\ raced' = (raced \/ store)
  /\ CloseDb(Alive)
  /\ pool' = [k \in Keys |-> Nothing]
  /\ pc' = [pc EXCEPT ![u] = IF hasCache THEN "pool" ELSE "cache"]
  /\ UNCHANGED <<root, file, hasCache, results, over, broken, want, handle, owns, shared, orphans>>

(* Likewise the cache of query results; a later one drops what is in the *)
(* earlier.                                                              *)
OpenMakeCache(u) ==
  /\ pc[u] = "cache"
  /\ hasCache' = TRUE
  /\ raced' = (raced \/ hasCache)
  /\ results' = {}
  /\ over' = [r \in Results |-> Nothing]
  /\ pc' = [pc EXCEPT ![u] = "pool"]
  /\ UNCHANGED <<root, store, pool, file, opened, broken, want, handle, owns, shared, orphans>>

(* ConnPool::open(), under its mutex: the connection of that key, or a new one. *)
OpenFound(u) ==
  LET c == pool[Hash[want[u]]] IN
  /\ pc[u] = "pool"
  /\ c # Nothing
  /\ handle' = [handle EXCEPT ![u] = c]
  /\ shared' = (shared \/ \E v \in Users : handle[v] = c)
  /\ pc' = [pc EXCEPT ![u] = "idle"]
  /\ UNCHANGED <<root, store, pool, file, opened, hasCache, results, over, broken, want, owns, raced, orphans>>

OpenNew(u) ==
  LET k == Hash[want[u]] IN
  /\ pc[u] = "pool"
  /\ pool[k] = Nothing
  /\ \E c \in Conns :
       /\ file[c] = Nothing /\ \A d \in Conns : d < c => file[d] # Nothing
       /\ pool' = [pool EXCEPT ![k] = c]
       /\ file' = [file EXCEPT ![c] = want[u]]
       /\ opened' = opened \cup {c}
       /\ broken' \in {broken, broken \cup {c}}
       /\ handle' = [handle EXCEPT ![u] = c]
  /\ pc' = [pc EXCEPT ![u] = "idle"]
  /\ UNCHANGED <<root, store, hasCache, results, over, want, owns, history>>

Usable(u) == pc[u] = "idle" /\ handle[u] \in Alive

(* The statement of a result; a broken connection cannot prepare one, and  *)
(* neither can a good one when the SQL is wrong.                           *)
Statement(u) == IF handle[u] \in broken THEN {Nothing} ELSE {handle[u], Nothing}

(* dynxxSQLiteQueryDo(): the statement lives in a result of its own. *)
QueryDo(u) ==
  /\ Usable(u) /\ hasCache
  /\ \E r \in Results \ results :
       /\ \A q \in Results : q < r => q \in results \/ \E v \in Users : q \in owns[v]
       /\ \A v \in Users : r \notin owns[v]
       /\ \E c \in Statement(u) : over' = [over EXCEPT ![r] = c]
       /\ results' = results \cup {r}
       /\ owns' = [owns EXCEPT ![u] = @ \cup {r}]
  /\ UNCHANGED <<root, store, pool, file, opened, hasCache, broken, pc, want, handle, history>>

(* dynxxSQLiteQueryDrop(), before the close or after it.  A handle of sqlite3 *)
(* that could not be closed then is not closed now.                           *)
QueryDrop(u) ==
  /\ \E r \in owns[u] :
       /\ results' = results \ {r}
       /\ over' = [over EXCEPT ![r] = Nothing]
       /\ owns' = [owns EXCEPT ![u] = @ \ {r}]
  /\ UNCHANGED <<root, store, pool, file, opened, hasCache, broken, pc, want, handle, history>>

(* The mistake of ending the connection and leaving the entry in the pool. *)
CloseKeepsEntry(u) ==
  /\ Usable(u)
  /\ CloseDb({handle[u]})
  /\ orphans' = orphans \cup {c \in {handle[u]} : HasResults(c)}
  /\ handle' = [handle EXCEPT ![u] = Nothing]
  /\ UNCHANGED <<root, store, pool, file, hasCache, results, over, broken, pc, want, owns, shared, raced>>

(* The mistake of ending every connection. *)
CloseEverything(u) ==
  /\ Usable(u)
  /\ CloseDb(Alive)
  /\ orphans' = orphans \cup {c \in Alive : HasResults(c)}
  /\ pool' = [k \in Keys |-> Nothing]
  /\ handle' = [handle EXCEPT ![u] = Nothing]
  /\ UNCHANGED <<root, store, file, hasCache, results, over, broken, pc, want, owns, shared, raced>>

(* dynxxSQLiteClose(): the connection tells its key, and the pool ends what *)
(* it has under that key, for every user of it.                             *)
Close(u) ==
  /\ Usable(u)
  /\ LET k == Hash[file[handle[u]]] IN
     /\ CloseDb({pool[k]})
     /\ orphans' = orphans \cup {c \in {pool[k]} : HasResults(c)}
     /\ pool' = [pool EXCEPT ![k] = Nothing]
  /\ handle' = [handle EXCEPT ![u] = Nothing]
  /\ UNCHANGED <<root, store, file, hasCache, results, over, broken, pc, want, owns, shared, raced>>

(* A user gives up a handle whose connection is gone. *)
Forget(u) ==
  /\ pc[u] = "idle" /\ handle[u] \notin Alive \cup {Nothing}
  /\ handle' = [handle EXCEPT ![u] = Nothing]
  /\ UNCHANGED <<root, store, pool, file, opened, hasCache, results, over, broken, pc, want, owns, history>>

EndUses ==
  /\ handle' = [u \in Users |-> Nothing]
  /\ owns' = [u \in Users |-> {}]
  /\ want' = [u \in Users |-> Nothing]

(* The mistake of closing the connections before the results are dropped. *)
DynxxReleaseConnsFirst ==
  /\ root
  /\ \A u \in Users : pc[u] = "idle"
  /\ root' = FALSE
  /\ store' = FALSE
  /\ CloseDb(Alive)
  /\ hasCache' = FALSE
  /\ results' = {}
  /\ pool' = [k \in Keys |-> Nothing]
  /\ EndUses
  /\ over' = [r \in Results |-> Nothing]
  /\ UNCHANGED <<file, broken, pc, history>>

(* dynxxRelease(): the query results go first, then the connections. *)
DynxxRelease ==
  /\ root
  /\ \A u \in Users : pc[u] = "idle"
  /\ root' = FALSE
  /\ store' = FALSE
  /\ hasCache' = FALSE
  /\ results' = {}
  /\ opened' = opened \ Alive
  /\ pool' = [k \in Keys |-> Nothing]
  /\ EndUses
  /\ over' = [r \in Results |-> Nothing]
  /\ UNCHANGED <<file, broken, pc, history>>

Next ==
  \/ DynxxInit \/ DynxxRelease
  \/ \E u \in Users, f \in Files : OpenBegin(u, f)
  \/ \E u \in Users :
       \/ OpenMakeStore(u) \/ OpenMakeCache(u) \/ OpenFound(u) \/ OpenNew(u)
       \/ QueryDo(u) \/ QueryDrop(u) \/ Close(u) \/ Forget(u)

Spec == Init /\ [][Next]_vars
-----------------------------------------------------------------------------
TypeOK ==
  /\ root \in BOOLEAN /\ store \in BOOLEAN
  /\ pool \in [Keys -> Conns \cup {Nothing}]
  /\ file \in [Conns -> Files \cup {Nothing}]
  /\ opened \in SUBSET Conns
  /\ hasCache \in BOOLEAN /\ results \in SUBSET Results
  /\ over \in [Results -> Conns \cup {Nothing}]
  /\ broken \in SUBSET Conns
  /\ pc \in [Users -> {"idle", "store", "cache", "pool"}]
  /\ want \in [Users -> Files \cup {Nothing}]
  /\ handle \in [Users -> Conns \cup {Nothing}]
  /\ owns \in [Users -> SUBSET Results]
  /\ shared \in BOOLEAN /\ raced \in BOOLEAN
  /\ orphans \in SUBSET Conns

(* A connection is in the pool under the key of its own file, with a handle *)
(* of sqlite3 that was not closed, and only while there is a store in an initialised engine: *)
(* what ConnPool::open() finds can be used.                                 *)
PoolUsable ==
  /\ \A k \in Keys : pool[k] # Nothing => pool[k] \in opened /\ Hash[file[pool[k]]] = k /\ store
  /\ store => root

(***************************************************************************)
(* A handle that a user has neither closed nor lost to a release is the    *)
(* handle of a living connection under the key of the file the user        *)
(* opened, as long as no two users had one connection at a time (the same  *)
(* file, or two files of one hash) and no two of them made the store at    *)
(* once.  And a result that a user has not dropped is in the cache, as     *)
(* long as no two of them made that at once.                               *)
(***************************************************************************)
HandlesLive ==
  ~raced =>
    \A u \in Users :
      /\ handle[u] # Nothing /\ ~shared =>
           handle[u] \in Alive /\ Hash[file[handle[u]]] = Hash[want[u]]
      /\ owns[u] \subseteq results

(***************************************************************************)
(* No database stays open behind the pool's back, except those that were   *)
(* closed while query results were outstanding (or with a store that was   *)
(* replaced): a release, which drops the results first, leaves none.  And  *)
(* no query result outlives its database.                                  *)
(***************************************************************************)
DatabasesExplained ==
  /\ ~raced => opened \ Alive \subseteq orphans
  /\ \A r \in results : over[r] # Nothing => over[r] \in opened
=============================================================================
