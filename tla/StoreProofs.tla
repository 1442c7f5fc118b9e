----------------------------- MODULE StoreProofs -----------------------------
(***************************************************************************)
(* Proofs about Store for every number of users, files, connections and    *)
(* results, and every hash: what the pool finds can be used, a handle dies *)
(* under its user only when a connection was shared or the store was made  *)
(* twice, and which databases stay open.                                   *)
(***************************************************************************)
EXTENDS Store, TLAPS

USE StoreAssumption DEF StoreAssumption

(* How far dynxxSQLiteOpen() has got says what there is. *)
PhaseInv ==
  /\ \A u \in Users :
       /\ pc[u] # "idle" => root /\ handle[u] = Nothing
       /\ pc[u] \in {"cache", "pool"} => store
       /\ pc[u] = "pool" => hasCache
       /\ pc[u] # "idle" \/ handle[u] # Nothing => want[u] \in Files
  /\ results # {} => hasCache

(* A connection that somebody has was made for a file. *)
FileInv ==
  /\ \A k \in Keys : pool[k] # Nothing => file[pool[k]] \in Files
  /\ \A u \in Users : handle[u] # Nothing => file[handle[u]] \in Files

(* A result has one owner, and a connection one user, unless it was shared. *)
OwnerInv ==
  /\ \A u, v \in Users : owns[u] \cap owns[v] # {} => u = v
  /\ ~shared => \A u, v \in Users : handle[u] = handle[v] /\ handle[u] # Nothing => u = v

IInv ==
  /\ TypeOK
  /\ PhaseInv
  /\ FileInv
  /\ OwnerInv
  /\ PoolUsable
  /\ HandlesLive
  /\ DatabasesExplained

(* At the start there is nothing. *)
LEMMA InitIInv == Init => IInv
<1> SUFFICES ASSUME Init PROVE IInv
  OBVIOUS
<1> USE DEF Init
<1>1. TypeOK
  <2>1. /\ root \in BOOLEAN /\ store \in BOOLEAN /\ hasCache \in BOOLEAN
        /\ shared \in BOOLEAN /\ raced \in BOOLEAN
    OBVIOUS
  <2>2. /\ pool \in [Keys -> Conns \cup {Nothing}]
        /\ file \in [Conns -> Files \cup {Nothing}]
        /\ over \in [Results -> Conns \cup {Nothing}]
    OBVIOUS
  <2>3. /\ pc \in [Users -> {"idle", "store", "cache", "pool"}]
        /\ want \in [Users -> Files \cup {Nothing}]
        /\ handle \in [Users -> Conns \cup {Nothing}]
        /\ owns \in [Users -> SUBSET Results]
    OBVIOUS
  <2>4. /\ opened \in SUBSET Conns /\ results \in SUBSET Results
        /\ broken \in SUBSET Conns /\ orphans \in SUBSET Conns
    OBVIOUS
  <2> QED BY <2>1, <2>2, <2>3, <2>4 DEF TypeOK
<1>2. PhaseInv /\ FileInv /\ OwnerInv
  BY DEF PhaseInv, FileInv, OwnerInv
<1>3. PoolUsable
  BY DEF PoolUsable
<1>4. HandlesLive /\ DatabasesExplained
  BY DEF HandlesLive, DatabasesExplained
<1> QED BY <1>1, <1>2, <1>3, <1>4 DEF IInv

(* The connections in the pool, and the key of a file, have their types. *)
LEMMA AliveType == TypeOK => Alive \subseteq Conns
BY DEF TypeOK, Alive

(* A connection that is in the pool is there under the key of its file. *)
LEMMA AliveInPool ==
  ASSUME TypeOK, PoolUsable, NEW c \in Alive
  PROVE  c \in Conns /\ Hash[file[c]] \in Keys /\ pool[Hash[file[c]]] = c
BY DEF TypeOK, PoolUsable, Alive

LEMMA HashKey == \A f \in Files : Hash[f] \in Keys
OBVIOUS

(* Every action keeps the types. *)
LEMMA TypeStep == TypeOK /\ PhaseInv /\ PoolUsable /\ [Next]_vars => TypeOK'
<1> SUFFICES ASSUME TypeOK, PhaseInv, PoolUsable, [Next]_vars PROVE TypeOK'
  OBVIOUS
<1> USE DEF TypeOK, CloseDb, history, userVars
<1>1. CASE DynxxInit BY <1>1 DEF DynxxInit
<1>2. CASE DynxxRelease BY <1>2 DEF DynxxRelease, EndUses
<1>3. ASSUME NEW u \in Users, NEW f \in Files, OpenBegin(u, f) PROVE TypeOK'
  BY <1>3 DEF OpenBegin
<1>4. ASSUME NEW u \in Users, OpenMakeStore(u) PROVE TypeOK'
  BY <1>4 DEF OpenMakeStore
<1>5. ASSUME NEW u \in Users, OpenMakeCache(u) PROVE TypeOK'
  BY <1>5 DEF OpenMakeCache
<1>6. ASSUME NEW u \in Users, OpenFound(u) PROVE TypeOK'
  BY <1>6, HashKey DEF OpenFound, PhaseInv
<1>7. ASSUME NEW u \in Users, OpenNew(u) PROVE TypeOK'
  BY <1>7, HashKey DEF OpenNew, PhaseInv
<1>8. ASSUME NEW u \in Users, QueryDo(u) PROVE TypeOK'
  BY <1>8, AliveType DEF QueryDo, Usable, Statement
<1>9. ASSUME NEW u \in Users, QueryDrop(u) PROVE TypeOK'
  BY <1>9 DEF QueryDrop
<1>10. ASSUME NEW u \in Users, Close(u) PROVE TypeOK'
  <2> DEFINE k == Hash[file[handle[u]]]
  <2>1. opened' \in SUBSET Conns
    BY <1>10 DEF Close
  <2>2. orphans' \in SUBSET Conns
    <3>1. pool[k] \in Conns
      BY <1>10, AliveInPool DEF Close, Usable
    <3> QED BY <1>10, <3>1 DEF Close
  <2>3. pool' \in [Keys -> Conns \cup {Nothing}] /\ handle' \in [Users -> Conns \cup {Nothing}]
    BY <1>10 DEF Close
  <2> QED BY <1>10, <2>1, <2>2, <2>3 DEF Close
<1>11. ASSUME NEW u \in Users, Forget(u) PROVE TypeOK'
  BY <1>11 DEF Forget
<1>12. CASE UNCHANGED vars BY <1>12 DEF vars
<1> QED
  BY <1>1, <1>2, <1>3, <1>4, <1>5, <1>6, <1>7, <1>8, <1>9, <1>10, <1>11, <1>12 DEF Next

(* A release, the one step that takes the store away, waits for every call *)
(* of dynxxSQLiteOpen().                                                   *)
LEMMA PhaseStep == TypeOK /\ PhaseInv /\ [Next]_vars => PhaseInv'
<1> SUFFICES ASSUME TypeOK, PhaseInv, [Next]_vars PROVE PhaseInv'
  OBVIOUS
<1> USE DEF TypeOK, PhaseInv, history, userVars
<1>1. CASE DynxxInit BY <1>1 DEF DynxxInit
<1>2. CASE DynxxRelease BY <1>2 DEF DynxxRelease, EndUses
<1>3. ASSUME NEW u \in Users, NEW f \in Files, OpenBegin(u, f) PROVE PhaseInv'
  BY <1>3 DEF OpenBegin
<1>4. ASSUME NEW u \in Users, OpenMakeStore(u) PROVE PhaseInv'
  BY <1>4 DEF OpenMakeStore
<1>5. ASSUME NEW u \in Users, OpenMakeCache(u) PROVE PhaseInv'
  BY <1>5 DEF OpenMakeCache
<1>6. ASSUME NEW u \in Users, OpenFound(u) PROVE PhaseInv'
  BY <1>6 DEF OpenFound
<1>7. ASSUME NEW u \in Users, OpenNew(u) PROVE PhaseInv'
  BY <1>7 DEF OpenNew
<1>8. ASSUME NEW u \in Users, QueryDo(u) PROVE PhaseInv'
  BY <1>8 DEF QueryDo
<1>9. ASSUME NEW u \in Users, QueryDrop(u) PROVE PhaseInv'
  BY <1>9 DEF QueryDrop
<1>10. ASSUME NEW u \in Users, Close(u) PROVE PhaseInv'
  BY <1>10 DEF Close
<1>11. ASSUME NEW u \in Users, Forget(u) PROVE PhaseInv'
  BY <1>11 DEF Forget
<1>12. CASE UNCHANGED vars BY <1>12 DEF vars
<1> QED
  BY <1>1, <1>2, <1>3, <1>4, <1>5, <1>6, <1>7, <1>8, <1>9, <1>10, <1>11, <1>12 DEF Next

(* A connection gets its file when it is made, for good. *)
LEMMA FileStep == TypeOK /\ PhaseInv /\ FileInv /\ [Next]_vars => FileInv'
<1> SUFFICES ASSUME TypeOK, PhaseInv, FileInv, [Next]_vars PROVE FileInv'
  OBVIOUS
<1> USE DEF TypeOK, FileInv, history, userVars
<1>1. ASSUME file' = file,
             \A k \in Keys : pool'[k] \in {pool[k], Nothing},
             \A u \in Users : handle'[u] \in {handle[u], Nothing}
      PROVE  FileInv'
  BY <1>1
<1>2. CASE DynxxInit \/ UNCHANGED vars BY <1>1, <1>2 DEF DynxxInit, vars
<1>3. CASE DynxxRelease BY <1>1, <1>3 DEF DynxxRelease, EndUses
<1>4. ASSUME NEW u \in Users, NEW f \in Files, OpenBegin(u, f) PROVE FileInv'
  BY <1>1, <1>4 DEF OpenBegin
<1>5. ASSUME NEW u \in Users, OpenMakeStore(u) \/ OpenMakeCache(u) PROVE FileInv'
  BY <1>1, <1>5 DEF OpenMakeStore, OpenMakeCache
<1>6. ASSUME NEW u \in Users, OpenFound(u) PROVE FileInv'
  BY <1>6, HashKey DEF OpenFound, PhaseInv
<1>7. ASSUME NEW u \in Users, OpenNew(u) PROVE FileInv'
  BY <1>7 DEF OpenNew, PhaseInv
<1>8. ASSUME NEW u \in Users, QueryDo(u) \/ QueryDrop(u) PROVE FileInv'
  BY <1>1, <1>8 DEF QueryDo, QueryDrop
<1>9. ASSUME NEW u \in Users, Close(u) \/ Forget(u) PROVE FileInv'
  BY <1>1, <1>9 DEF Close, Forget
<1> QED BY <1>2, <1>3, <1>4, <1>5, <1>6, <1>7, <1>8, <1>9 DEF Next

(* Only the name that dynxxSQLiteOpen() gives and the result that a query    *)
(* makes are new to the users; both are new altogether, unless the           *)
(* connection was found in the pool.                                         *)
LEMMA OwnerStep ==
  TypeOK /\ FileInv /\ OwnerInv /\ [Next]_vars => OwnerInv'
<1> SUFFICES ASSUME TypeOK, FileInv, OwnerInv, [Next]_vars PROVE OwnerInv'
  OBVIOUS
<1> USE DEF TypeOK, OwnerInv, history, userVars
<1>1. CASE DynxxInit BY <1>1 DEF DynxxInit
<1>2. CASE DynxxRelease BY <1>2 DEF DynxxRelease, EndUses
<1>3. ASSUME NEW u \in Users, NEW f \in Files, OpenBegin(u, f) PROVE OwnerInv'
  BY <1>3 DEF OpenBegin
<1>4. ASSUME NEW u \in Users, OpenMakeStore(u) PROVE OwnerInv'
  BY <1>4 DEF OpenMakeStore
<1>5. ASSUME NEW u \in Users, OpenMakeCache(u) PROVE OwnerInv'
  BY <1>5 DEF OpenMakeCache
<1>6. ASSUME NEW u \in Users, OpenFound(u) PROVE OwnerInv'
  BY <1>6 DEF OpenFound
<1>7. ASSUME NEW u \in Users, OpenNew(u) PROVE OwnerInv'
  <2>1. PICK c \in Conns : file[c] = Nothing /\ handle' = [handle EXCEPT ![u] = c]
    BY <1>7 DEF OpenNew
  <2>2. \A v \in Users : handle[v] # c
    BY <2>1 DEF FileInv
  <2> QED BY <1>7, <2>1, <2>2 DEF OpenNew
<1>8. ASSUME NEW u \in Users, QueryDo(u) PROVE OwnerInv'
  BY <1>8 DEF QueryDo
<1>9. ASSUME NEW u \in Users, QueryDrop(u) PROVE OwnerInv'
  BY <1>9 DEF QueryDrop
<1>10. ASSUME NEW u \in Users, Close(u) PROVE OwnerInv'
  BY <1>10 DEF Close
<1>11. ASSUME NEW u \in Users, Forget(u) PROVE OwnerInv'
  BY <1>11 DEF Forget
<1>12. CASE UNCHANGED vars BY <1>12 DEF vars
<1> QED
  BY <1>1, <1>2, <1>3, <1>4, <1>5, <1>6, <1>7, <1>8, <1>9, <1>10, <1>11, <1>12 DEF Next
(* A connection goes into the pool under the key of its file, and its        *)
(* database is closed in the step that takes it out, by a pool that has it   *)
(* under no other key.                                                       *)
LEMMA PoolStep == TypeOK /\ PhaseInv /\ FileInv /\ PoolUsable /\ [Next]_vars => PoolUsable'
<1> SUFFICES ASSUME TypeOK, PhaseInv, FileInv, PoolUsable, [Next]_vars PROVE PoolUsable'
  OBVIOUS
<1> USE DEF TypeOK, PoolUsable, history, userVars
<1>1. ASSUME UNCHANGED <<root, store, pool, file, opened>> PROVE PoolUsable'
  BY <1>1
<1>2. CASE DynxxInit BY <1>2 DEF DynxxInit
<1>3. CASE DynxxRelease BY <1>3 DEF DynxxRelease
<1>4. ASSUME NEW u \in Users, NEW f \in Files, OpenBegin(u, f) PROVE PoolUsable'
  BY <1>1, <1>4 DEF OpenBegin
<1>5. ASSUME NEW u \in Users, OpenMakeStore(u) PROVE PoolUsable'
  BY <1>5 DEF OpenMakeStore, PhaseInv
<1>6. ASSUME NEW u \in Users, OpenMakeCache(u) \/ OpenFound(u) PROVE PoolUsable'
  BY <1>1, <1>6 DEF OpenMakeCache, OpenFound
<1>7. ASSUME NEW u \in Users, OpenNew(u) PROVE PoolUsable'
  <2> DEFINE k == Hash[want[u]]
  <2>1. store /\ want[u] \in Files /\ k \in Keys
    BY <1>7, HashKey DEF OpenNew, PhaseInv
  <2>2. PICK c \in Conns :
          /\ file[c] = Nothing
          /\ pool' = [pool EXCEPT ![k] = c]
          /\ file' = [file EXCEPT ![c] = want[u]]
          /\ opened' = opened \cup {c}
    BY <1>7 DEF OpenNew
  <2>3. ASSUME NEW j \in Keys, j # k, pool[j] # Nothing
        PROVE  pool'[j] = pool[j] /\ pool[j] # c /\ file'[pool[j]] = file[pool[j]]
    BY <2>2, <2>3 DEF FileInv
  <2> QED BY <1>7, <2>1, <2>2, <2>3 DEF OpenNew
<1>8. ASSUME NEW u \in Users, QueryDo(u) \/ QueryDrop(u) \/ Forget(u) PROVE PoolUsable'
  BY <1>1, <1>8 DEF QueryDo, QueryDrop, Forget
<1>9. ASSUME NEW u \in Users, Close(u) PROVE PoolUsable'
  <2> DEFINE k == Hash[file[handle[u]]]
  <2>1. /\ pool' = [pool EXCEPT ![k] = Nothing]
        /\ opened' = opened \ {c \in {pool[k]} : ~HasResults(c)}
        /\ UNCHANGED <<root, store, file>>
    BY <1>9 DEF Close, CloseDb
  <2>2. k \in Keys
    BY <1>9, HashKey DEF Close, Usable, Alive, FileInv
  <2>3. ASSUME NEW j \in Keys, j # k, pool[j] # Nothing
        PROVE  pool[j] # pool[k]
    BY <2>2, <2>3
  <2> QED BY <2>1, <2>2, <2>3
<1>10. CASE UNCHANGED vars BY <1>1, <1>10 DEF vars
<1> QED BY <1>2, <1>3, <1>4, <1>5, <1>6, <1>7, <1>8, <1>9, <1>10 DEF Next

(* What a user has neither closed nor lost stays in the pool: only the user *)
(* itself, a raced creation or a release could take it out.                 *)
LEMMA HandlesStep == IInv /\ [Next]_vars => HandlesLive'
<1> SUFFICES ASSUME IInv, [Next]_vars PROVE HandlesLive'
  OBVIOUS
<1> USE DEF IInv, TypeOK, HandlesLive, history, userVars
<1>1. ASSUME UNCHANGED <<pool, file, results, handle, want, owns, shared, raced>> PROVE HandlesLive'
  BY <1>1 DEF Alive
<1>2. CASE DynxxInit BY <1>1, <1>2 DEF DynxxInit
<1>3. CASE DynxxRelease BY <1>3 DEF DynxxRelease, EndUses
<1>4. ASSUME NEW u \in Users, NEW f \in Files, OpenBegin(u, f) PROVE HandlesLive'
  BY <1>4 DEF OpenBegin, Alive
<1>5. ASSUME NEW u \in Users, OpenMakeStore(u) PROVE HandlesLive'
  <2>1. ASSUME ~store PROVE Alive = {}
    BY <2>1 DEF PoolUsable, Alive
  <2>2. ASSUME ~store PROVE Alive' = {}
    BY <1>5 DEF OpenMakeStore, Alive
  <2> QED BY <1>5, <2>1, <2>2 DEF OpenMakeStore
<1>6. ASSUME NEW u \in Users, OpenMakeCache(u) PROVE HandlesLive'
  BY <1>6 DEF OpenMakeCache, PhaseInv, Alive
<1>7. ASSUME NEW u \in Users, OpenFound(u) PROVE HandlesLive'
  <2> DEFINE k == Hash[want[u]]
  <2>1. k \in Keys /\ pool[k] # Nothing
    BY <1>7, HashKey DEF OpenFound, PhaseInv
  <2>2. pool[k] \in Alive /\ Hash[file[pool[k]]] = k
    BY <2>1 DEF Alive, PoolUsable
  <2>3. handle' = [handle EXCEPT ![u] = pool[k]] /\ (~shared' => ~shared)
        /\ UNCHANGED <<pool, file, results, want, owns, raced>>
    BY <1>7 DEF OpenFound
  <2>4. Alive' = Alive
    BY <2>3 DEF Alive
  <2>5. ASSUME NEW v \in Users, ~raced, ~shared', handle'[v] # Nothing
        PROVE  handle'[v] \in Alive' /\ Hash[file'[handle'[v]]] = Hash[want'[v]]
    BY <2>2, <2>3, <2>4, <2>5
  <2> QED BY <2>3, <2>5
<1>8. ASSUME NEW u \in Users, OpenNew(u) PROVE HandlesLive'
  <2> DEFINE k == Hash[want[u]]
  <2>1. k \in Keys /\ want[u] \in Files /\ pool[k] = Nothing
    BY <1>8, HashKey DEF OpenNew, PhaseInv
  <2>2. PICK c \in Conns :
          /\ file[c] = Nothing
          /\ pool' = [pool EXCEPT ![k] = c]
          /\ file' = [file EXCEPT ![c] = want[u]]
          /\ handle' = [handle EXCEPT ![u] = c]
    BY <1>8 DEF OpenNew
  <2>3. c \in Alive' /\ Alive \subseteq Alive'
    BY <2>1, <2>2 DEF Alive
  <2>4. ASSUME NEW v \in Users, v # u, handle[v] # Nothing
        PROVE  handle'[v] = handle[v] /\ file'[handle[v]] = file[handle[v]]
    BY <2>2, <2>4 DEF FileInv
  <2>5. UNCHANGED <<results, want, owns, shared, raced>> /\ file' = [file EXCEPT ![c] = want[u]]
    BY <1>8, <2>2 DEF OpenNew
  <2>6. handle'[u] = c /\ file'[c] = want[u]
    BY <2>2
  <2>7. ASSUME NEW v \in Users, ~raced, ~shared, handle'[v] # Nothing
        PROVE  handle'[v] \in Alive' /\ Hash[file'[handle'[v]]] = Hash[want'[v]]
    <3>1. CASE v = u BY <2>3, <2>5, <2>6, <3>1
    <3>2. CASE v # u
      <4>1. handle[v] # Nothing /\ handle'[v] = handle[v]
        BY <2>2, <2>7, <3>2
      <4> QED BY <2>3, <2>4, <2>5, <2>7, <3>2, <4>1
    <3> QED BY <3>1, <3>2
  <2> QED BY <2>5, <2>7
<1>9. ASSUME NEW u \in Users, QueryDo(u) PROVE HandlesLive'
  BY <1>9 DEF QueryDo, Alive
<1>10. ASSUME NEW u \in Users, QueryDrop(u) PROVE HandlesLive'
  BY <1>10 DEF QueryDrop, OwnerInv, Alive
<1>11. ASSUME NEW u \in Users, Close(u) PROVE HandlesLive'
  <2> DEFINE k == Hash[file[handle[u]]]
  <2>1. k \in Keys /\ pool[k] = handle[u]
    BY <1>11, AliveInPool DEF Close, Usable
  <2>2. Alive \ {handle[u]} \subseteq Alive'
    BY <1>11, <2>1 DEF Close, Alive
  <2>3. ASSUME NEW v \in Users, v # u, ~shared, handle[v] # Nothing
        PROVE  handle[v] # handle[u]
    BY <2>3 DEF OwnerInv
  <2>4. handle' = [handle EXCEPT ![u] = Nothing]
        /\ UNCHANGED <<file, results, want, owns, shared, raced>>
    BY <1>11 DEF Close
  <2>5. ASSUME NEW v \in Users, ~raced, ~shared, handle'[v] # Nothing
        PROVE  handle'[v] \in Alive' /\ Hash[file'[handle'[v]]] = Hash[want'[v]]
    <3>1. v # u /\ handle'[v] = handle[v]
      BY <2>4, <2>5
    <3> QED BY <2>2, <2>3, <2>4, <2>5, <3>1
  <2> QED BY <2>4, <2>5
<1>12. ASSUME NEW u \in Users, Forget(u) PROVE HandlesLive'
  BY <1>12 DEF Forget, Alive
<1>13. CASE UNCHANGED vars BY <1>1, <1>13 DEF vars
<1> QED
  BY <1>2, <1>3, <1>4, <1>5, <1>6, <1>7, <1>8, <1>9, <1>10, <1>11, <1>12, <1>13 DEF Next

(* A database that is taken out of the pool is closed then and there, unless *)
(* results are outstanding; and sqlite3 never closes one under a result.     *)
LEMMA DatabasesStep == IInv /\ [Next]_vars => DatabasesExplained'
<1> SUFFICES ASSUME IInv, [Next]_vars PROVE DatabasesExplained'
  OBVIOUS
<1> USE DEF IInv, TypeOK, DatabasesExplained, history, userVars
<1>1. ASSUME UNCHANGED <<pool, opened, results, over, raced, orphans>> PROVE DatabasesExplained'
  BY <1>1 DEF Alive
<1>2. CASE DynxxInit BY <1>1, <1>2 DEF DynxxInit
<1>3. CASE DynxxRelease BY <1>3 DEF DynxxRelease
<1>4. ASSUME NEW u \in Users, NEW f \in Files, OpenBegin(u, f) PROVE DatabasesExplained'
  BY <1>1, <1>4 DEF OpenBegin
<1>5. ASSUME NEW u \in Users, OpenMakeStore(u) PROVE DatabasesExplained'
  <2>1. ~store => Alive = {}
    BY DEF PoolUsable, Alive
  <2> QED BY <1>5, <2>1 DEF OpenMakeStore, CloseDb, HasResults
<1>6. ASSUME NEW u \in Users, OpenMakeCache(u) PROVE DatabasesExplained'
  BY <1>6 DEF OpenMakeCache, Alive
<1>7. ASSUME NEW u \in Users, OpenFound(u) PROVE DatabasesExplained'
  BY <1>1, <1>7 DEF OpenFound
<1>8. ASSUME NEW u \in Users, OpenNew(u) PROVE DatabasesExplained'
  <2> DEFINE k == Hash[want[u]]
  <2>1. k \in Keys /\ pool[k] = Nothing
    BY <1>8, HashKey DEF OpenNew, PhaseInv
  <2>2. PICK c \in Conns : pool' = [pool EXCEPT ![k] = c] /\ opened' = opened \cup {c}
    BY <1>8 DEF OpenNew
  <2>3. c \in Alive' /\ Alive \subseteq Alive'
    BY <2>1, <2>2 DEF Alive
  <2> QED BY <1>8, <2>2, <2>3 DEF OpenNew
<1>9. ASSUME NEW u \in Users, QueryDo(u) PROVE DatabasesExplained'
  <2>1. handle[u] \in opened
    BY <1>9 DEF QueryDo, Usable, Alive, PoolUsable
  <2> QED BY <1>9, <2>1 DEF QueryDo, Statement, Alive
<1>10. ASSUME NEW u \in Users, QueryDrop(u) PROVE DatabasesExplained'
  BY <1>10 DEF QueryDrop, Alive
<1>11. ASSUME NEW u \in Users, Close(u) PROVE DatabasesExplained'
  <2> DEFINE k == Hash[file[handle[u]]]
  <2>1. k \in Keys /\ pool[k] = handle[u]
    BY <1>11, AliveInPool DEF Close, Usable
  <2>2. Alive \ {handle[u]} \subseteq Alive'
    BY <1>11, <2>1 DEF Close, Alive
  <2> QED BY <1>11, <2>1, <2>2 DEF Close, CloseDb, HasResults
<1>12. ASSUME NEW u \in Users, Forget(u) PROVE DatabasesExplained'
  BY <1>1, <1>12 DEF Forget
<1>13. CASE UNCHANGED vars BY <1>1, <1>13 DEF vars
<1> QED
  BY <1>2, <1>3, <1>4, <1>5, <1>6, <1>7, <1>8, <1>9, <1>10, <1>11, <1>12, <1>13 DEF Next

LEMMA Invariance == Spec => []IInv
<1>1. IInv /\ [Next]_vars => IInv'
  BY TypeStep, PhaseStep, FileStep, OwnerStep, PoolStep, HandlesStep, DatabasesStep DEF IInv
<1> QED BY InitIInv, <1>1, PTL DEF Spec

(* The names of connections, results and files never get mixed up, whatever *)
(* users share and whichever opens fail.                                    *)
THEOREM TypeCorrect == Spec => []TypeOK
BY Invariance, PTL DEF IInv

(* What ConnPool::open() finds is a connection to a file of that key whose *)
(* sqlite3 handle was not closed, in an initialised engine.                *)
THEOREM FoundIsUsable == Spec => []PoolUsable
BY Invariance, PTL DEF IInv

(* Handles are raw addresses, and still a user's handle lives until that  *)
(* user closes it, unless connections were shared or the store was made   *)
(* twice.                                                                 *)
THEOREM HandlesStayAlive == Spec => []HandlesLive
BY Invariance, PTL DEF IInv

(* No database is left open but those that were closed with results  *)
(* outstanding, and none is closed under a result.                   *)
THEOREM NoDatabaseForgotten == Spec => []DatabasesExplained
BY Invariance, PTL DEF IInv
=============================================================================
