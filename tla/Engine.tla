-------------------------------- MODULE Engine -------------------------------
(***************************************************************************)
(* The life of the engine behind the facade (src/DynXX-X.cxx): dynxxInit() *)
(* and dynxxRelease(), the singletons they and the other calls create, and *)
(* the caches of handles (core/util/MemUtil.hxx, PtrCache).  A handle is   *)
(* the address of an object that a cache owns, and calls look it up before *)
(* they use it.  The facade has three such caches (JSON decoders, Zip and  *)
(* UnZip streams), always made and dropped together: here they are one.    *)
(*                                                                         *)
(* None of these calls takes a lock on what is shared here, so an          *)
(* application makes them one at a time; each is one step.  The model has  *)
(* the calls that change something.  A read with a handle, which would     *)
(* follow a null pointer when there is no cache, changes nothing.          *)
(***************************************************************************)
EXTENDS Integers, FiniteSets

CONSTANTS
  Addresses,  (* where objects are allocated                               *)
  MaxObject,  (* bound on the objects ever made                            *)
  Nothing     (* no object                                                 *)

Objects == 1 .. MaxObject

ASSUME EngineAssumption ==
  /\ MaxObject \in Nat
  /\ Nothing \notin Objects

(* What is made on first use or by dynxxInit(), and what is registered: the *)
(* stores only in an initialised engine, the others at any time.            *)
Stores == {"sqlite", "kv"}
Scripts == {"lua", "js"}
Singletons == Stores \cup Scripts \cup {"http", "msgCbk"}

VARIABLES
  root,     (* _root is set: the engine is initialised                     *)
  caches,   (* the caches of handles are there                             *)
  cache,    (* the object that is cached at each address, or Nothing       *)
  made,     (* the singletons that exist                                   *)
  logging,  (* a log callback or a log level is set                        *)
  handles,  (* handles the application has not released: <<address, object>> *)
  next,     (* history: the object that is made next                       *)
  failed,   (* history: dynxxInit() failed since the last release          *)
  strays    (* history: singletons made while the engine was released      *)

history == <<next, failed, strays>>
engineVars == <<root, caches, cache, made, logging, handles, history>>

Empty == [a \in Addresses |-> Nothing]

EngineInit ==
  /\ root = FALSE
  /\ caches = FALSE
  /\ cache = Empty
  /\ made = {}
  /\ logging = FALSE
  /\ handles = {}
  /\ next = 1 /\ failed = FALSE /\ strays = {}
-----------------------------------------------------------------------------
(* dynxxInit() begins with new caches, whatever the state of the engine. *)
NewCaches ==
  /\ caches' = TRUE
  /\ cache' = Empty

InitNew(ok) ==
  /\ ~root
  /\ NewCaches
  /\ root' = ok
  /\ made' = IF ok THEN made \cup Scripts ELSE made
  /\ failed' = (failed \/ ~ok)
  /\ UNCHANGED <<logging, handles, next, strays>>

InitAgain ==
  /\ root
  /\ NewCaches
  /\ UNCHANGED <<root, made, logging, handles, history>>

(* dynxxRelease(): the log and the caches always, the rest only when the *)
(* engine is initialised.                                                *)
ReleaseAlways ==
  /\ logging' = FALSE
  /\ caches' = FALSE
  /\ cache' = Empty
  /\ failed' = FALSE
  /\ UNCHANGED <<handles, next>>

(* The mistake of leaving the script VMs to the next initialisation. *)
ReleaseKeepsScripts ==
  /\ ReleaseAlways
  /\ root
  /\ root' = FALSE
  /\ made' = made \cap Scripts
  /\ strays' = {}

Release ==
  /\ ReleaseAlways
  /\ root
  /\ root' = FALSE
  /\ made' = {}
  /\ strays' = {}

ReleaseAgain ==
  /\ ReleaseAlways
  /\ ~root
  /\ UNCHANGED <<root, made, strays>>

(* The first use of a singleton, by whichever call.  A store is made only in *)
(* an initialised engine; a script VM and the HTTP client always.            *)
FirstUse(s) ==
  /\ s \notin made
  /\ s \in Stores => root
  /\ made' = made \cup {s}
  /\ strays' = IF root THEN strays ELSE strays \cup {s}
  /\ UNCHANGED <<root, caches, cache, logging, handles, next, failed>>

LogSet ==
  /\ ~logging
  /\ logging' = TRUE
  /\ UNCHANGED <<root, caches, cache, made, handles, history>>

(* PtrCache::add(): an object at an address of its own.  With no cache, there *)
(* is no handle.                                                              *)
HandleMake(a) ==
  /\ caches
  /\ cache[a] = Nothing
  /\ next \in Objects
  /\ cache' = [cache EXCEPT ![a] = next]
  /\ handles' = handles \cup {<<a, next>>}
  /\ next' = next + 1
  /\ UNCHANGED <<root, caches, made, logging, failed, strays>>

Named(h) == cache[h[1]] = h[2]

(* The mistake of a release that empties the cache. *)
HandleReleaseAll(h) ==
  /\ h \in handles
  /\ cache' = Empty
  /\ handles' = handles \ {h}
  /\ UNCHANGED <<root, caches, made, logging, next, failed, strays>>

(* The mistake of a handle that is given back while its object stays. *)
HandleForget(h) ==
  /\ h \in handles
  /\ handles' = handles \ {h}
  /\ UNCHANGED <<root, caches, cache, made, logging, next, failed, strays>>

(* PtrCache::remove(): whatever is at that address. *)
HandleRelease(h) ==
  /\ h \in handles
  /\ cache' = [cache EXCEPT ![h[1]] = Nothing]
  /\ handles' = handles \ {h}
  /\ UNCHANGED <<root, caches, made, logging, next, failed, strays>>

EngineNext ==
  \/ \E ok \in BOOLEAN : InitNew(ok)
  \/ InitAgain \/ Release \/ ReleaseAgain \/ LogSet
  \/ \E s \in Singletons : FirstUse(s)
  \/ \E a \in Addresses : HandleMake(a)
  \/ \E h \in handles : HandleRelease(h)

EngineSpec == EngineInit /\ [][EngineNext]_engineVars
-----------------------------------------------------------------------------
EngineType ==
  /\ root \in BOOLEAN /\ caches \in BOOLEAN /\ logging \in BOOLEAN
  /\ cache \in [Addresses -> 0 .. next - 1 \cup {Nothing}]
  /\ made \subseteq Singletons /\ strays \subseteq Singletons
  /\ handles \subseteq Addresses \X Objects
  /\ next \in 1 .. MaxObject + 1
  /\ failed \in BOOLEAN

(***************************************************************************)
(* A cached object always has an owner: the application still holds the    *)
(* handle it got for it.  Nothing is left in a cache that nobody can       *)
(* release, and an object is at one address only.                          *)
(***************************************************************************)
CachedIsHeld ==
  /\ \A a \in Addresses : cache[a] # Nothing => <<a, cache[a]>> \in handles
  /\ (\E a \in Addresses : cache[a] # Nothing) => caches

(***************************************************************************)
(* Handles are independent: releasing some leaves every other one in       *)
(* place, unless a released one was stale; an object of later birth may    *)
(* then be at its address.                                                 *)
(***************************************************************************)
ReleasesAreIndependent ==
  [][ root = root' /\ handles \ handles' # {} /\ (\A g \in handles \ handles' : Named(g)) =>
        \A h \in handles \cap handles' : Named(h) => Named(h)' ]_engineVars

(***************************************************************************)
(* An initialised engine has its script VMs and its caches of handles.  A  *)
(* released one has only singletons that calls made since, which a second  *)
(* release does not tear down, and caches only when dynxxInit() failed     *)
(* since.                                                                  *)
(***************************************************************************)
SingletonsExplained ==
  /\ root => Scripts \subseteq made /\ caches
  /\ ~root => made \subseteq strays /\ (caches => failed)

(***************************************************************************)
(* "Initializing an already initialized engine is a no-op" (Engine.test):  *)
(* while the engine stays initialised, a handle that the application keeps *)
(* goes on naming its object.                                              *)
(***************************************************************************)
InitAgainIsNoOp ==
  [][ root /\ root' => \A h \in handles \cap handles' : Named(h) => Named(h)' ]_engineVars
=============================================================================
