--------------------------------- MODULE Log ---------------------------------
(***************************************************************************)
(* The log (core/log/Log.cxx) and the callbacks that the bindings register *)
(* with it: a function of C that is always there, Kotlin's through JNI     *)
(* (DynXXJNI.cxx) and ArkTS's through N-API (napi_init.cxx).               *)
(*                                                                         *)
(* A print holds the one mutex while the callback runs; the level and the  *)
(* callback are set under it as well.  The references by which a binding   *)
(* finds its callback have no lock: a logging thread looks at them, and    *)
(* uses them a moment later.                                               *)
(*                                                                         *)
(* The owner is the thread that sets the level and the callback.  With     *)
(* N-API it is the JavaScript thread, which also runs the callback: a      *)
(* print leaves it a message.                                              *)
(*                                                                         *)
(* Both bindings free the text they are shown, which is not theirs         *)
(* (JNIUtil.cxx:172, napi_init.cxx:104): the allocator is left out here.   *)
(* So is a callback of C or Kotlin that prints: it waits for the mutex     *)
(* that its own thread holds.                                              *)
(***************************************************************************)
EXTENDS Integers, Sequences, FiniteSets

CONSTANTS Loggers,    (* the threads that print                            *)
          Lengths,    (* the lengths of the texts they print               *)
          MaxLen,     (* the longest text that is shown in one piece       *)
          MaxRefs,    (* bound on the references ever made                 *)
          MaxPrints   (* bound on the prints                               *)

ASSUME LogAssumption == MaxLen \in Nat \ {0} /\ Lengths \subseteq Nat

VARIABLES
  binding,   (* "c", "jni" or "napi"                                       *)
  level,     (* prints below it are dropped                                *)
  callback,  (* Log has the binding's callback; if not it prints itself    *)
  mutex,     (* the threads that hold the mutex: one at most               *)
  logger,    (* what each thread is doing, its text, how much was shown    *)
  owner,     (* what the owner is doing                                    *)
  usable,    (* sVM (JNI), sNapiEnv (N-API)                                *)
  ref,       (* the reference to the callback, or 0                        *)
  dead,      (* the references that were deleted                           *)
  messages,  (* N-API: the pieces that wait for the JavaScript thread      *)
  refs, prints, (* history: references and prints so far                   *)
  last,      (* history: the last piece that was taken out of a text       *)
  odd        (* history: pieces lost or shown to a dead reference, with    *)
             (* what the owner was doing                                   *)

history == <<refs, prints, last, odd>>
logVars == <<binding, level, callback, mutex, logger, owner, usable, ref, dead, messages, history>>

Debug == 0
Error == 1
None == 2
NoPiece == [by |-> "nobody", to |-> 0, len |-> 0]
Idle == [at |-> "idle", len |-> 0, shown |-> 0]

LogBegins(for) ==
  /\ binding = for
  /\ level = Debug                \* the application has raised it from None
  /\ callback = FALSE
  /\ mutex = {}
  /\ logger = [t \in Loggers |-> Idle]
  /\ owner = "idle"
  /\ usable = (for # "napi")
  /\ ref = 0 /\ dead = {} /\ messages = <<>>
  /\ refs = 0 /\ prints = 0 /\ last = NoPiece /\ odd = {}

LogInit == \E for \in {"c", "jni", "napi"} : LogBegins(for)
-----------------------------------------------------------------------------
(* A thread prints. *)
PrintCall(t) ==
  /\ logger[t].at = "idle" /\ prints < MaxPrints
  /\ \E len \in Lengths : logger' = [logger EXCEPT ![t] = [at |-> "lock", len |-> len, shown |-> 0]]
  /\ prints' = prints + 1
  /\ UNCHANGED <<binding, level, callback, mutex, owner, usable, ref, dead, messages, refs, last, odd>>

(* The mistake of looking at the level, then printing with no lock. *)
LockNot(t, lvl) ==
  /\ logger[t].at = "lock"
  /\ IF lvl < level \/ lvl >= None
     THEN logger' = [logger EXCEPT ![t] = Idle]
     ELSE logger' = [logger EXCEPT ![t].at = "piece"]
  /\ UNCHANGED <<binding, level, callback, mutex, owner, usable, ref, dead, messages, history>>

Lock(t, lvl) ==
  /\ logger[t].at = "lock" /\ mutex = {}
  /\ IF lvl < level \/ lvl >= None
     THEN logger' = [logger EXCEPT ![t] = Idle] /\ UNCHANGED mutex
     ELSE logger' = [logger EXCEPT ![t].at = "piece"] /\ mutex' = {t}
  /\ UNCHANGED <<binding, level, callback, owner, usable, ref, dead, messages, history>>

(* The next piece of the text: the whole of a short one. *)
Count(len) == IF len <= MaxLen THEN 1 ELSE (len + MaxLen - 1) \div MaxLen
PieceEnd(len, i) == IF len <= MaxLen THEN len ELSE IF i * MaxLen < len THEN i * MaxLen ELSE len
Nth(t) == IF logger[t].len <= MaxLen THEN 1 ELSE logger[t].shown \div MaxLen + 1

(* A piece is done with; after the last one the thread leaves. *)
Shown(t) ==
  LET len == logger[t].len
      to == PieceEnd(len, Nth(t))
  IN /\ last' = [by |-> t, to |-> to, len |-> len]
     /\ IF Nth(t) = Count(len)
        THEN logger' = [logger EXCEPT ![t] = Idle] /\ mutex' = mutex \ {t}
        ELSE logger' = [logger EXCEPT ![t].at = "piece", ![t].shown = to] /\ UNCHANGED mutex

Piece(t) ==
  /\ logger[t].at = "piece"
  /\ IF callback
     THEN logger' = [logger EXCEPT ![t].at = "look"] /\ UNCHANGED <<mutex, last>>
     ELSE Shown(t)
  /\ UNCHANGED <<binding, level, callback, owner, usable, ref, dead, messages, refs, prints, odd>>

(* The binding's callback looks whether there is somebody to call. *)
Nobody == CASE binding = "jni" -> ~usable \/ ref = 0
            [] binding = "napi" -> ~usable
            [] OTHER -> FALSE
Look(t) ==
  /\ logger[t].at = "look"
  /\ IF Nobody
     THEN Shown(t) /\ odd' = odd \cup {<<"lost", binding, owner>>}
     ELSE logger' = [logger EXCEPT ![t].at = "call"] /\ UNCHANGED <<mutex, last, odd>>
  /\ UNCHANGED <<binding, level, callback, owner, usable, ref, dead, messages, refs, prints>>

Use(how) == IF ref \in dead THEN {<<how, binding, owner>>} ELSE {}
Call(t) ==
  /\ logger[t].at = "call"
  /\ Shown(t)
  /\ odd' = odd \cup Use("dead")
  /\ messages' = IF binding = "napi" THEN Append(messages, t) ELSE messages
  /\ UNCHANGED <<binding, level, callback, owner, usable, ref, dead, refs, prints>>

(* N-API: the JavaScript thread takes a message, and uses the reference there *)
(* is by then (a pool of threads may have swapped two).                      *)
TakeMessage ==
  /\ owner = "idle"
  /\ \E i \in DOMAIN messages : messages' = SubSeq(messages, 1, i - 1) \o SubSeq(messages, i + 1, Len(messages))
  /\ odd' = odd \cup Use("late")
  /\ UNCHANGED <<binding, level, callback, mutex, logger, owner, usable, ref, dead, refs, prints, last>>
-----------------------------------------------------------------------------
(* The owner.  What it tells Log waits for the mutex. *)
SetLevel(lvl) ==
  /\ owner = "idle" /\ mutex = {}
  /\ level' = IF lvl \in Debug .. None THEN lvl ELSE level
  /\ UNCHANGED <<binding, callback, mutex, logger, owner, usable, ref, dead, messages, history>>

(* The mistake of a log that sets its callback without the mutex. *)
TellNow(has) ==
  /\ callback' = has
  /\ UNCHANGED <<binding, level, mutex, logger, messages>>

Tell(has) ==
  /\ mutex = {}
  /\ callback' = has
  /\ UNCHANGED <<binding, level, mutex, logger, messages>>

Bind ==
  /\ refs' = refs + 1 /\ ref' = refs + 1
  /\ UNCHANGED <<dead, prints, last, odd>>

(* C registers a function; JNI registers its own, then makes the reference;   *)
(* N-API makes the reference first.  Neither deletes the one before.          *)
SetCallback ==
  /\ owner = "idle" /\ refs < MaxRefs
  /\ CASE binding = "napi" -> Bind /\ usable' = TRUE /\ owner' = "telling" /\ UNCHANGED callback
       [] binding = "jni" -> owner' = "binding" /\ Tell(TRUE) /\ UNCHANGED <<usable, ref, dead, history>>
       [] OTHER -> Tell(TRUE) /\ UNCHANGED <<owner, usable, ref, dead, history>>
  /\ UNCHANGED <<binding, level, mutex, logger, messages>>

SetCallbackEnd ==
  /\ \/ owner = "binding" /\ Bind /\ UNCHANGED callback
     \/ owner = "telling" /\ Tell(TRUE) /\ UNCHANGED <<ref, dead, history>>
  /\ owner' = "idle"
  /\ UNCHANGED <<binding, level, mutex, logger, usable, messages>>

(* N-API without a callback, and the unloading of JNI's library: the          *)
(* reference goes, then Log is told.  N-API forgets its environment before    *)
(* that, JNI its virtual machine and its reference afterwards.  The           *)
(* application does not unset what is not set.                                *)
Unset ==
  /\ owner = "idle" /\ ref # 0 /\ ref \notin dead
  /\ IF binding = "napi"
     THEN owner' = "deleting" /\ usable' = FALSE /\ UNCHANGED dead
     ELSE owner' = "unloading" /\ dead' = dead \cup {ref} /\ UNCHANGED usable
  /\ UNCHANGED <<binding, level, callback, mutex, logger, ref, messages, history>>

UnsetDelete ==
  /\ owner = "deleting"
  /\ dead' = dead \cup {ref}
  /\ owner' = "unsetting"
  /\ UNCHANGED <<binding, level, callback, mutex, logger, usable, ref, messages, history>>

UnsetTell ==
  /\ owner \in {"unsetting", "unloading"}
  /\ Tell(FALSE)
  /\ owner' = IF owner = "unsetting" THEN "idle" ELSE "unloaded"
  /\ UNCHANGED <<usable, ref, dead, history>>

Forget ==
  /\ owner = "unloaded"
  /\ usable' = FALSE /\ ref' = 0
  /\ owner' = "gone"
  /\ UNCHANGED <<binding, level, callback, mutex, logger, dead, messages, history>>

(* dynxxRelease() tells Log to be quiet, then to drop the callback. *)
ReleaseLevel ==
  /\ owner = "idle" /\ mutex = {}
  /\ level' = None
  /\ owner' = "releasing"
  /\ UNCHANGED <<binding, callback, mutex, logger, usable, ref, dead, messages, history>>

ReleaseCallback ==
  /\ owner = "releasing"
  /\ Tell(FALSE)
  /\ owner' = "idle"
  /\ UNCHANGED <<usable, ref, dead, history>>

LogNext ==
  \/ \E t \in Loggers : \/ PrintCall(t) \/ Piece(t) \/ Look(t) \/ Call(t)
                        \/ \E lvl \in Debug .. None : Lock(t, lvl)
  \/ TakeMessage
  \/ \E lvl \in Debug .. None + 1 : SetLevel(lvl)
  \/ SetCallback \/ SetCallbackEnd \/ Unset \/ UnsetDelete \/ UnsetTell \/ Forget
  \/ ReleaseLevel \/ ReleaseCallback
-----------------------------------------------------------------------------
(* The pieces of a text follow each other in order, with nothing of another   *)
(* text between them, and are together the whole of it.  A piece is only lost *)
(* while a binding sets or unsets its callback, and a reference is only used  *)
(* after it was deleted between that moment and the one in which Log has been *)
(* told, and by N-API's messages that still wait then (Log.cxx:163-253,       *)
(* DynXXJNI.cxx:23-39, :87-99, :796-810, napi_init.cxx:49-159).               *)
PiecesInOrder ==
  \A t \in Loggers :
    IF logger[t].at \in {"piece", "look", "call"}
    THEN logger[t].shown > 0 => last = [by |-> t, to |-> logger[t].shown, len |-> logger[t].len]
    ELSE last.by = t => last.to = last.len
OddExplained ==
  odd \subseteq {<<"lost", "jni", "binding">>, <<"lost", "napi", "deleting">>,
                 <<"lost", "napi", "unsetting">>, <<"dead", "jni", "unloading">>,
                 <<"dead", "napi", "unsetting">>, <<"late", "napi", "idle">>}
LogShowsTexts == PiecesInOrder /\ OddExplained
=============================================================================
