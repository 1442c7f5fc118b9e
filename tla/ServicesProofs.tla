---------------------------- MODULE ServicesProofs ---------------------------
(***************************************************************************)
(* Proofs about Services: any number of loggers and clients, any texts,    *)
(* sizes, requests and settings.  Each part has an invariant of its own,   *)
(* which its steps keep and those of the others do not touch.              *)
(***************************************************************************)
EXTENDS Services, FiniteSetTheorems, SequenceTheorems, TLAPS
(***************************************************************************)
(* The log.  Who shows pieces of a text holds the mutex, and the callback  *)
(* is not taken away from it; what a binding may find then is known by     *)
(* what its owner is doing.                                                *)
(***************************************************************************)
Inside == {"piece", "look", "call"}
Prints == [at : {"idle", "lock"} \cup Inside, len : Nat, shown : Nat]

LoggerType == logger \in [Loggers -> Prints]
MutexInv == \A t \in Loggers : IF logger[t].at \in Inside THEN mutex = {t} ELSE t \notin mutex
CallInv == \A t \in Loggers : logger[t].at \in {"look", "call"} => callback
PartOf(g) ==
  /\ g.at = "lock" => g.shown = 0
  /\ g.at \in Inside /\ g.len <= MaxLen => g.shown = 0
  /\ g.at \in Inside /\ g.len > MaxLen => \E i \in Nat : g.shown = i * MaxLen /\ i * MaxLen < g.len
PieceInv == \A t \in Loggers : PartOf(logger[t])
PrintInv == LoggerType /\ MutexInv /\ CallInv /\ PieceInv /\ PiecesInOrder

RefInv ==
  /\ callback \in BOOLEAN /\ usable \in BOOLEAN
  /\ refs \in Nat /\ ref \in 0 .. refs /\ dead \subseteq 1 .. refs
CInv == ref = 0 /\ owner \in {"idle", "releasing"}
JniInv ==
  /\ owner \in {"idle", "releasing", "binding", "unloading", "unloaded", "gone"}
  /\ usable \/ owner = "gone"
  /\ ref \in dead => owner \in {"unloading", "unloaded"}
  /\ owner \in {"unloaded", "gone"} => ~callback
  /\ callback /\ ref = 0 => owner = "binding"
NapiInv ==
  /\ owner \in {"idle", "releasing", "telling", "deleting", "unsetting"}
  /\ owner = "telling" => usable /\ ref \notin dead
  /\ owner = "deleting" => ref # 0
  /\ callback /\ ~usable => owner \in {"deleting", "unsetting"}
  /\ callback /\ ref \in dead => owner = "unsetting"
BindingInv ==
  /\ binding \in {"c", "jni", "napi"}
  /\ binding = "c" => CInv
  /\ binding = "jni" => JniInv
  /\ binding = "napi" => NapiInv
  /\ messages # <<>> => binding = "napi"
LogInv == PrintInv /\ RefInv /\ BindingInv /\ OddExplained

LEMMA LogStarts ==
  ASSUME NEW for \in {"c", "jni", "napi"}, LogBegins(for)
  PROVE  LogInv
<1>1. LoggerType /\ MutexInv /\ CallInv
  BY DEF LogBegins, LoggerType, MutexInv, CallInv, Prints, Inside, Idle
<1>2. PieceInv /\ PiecesInOrder
  BY DEF LogBegins, PieceInv, PartOf, PiecesInOrder, Inside, Idle, NoPiece
<1>3. /\ binding = for /\ callback = FALSE /\ usable = (for # "napi") /\ owner = "idle"
      /\ ref = 0 /\ refs = 0 /\ dead = {} /\ messages = <<>> /\ odd = {}
  BY DEF LogBegins
<1>4. RefInv
  <2>1. callback \in BOOLEAN /\ usable \in BOOLEAN
    BY <1>3
  <2>2. refs \in Nat /\ ref \in 0 .. refs /\ dead \subseteq 1 .. refs
    BY <1>3
  <2> QED BY <2>1, <2>2 DEF RefInv
<1>5. BindingInv /\ OddExplained
  BY <1>3 DEF BindingInv, CInv, JniInv, NapiInv, OddExplained
<1> QED BY <1>1, <1>2, <1>4, <1>5 DEF LogInv, PrintInv

(* The pieces of a text of n bytes: after i of them another one is due.    *)
LEMMA Pieces ==
  ASSUME NEW m \in Nat \ {0}, NEW n \in Nat, n > m, NEW i \in Nat, i * m < n,
         NEW c, c = (n + m - 1) \div m
  PROVE  /\ (i * m) \div m + 1 = i + 1
         /\ i + 1 = c => n <= (i + 1) * m
         /\ i + 1 # c => (i + 1) * m < n
<1>1. c \in Nat /\ (c - 1) * m < n /\ n <= c * m
  OBVIOUS
<1>2. (i * m) \div m = i
  OBVIOUS
<1>3. i + 1 <= c
  <2>1. i >= c => i * m >= c * m
    BY <1>1
  <2> QED BY <1>1, <2>1
<1>4. i + 1 # c => (i + 1) * m <= (c - 1) * m
  BY <1>1, <1>3
<1>5. i + 1 # c => (i + 1) * m < n
  <2> DEFINE a == (i + 1) * m
             b == (c - 1) * m
  <2>1. a \in Int /\ b \in Int
    BY <1>1
  <2>2. i + 1 # c => a <= b
    BY <1>4
  <2>3. b < n
    BY <1>1
  <2> HIDE DEF a, b
  <2>4. i + 1 # c => a < n
    BY <2>1, <2>2, <2>3
  <2> QED BY <2>4 DEF a
<1> QED BY <1>1, <1>2, <1>5

LEMMA PieceNext ==
  ASSUME PrintInv, NEW t \in Loggers, logger[t].at \in Inside,
         NEW len, len = logger[t].len, NEW to, to = PieceEnd(len, Nth(t))
  PROVE  /\ len \in Nat /\ to \in Nat
         /\ Nth(t) = Count(len) => to = len
         /\ Nth(t) # Count(len) => len > MaxLen /\ \E i \in Nat : to = i * MaxLen /\ i * MaxLen < len
<1>1. len \in Nat /\ MaxLen \in Nat \ {0}
  BY LogAssumption DEF PrintInv, LoggerType, Prints
<1>2. CASE len <= MaxLen
  BY <1>1, <1>2 DEF PieceEnd, Nth, Count
<1>3. CASE len > MaxLen
  <2>1. PICK i \in Nat : logger[t].shown = i * MaxLen /\ i * MaxLen < len
    BY <1>3 DEF PrintInv, PieceInv, PartOf
  <2> DEFINE c == (len + MaxLen - 1) \div MaxLen
  <2>2. /\ (i * MaxLen) \div MaxLen + 1 = i + 1
        /\ i + 1 = c => len <= (i + 1) * MaxLen
        /\ i + 1 # c => (i + 1) * MaxLen < len
    BY <1>1, <1>3, <2>1, Pieces
  <2>3. Nth(t) = i + 1 /\ Count(len) = c
    BY <1>1, <1>3, <2>1, <2>2 DEF Nth, Count
  <2> DEFINE e == (i + 1) * MaxLen
  <2>4. to = IF e < len THEN e ELSE len
    BY <1>1, <1>3, <2>3 DEF PieceEnd
  <2>5. e \in Nat
    BY <1>1
  <2> HIDE DEF c
  <2>6. i + 1 = c => ~(e < len)
    <3> HIDE DEF e
    <3>1. i + 1 = c => len <= e
      BY <2>2 DEF e
    <3> QED BY <1>1, <2>5, <3>1
  <2>7. i + 1 # c => to = e /\ e < len
    BY <2>2, <2>4
  <2>8. i + 1 # c => \E j \in Nat : to = j * MaxLen /\ j * MaxLen < len
    <3>1. i + 1 \in Nat
      OBVIOUS
    <3> QED BY <2>7, <3>1
  <2>9. to \in Nat
    BY <1>1, <2>4, <2>5
  <2> QED BY <1>1, <1>3, <2>3, <2>4, <2>6, <2>8, <2>9
<1> QED BY <1>1, <1>2, <1>3

LEMMA ShownKeeps ==
  ASSUME PrintInv, NEW t \in Loggers, logger[t].at \in Inside, Shown(t), UNCHANGED callback
  PROVE  PrintInv'
<1> DEFINE len == logger[t].len
           to == PieceEnd(len, Nth(t))
<1>1. /\ last' = [by |-> t, to |-> to, len |-> len]
      /\ IF Nth(t) = Count(len)
         THEN logger' = [logger EXCEPT ![t] = Idle] /\ mutex' = mutex \ {t}
         ELSE logger' = [logger EXCEPT ![t].at = "piece", ![t].shown = to] /\ UNCHANGED mutex
  BY DEF Shown
<1>2. /\ len \in Nat /\ to \in Nat
      /\ Nth(t) = Count(len) => to = len
      /\ Nth(t) # Count(len) => len > MaxLen /\ \E i \in Nat : to = i * MaxLen /\ i * MaxLen < len
  BY PieceNext
<1>3. mutex = {t} /\ \A u \in Loggers \ {t} : logger[u].at \notin Inside
  BY DEF PrintInv, MutexInv
<1> HIDE DEF to
<1>5. CASE Nth(t) = Count(len)
  <2>1. /\ logger' = [logger EXCEPT ![t] = Idle] /\ mutex' = {} /\ to = len
        /\ last' = [by |-> t, to |-> len, len |-> len]
    BY <1>1, <1>2, <1>3, <1>5
  <2>2. logger'[t] = Idle /\ \A u \in Loggers \ {t} : logger'[u] = logger[u]
    BY <2>1 DEF PrintInv, LoggerType
  <2>3. LoggerType'
    BY <2>1 DEF PrintInv, LoggerType, Prints, Idle
  <2>4. MutexInv' /\ CallInv' /\ PieceInv'
    BY <1>3, <2>1, <2>2 DEF PrintInv, MutexInv, CallInv, PieceInv, PartOf, Idle, Inside
  <2>5. PiecesInOrder'
    BY <1>3, <2>1, <2>2 DEF PiecesInOrder, Idle, Inside
  <2> QED BY <2>3, <2>4, <2>5 DEF PrintInv
<1>6. CASE Nth(t) # Count(len)
  <2> DEFINE g == [at |-> "piece", len |-> len, shown |-> to]
  <2>1. logger' = [logger EXCEPT ![t].at = "piece", ![t].shown = to]
    BY <1>1, <1>6
  <2>2. mutex' = {t} /\ last' = [by |-> t, to |-> to, len |-> len]
    BY <1>1, <1>3, <1>6
  <2>3. logger'[t] = g /\ \A u \in Loggers \ {t} : logger'[u] = logger[u]
    BY <2>1 DEF PrintInv, LoggerType, Prints
  <2>4. g \in Prints /\ g.at = "piece" /\ g.len = len /\ g.shown = to
    BY <1>2 DEF Prints, Inside
  <2>5. LoggerType'
    BY <2>1, <2>3, <2>4 DEF PrintInv, LoggerType
  <2>6. PartOf(g)
    <3>1. ~(len <= MaxLen) /\ \E i \in Nat : to = i * MaxLen /\ i * MaxLen < len
      BY <1>2, <1>6, LogAssumption
    <3> QED BY <2>4, <3>1 DEF PartOf
  <2> HIDE DEF g, len
  <2>7. MutexInv'
    BY <1>3, <2>2, <2>3, <2>4 DEF MutexInv, Inside
  <2>8. CallInv'
    BY <1>3, <2>3, <2>4 DEF CallInv, Inside
  <2>9. PieceInv'
    BY <2>3, <2>6 DEF PrintInv, PieceInv, PartOf
  <2>10. PiecesInOrder'
    BY <1>3, <2>2, <2>3, <2>4 DEF PrintInv, PiecesInOrder, Inside
  <2> QED BY <2>5, <2>7, <2>8, <2>9, <2>10 DEF PrintInv
<1> QED BY <1>5, <1>6

(* A thread takes a step with its text.                                    *)
LEMMA StepTo ==
  ASSUME LoggerType, NEW t \in Loggers, NEW to, logger' = [logger EXCEPT ![t].at = to]
  PROVE  logger' = [logger EXCEPT ![t] = [at |-> to, len |-> logger[t].len, shown |-> logger[t].shown]]
<1>1. logger[t] \in Prints
  BY DEF LoggerType
<1>2. [logger[t] EXCEPT !.at = to] = [at |-> to, len |-> logger[t].len, shown |-> logger[t].shown]
  BY <1>1 DEF Prints
<1> QED BY <1>2

(* A thread that goes on without having shown anything.                    *)
LEMMA LoggerMoves ==
  ASSUME PrintInv, NEW t \in Loggers, NEW g \in Prints, PartOf(g), UNCHANGED <<callback, last>>,
         logger' = [logger EXCEPT ![t] = g],
         g.at \in {"look", "call"} => callback,
         IF g.at \in Inside THEN mutex' = {t} ELSE mutex' = mutex,
         \/ logger[t].at \in Inside /\ g.at \in Inside /\ g.shown = logger[t].shown /\ g.len = logger[t].len
         \/ logger[t].at \notin Inside /\ g.at \in Inside /\ mutex = {} /\ g.shown = 0
         \/ logger[t].at \notin Inside /\ g.at \notin Inside
  PROVE  PrintInv'
<1>1. logger'[t] = g /\ \A u \in Loggers \ {t} : logger'[u] = logger[u]
  BY DEF PrintInv, LoggerType
<1>2. LoggerType'
  BY DEF PrintInv, LoggerType
<1>3. MutexInv'
  BY <1>1 DEF PrintInv, MutexInv
<1>4. CallInv' /\ PieceInv'
  BY <1>1 DEF PrintInv, CallInv, PieceInv, PartOf
<1>5. PiecesInOrder'
  BY <1>1 DEF PrintInv, LoggerType, Prints, PiecesInOrder, Inside
<1> QED BY <1>2, <1>3, <1>4, <1>5 DEF PrintInv

LEMMA CallSteps ==
  ASSUME PrintInv, NEW t \in Loggers, NEW to \in {"look", "call"}, callback,
         logger[t].at \in Inside, UNCHANGED <<callback, last, mutex>>,
         logger' = [logger EXCEPT ![t].at = to]
  PROVE  PrintInv'
<1> DEFINE g == [at |-> to, len |-> logger[t].len, shown |-> logger[t].shown]
<1>1. logger[t] \in Prints /\ PartOf(logger[t]) /\ mutex = {t}
  BY DEF PrintInv, LoggerType, MutexInv, PieceInv
<1>2. g \in Prints /\ g.at = to /\ g.len = logger[t].len /\ g.shown = logger[t].shown
  BY <1>1 DEF Prints, Inside
<1>3. logger' = [logger EXCEPT ![t] = g]
  BY StepTo DEF PrintInv
<1> HIDE DEF g
<1>4. PartOf(g)
  BY <1>1, <1>2 DEF PartOf, Inside
<1> QED BY <1>1, <1>2, <1>3, <1>4, LoggerMoves DEF Inside

LEMMA LoggersRest ==
  ASSUME PrintInv, UNCHANGED <<logger, mutex, last>>, mutex = {} \/ UNCHANGED callback
  PROVE  PrintInv'
<1>1. CallInv'
  BY DEF PrintInv, CallInv, MutexInv, Inside
<1> QED BY <1>1 DEF PrintInv, LoggerType, MutexInv, PieceInv, PartOf, PiecesInOrder

LEMMA BindingRests ==
  ASSUME RefInv, BindingInv, UNCHANGED <<binding, callback, owner, usable, ref, dead, refs, messages>>
  PROVE  RefInv' /\ BindingInv'
BY DEF RefInv, BindingInv, CInv, JniInv, NapiInv
-----------------------------------------------------------------------------
LEMMA PrintKeeps ==
  ASSUME LogInv, NEW t \in Loggers,
         PrintCall(t) \/ \E lvl \in Debug .. None : Lock(t, lvl)
  PROVE  LogInv'
<1>1. RefInv' /\ BindingInv' /\ OddExplained'
  BY BindingRests DEF PrintCall, Lock, LogInv, OddExplained, history
<1>2. CASE PrintCall(t)
  <2>1. PICK len \in Lengths : logger' = [logger EXCEPT ![t] = [at |-> "lock", len |-> len, shown |-> 0]]
    BY <1>2 DEF PrintCall
  <2> DEFINE g == [at |-> "lock", len |-> len, shown |-> 0]
  <2>2. g \in Prints /\ PartOf(g) /\ g.at = "lock"
    BY LogAssumption DEF Prints, PartOf, Inside
  <2>3. logger[t].at = "idle" /\ UNCHANGED <<callback, last, mutex>>
    BY <1>2 DEF PrintCall
  <2> HIDE DEF g
  <2>4. PrintInv'
    BY <2>1, <2>2, <2>3, LoggerMoves DEF LogInv, Inside, g
  <2> QED BY <1>1, <2>4 DEF LogInv
<1>3. CASE \E lvl \in Debug .. None : Lock(t, lvl)
  <2>1. /\ logger[t].at = "lock" /\ mutex = {} /\ UNCHANGED <<callback, last>>
        /\ \/ logger' = [logger EXCEPT ![t] = Idle] /\ UNCHANGED mutex
           \/ logger' = [logger EXCEPT ![t].at = "piece"] /\ mutex' = {t}
    BY <1>3 DEF Lock, history
  <2>2. CASE logger' = [logger EXCEPT ![t] = Idle] /\ UNCHANGED mutex
    <3>1. Idle \in Prints /\ PartOf(Idle) /\ Idle.at = "idle"
      BY DEF Idle, Prints, PartOf, Inside
    <3>2. PrintInv'
      BY <2>1, <2>2, <3>1, LoggerMoves DEF LogInv, Inside
    <3> QED BY <1>1, <3>2 DEF LogInv
  <2>3. CASE logger' = [logger EXCEPT ![t].at = "piece"] /\ mutex' = {t}
    <3> DEFINE g == [at |-> "piece", len |-> logger[t].len, shown |-> logger[t].shown]
    <3>1. logger[t] \in Prints /\ logger[t].shown = 0
      BY <2>1 DEF LogInv, PrintInv, LoggerType, PieceInv, PartOf
    <3>2. logger' = [logger EXCEPT ![t] = g]
      BY <2>3, <3>1, StepTo DEF LogInv, PrintInv
    <3>3. g \in Prints /\ g.at = "piece" /\ g.shown = 0
      BY <3>1 DEF Prints, Inside
    <3>4. PartOf(g)
      <4>1. 0 = 0 * MaxLen /\ 0 \in Nat
        BY LogAssumption
      <4>2. MaxLen > 0 /\ MaxLen \in Nat
        BY LogAssumption
      <4>3. g.len > MaxLen => 0 < g.len
        BY <3>1, <4>2 DEF Prints
      <4> HIDE DEF g
      <4> QED BY <3>3, <4>1, <4>3 DEF PartOf
    <3> HIDE DEF g
    <3>5. PrintInv'
      BY <2>1, <2>3, <3>2, <3>3, <3>4, LoggerMoves DEF LogInv, Inside
    <3> QED BY <1>1, <3>5 DEF LogInv
  <2> QED BY <2>1, <2>2, <2>3
<1> QED BY <1>2, <1>3

LEMMA PieceKeeps ==
  ASSUME LogInv, NEW t \in Loggers, Piece(t)
  PROVE  LogInv'
<1>1. RefInv' /\ BindingInv' /\ OddExplained'
  BY BindingRests DEF Piece, LogInv, OddExplained
<1>2. logger[t].at = "piece" /\ UNCHANGED callback
  BY DEF Piece
<1>3. CASE ~callback
  <2>1. PrintInv'
    BY <1>2, <1>3, ShownKeeps DEF LogInv, Piece, Inside
  <2> QED BY <1>1, <2>1 DEF LogInv
<1>4. CASE callback
  <2>1. logger' = [logger EXCEPT ![t].at = "look"] /\ UNCHANGED <<mutex, last>>
    BY <1>4 DEF Piece
  <2>2. PrintInv'
    BY <1>2, <1>4, <2>1, CallSteps DEF LogInv, Inside
  <2> QED BY <1>1, <2>2 DEF LogInv
<1> QED BY <1>3, <1>4

LEMMA LookKeeps ==
  ASSUME LogInv, NEW t \in Loggers, Look(t)
  PROVE  LogInv'
<1>1. RefInv' /\ BindingInv'
  BY BindingRests DEF Look, LogInv
<1>2. logger[t].at = "look" /\ callback /\ UNCHANGED <<callback, binding, owner>>
  BY DEF Look, LogInv, PrintInv, CallInv
<1>3. CASE Nobody
  <2>1. PrintInv'
    BY <1>2, <1>3, ShownKeeps DEF LogInv, Look, Inside
  <2>2. <<"lost", binding, owner>> \in {<<"lost", "jni", "binding">>, <<"lost", "napi", "deleting">>,
                                        <<"lost", "napi", "unsetting">>}
    BY <1>2, <1>3 DEF LogInv, BindingInv, JniInv, NapiInv, Nobody
  <2>3. odd' = odd \cup {<<"lost", binding, owner>>}
    BY <1>3 DEF Look
  <2>4. OddExplained'
    BY <2>2, <2>3 DEF LogInv, OddExplained
  <2> QED BY <1>1, <2>1, <2>4 DEF LogInv
<1>4. CASE ~Nobody
  <2>1. logger' = [logger EXCEPT ![t].at = "call"] /\ UNCHANGED <<mutex, last, odd>>
    BY <1>4 DEF Look
  <2>2. PrintInv'
    BY <1>2, <2>1, CallSteps DEF LogInv, Inside
  <2> QED BY <1>1, <2>1, <2>2 DEF LogInv, OddExplained
<1> QED BY <1>3, <1>4

LEMMA CallKeeps ==
  ASSUME LogInv, NEW t \in Loggers, Call(t)
  PROVE  LogInv'
<1>1. /\ logger[t].at = "call" /\ callback
      /\ UNCHANGED <<binding, callback, owner, usable, ref, dead, refs>>
  BY DEF Call, LogInv, PrintInv, CallInv
<1>2. PrintInv'
  BY <1>1, ShownKeeps DEF LogInv, Call, Inside
<1>3. messages' # <<>> => binding = "napi"
  BY DEF Call, LogInv, BindingInv
<1>4. RefInv' /\ BindingInv'
  BY <1>1, <1>3 DEF LogInv, RefInv, BindingInv, CInv, JniInv, NapiInv
<1>5. ref \in dead => <<"dead", binding, owner>> \in {<<"dead", "jni", "unloading">>, <<"dead", "napi", "unsetting">>}
  BY <1>1 DEF LogInv, RefInv, BindingInv, CInv, JniInv, NapiInv
<1>6. OddExplained'
  BY <1>5 DEF LogInv, OddExplained, Call, Use
<1> QED BY <1>2, <1>4, <1>6 DEF LogInv

LEMMA TakeMessageKeeps ==
  ASSUME LogInv, TakeMessage
  PROVE  LogInv'
<1>1. /\ owner = "idle" /\ odd' = odd \cup Use("late")
      /\ UNCHANGED <<binding, callback, mutex, logger, owner, usable, ref, dead, refs, last>>
  BY DEF TakeMessage
<1>2. messages # <<>>
  BY DEF TakeMessage
<1>3. PrintInv'
  BY <1>1, LoggersRest DEF LogInv
<1>4. binding = "napi"
  BY <1>2 DEF LogInv, BindingInv
<1>5. RefInv' /\ BindingInv'
  BY <1>1, <1>4 DEF LogInv, RefInv, BindingInv, CInv, JniInv, NapiInv
<1>6. OddExplained'
  BY <1>1, <1>4 DEF LogInv, OddExplained, Use
<1> QED BY <1>3, <1>5, <1>6 DEF LogInv
-----------------------------------------------------------------------------
(* The owner: the loggers rest, the mutex is free when Log is told.        *)
LEMMA OwnerKeeps ==
  ASSUME LogInv, UNCHANGED <<binding, logger, mutex, messages, last, odd>>,
         mutex = {} \/ UNCHANGED callback, RefInv', BindingInv'
  PROVE  LogInv'
<1>1. PrintInv'
  BY LoggersRest DEF LogInv
<1> QED BY <1>1 DEF LogInv, OddExplained

LEMMA SetLevelKeeps ==
  ASSUME LogInv, NEW lvl, SetLevel(lvl)
  PROVE  LogInv'
<1>1. UNCHANGED <<binding, callback, owner, usable, ref, dead, refs, messages, logger, mutex, last, odd>>
  BY DEF SetLevel, history
<1> QED BY <1>1, BindingRests, OwnerKeeps DEF LogInv

LEMMA BindMakes ==
  ASSUME RefInv, Bind, callback' \in BOOLEAN, usable' \in BOOLEAN
  PROVE  RefInv' /\ ref' # 0 /\ ref' \notin dead' /\ dead' = dead /\ UNCHANGED <<last, odd>>
BY DEF RefInv, Bind

LEMMA SetCallbackKeeps ==
  ASSUME LogInv, SetCallback
  PROVE  LogInv'
<1>1. /\ owner = "idle" /\ UNCHANGED <<binding, mutex, logger, messages>>
      /\ binding \in {"c", "jni", "napi"}
  BY DEF SetCallback, LogInv, BindingInv
<1>2. CASE binding = "napi"
  <2>1. Bind /\ usable' = TRUE /\ owner' = "telling" /\ UNCHANGED callback
    BY <1>2 DEF SetCallback
  <2>2. RefInv' /\ ref' \notin dead' /\ UNCHANGED <<last, odd>>
    BY <2>1, BindMakes DEF LogInv, RefInv
  <2>3. BindingInv'
    BY <1>1, <1>2, <2>1, <2>2 DEF LogInv, BindingInv, NapiInv
  <2> QED BY <1>1, <2>1, <2>2, <2>3, OwnerKeeps
<1>3. CASE binding = "jni"
  <2>1. owner' = "binding" /\ mutex = {} /\ callback' = TRUE /\ UNCHANGED <<usable, ref, dead, history>>
    BY <1>3 DEF SetCallback, Tell
  <2>2. RefInv' /\ BindingInv'
    BY <1>1, <1>3, <2>1 DEF LogInv, RefInv, BindingInv, JniInv, history
  <2> QED BY <1>1, <2>1, <2>2, OwnerKeeps DEF history
<1>4. CASE binding = "c"
  <2>1. mutex = {} /\ callback' = TRUE /\ UNCHANGED <<owner, usable, ref, dead, history>>
    BY <1>4 DEF SetCallback, Tell
  <2>2. RefInv' /\ BindingInv'
    BY <1>1, <1>4, <2>1 DEF LogInv, RefInv, BindingInv, CInv, history
  <2> QED BY <1>1, <2>1, <2>2, OwnerKeeps DEF history
<1> QED BY <1>1, <1>2, <1>3, <1>4

LEMMA SetCallbackEndKeeps ==
  ASSUME LogInv, SetCallbackEnd
  PROVE  LogInv'
<1>1. owner' = "idle" /\ UNCHANGED <<binding, mutex, logger, usable, messages>>
  BY DEF SetCallbackEnd
<1>2. CASE owner = "binding" /\ Bind /\ UNCHANGED callback
  <2>1. binding = "jni"
    BY <1>2 DEF LogInv, BindingInv, CInv, NapiInv
  <2>2. RefInv' /\ ref' # 0 /\ ref' \notin dead' /\ UNCHANGED <<last, odd>>
    BY <1>1, <1>2, BindMakes DEF LogInv, RefInv
  <2>3. BindingInv'
    BY <1>1, <1>2, <2>1, <2>2 DEF LogInv, BindingInv, JniInv
  <2> QED BY <1>1, <1>2, <2>2, <2>3, OwnerKeeps
<1>3. CASE owner = "telling" /\ Tell(TRUE) /\ UNCHANGED <<ref, dead, history>>
  <2>1. binding = "napi"
    BY <1>3 DEF LogInv, BindingInv, CInv, JniInv
  <2>2. mutex = {} /\ callback' = TRUE /\ UNCHANGED <<refs, last, odd>>
    BY <1>3 DEF Tell, history
  <2>3. RefInv' /\ BindingInv'
    BY <1>1, <1>3, <2>1, <2>2 DEF LogInv, RefInv, BindingInv, NapiInv
  <2> QED BY <1>1, <2>2, <2>3, OwnerKeeps
<1> QED BY <1>2, <1>3 DEF SetCallbackEnd

LEMMA UnsetKeeps ==
  ASSUME LogInv, Unset
  PROVE  LogInv'
<1>1. /\ owner = "idle" /\ ref # 0 /\ ref \notin dead
      /\ UNCHANGED <<binding, callback, mutex, logger, ref, messages, refs, last, odd>>
  BY DEF Unset, history
<1>2. CASE binding = "napi"
  <2>1. owner' = "deleting" /\ usable' = FALSE /\ UNCHANGED dead
    BY <1>2 DEF Unset
  <2>2. RefInv' /\ BindingInv'
    BY <1>1, <1>2, <2>1 DEF LogInv, RefInv, BindingInv, NapiInv
  <2> QED BY <1>1, <2>2, OwnerKeeps
<1>3. CASE binding # "napi"
  <2>1. owner' = "unloading" /\ dead' = dead \cup {ref} /\ UNCHANGED usable
    BY <1>3 DEF Unset
  <2>2. binding = "jni"
    BY <1>1, <1>3 DEF LogInv, BindingInv, CInv
  <2>3. RefInv'
    BY <1>1, <2>1 DEF LogInv, RefInv
  <2>4. BindingInv'
    BY <1>1, <2>1, <2>2 DEF LogInv, BindingInv, JniInv
  <2> QED BY <1>1, <2>3, <2>4, OwnerKeeps
<1> QED BY <1>2, <1>3

LEMMA UnsetDeleteKeeps ==
  ASSUME LogInv, UnsetDelete
  PROVE  LogInv'
<1>1. /\ owner = "deleting" /\ dead' = dead \cup {ref} /\ owner' = "unsetting"
      /\ UNCHANGED <<binding, callback, mutex, logger, usable, ref, messages, refs, last, odd>>
  BY DEF UnsetDelete, history
<1>2. binding = "napi" /\ ref # 0
  BY <1>1 DEF LogInv, BindingInv, CInv, JniInv, NapiInv
<1>3. RefInv'
  BY <1>1, <1>2 DEF LogInv, RefInv
<1>4. BindingInv'
  BY <1>1, <1>2 DEF LogInv, BindingInv, NapiInv
<1> QED BY <1>1, <1>3, <1>4, OwnerKeeps

LEMMA UnsetTellKeeps ==
  ASSUME LogInv, UnsetTell
  PROVE  LogInv'
<1>1. /\ owner \in {"unsetting", "unloading"} /\ mutex = {} /\ callback' = FALSE
      /\ owner' = IF owner = "unsetting" THEN "idle" ELSE "unloaded"
      /\ UNCHANGED <<binding, mutex, logger, usable, ref, dead, messages, refs, last, odd>>
  BY DEF UnsetTell, Tell, history
<1>2. RefInv'
  BY <1>1 DEF LogInv, RefInv
<1>3. BindingInv'
  BY <1>1 DEF LogInv, BindingInv, CInv, JniInv, NapiInv
<1> QED BY <1>1, <1>2, <1>3, OwnerKeeps

LEMMA ForgetKeeps ==
  ASSUME LogInv, Forget
  PROVE  LogInv'
<1>1. /\ owner = "unloaded" /\ usable' = FALSE /\ ref' = 0 /\ owner' = "gone"
      /\ UNCHANGED <<binding, callback, mutex, logger, dead, messages, refs, last, odd>>
  BY DEF Forget, history
<1>2. RefInv'
  <2>1. callback' \in BOOLEAN /\ usable' \in BOOLEAN
    BY <1>1 DEF LogInv, RefInv
  <2>2. refs' \in Nat /\ ref' \in 0 .. refs' /\ dead' \subseteq 1 .. refs'
    BY <1>1 DEF LogInv, RefInv
  <2> QED BY <2>1, <2>2 DEF RefInv
<1>3. binding = "jni" /\ ~callback
  BY <1>1 DEF LogInv, BindingInv, CInv, JniInv, NapiInv
<1>4. 0 \notin dead
  BY DEF LogInv, RefInv
<1>5. BindingInv'
  BY <1>1, <1>3, <1>4 DEF LogInv, BindingInv, JniInv
<1> QED BY <1>1, <1>2, <1>5, OwnerKeeps

LEMMA ReleaseLevelKeeps ==
  ASSUME LogInv, ReleaseLevel
  PROVE  LogInv'
<1>1. /\ owner = "idle" /\ owner' = "releasing"
      /\ UNCHANGED <<binding, callback, mutex, logger, usable, ref, dead, messages, refs, last, odd>>
  BY DEF ReleaseLevel, history
<1>2. RefInv' /\ BindingInv'
  BY <1>1 DEF LogInv, RefInv, BindingInv, CInv, JniInv, NapiInv
<1> QED BY <1>1, <1>2, OwnerKeeps

LEMMA ReleaseCallbackKeeps ==
  ASSUME LogInv, ReleaseCallback
  PROVE  LogInv'
<1>1. /\ owner = "releasing" /\ owner' = "idle" /\ mutex = {} /\ callback' = FALSE
      /\ UNCHANGED <<binding, mutex, logger, usable, ref, dead, messages, refs, last, odd>>
  BY DEF ReleaseCallback, Tell, history
<1>2. RefInv' /\ BindingInv'
  BY <1>1 DEF LogInv, RefInv, BindingInv, CInv, JniInv, NapiInv
<1> QED BY <1>1, <1>2, OwnerKeeps

LEMMA LogKeeps ==
  ASSUME LogInv, LogNext \/ UNCHANGED logVars
  PROVE  LogInv'
<1>1. CASE LogNext
  BY <1>1, PrintKeeps, PieceKeeps, LookKeeps, CallKeeps, TakeMessageKeeps, SetLevelKeeps,
     SetCallbackKeeps, SetCallbackEndKeeps, UnsetKeeps, UnsetDeleteKeeps, UnsetTellKeeps,
     ForgetKeeps, ReleaseLevelKeeps, ReleaseCallbackKeeps DEF LogNext
<1>2. CASE UNCHANGED logVars
  <2>1. UNCHANGED <<binding, callback, owner, usable, ref, dead, refs, messages, logger, mutex, last, odd>>
    BY <1>2 DEF logVars, history
  <2> QED BY <2>1, BindingRests, OwnerKeeps DEF LogInv
<1> QED BY <1>1, <1>2
-----------------------------------------------------------------------------
(***************************************************************************)
(* The compression.  The reads before the last fill the buffer, and so     *)
(* does every call of zlib before the last of a chunk.                     *)
(***************************************************************************)
Multiple(n) == \E k \in Nat : n = k * buffer

ZipType ==
  /\ kind \in {"zip", "unzip"} /\ via \in {"stream", "file", "bytes", "js"}
  /\ size \in Nat /\ archive \in Nat /\ buffer \in Nat \ {0}
  /\ pos \in 0 .. size /\ lost \in 0 .. pos /\ chunk \in Nat /\ finish \in BOOLEAN
  /\ kept \in Nat /\ given \in Nat /\ output \in Nat /\ written \in Nat
  /\ step \in {"read", "do", "done"} /\ result \in {"none", "true", "false"}
ReadsInv ==
  /\ step = "read" => ~finish
  /\ step # "done" /\ ~finish => Multiple(pos - lost)
  /\ step = "do" /\ finish => pos = size \/ lost > 0
  /\ step = "do" => Multiple(given)
WritesInv == via = "bytes" => output = written
EndInv ==
  /\ step # "done" => result = "none"
  /\ result = "false" => Multiple(pos - lost) \/ Multiple(given)
ZipInv == ZipType /\ ReadsInv /\ WritesInv /\ EndInv /\ TrueWhenDone

LEMMA MultipleRest ==
  ASSUME NEW b \in Nat \ {0}, NEW k \in Nat
  PROVE  (k * b) % b = 0
OBVIOUS

LEMMA MultipleNext ==
  ASSUME NEW b \in Nat \ {0}, NEW k \in Nat
  PROVE  k * b + b = (k + 1) * b /\ 0 * b = 0
OBVIOUS

LEMMA MultipleGrows ==
  ASSUME NEW n \in Nat, buffer \in Nat \ {0}, Multiple(n)
  PROVE  Multiple(n + buffer)
<1>1. PICK k \in Nat : n = k * buffer
  BY DEF Multiple
<1>2. n + buffer = (k + 1) * buffer
  BY <1>1, MultipleNext
<1> QED BY <1>2 DEF Multiple

LEMMA NoneIsMultiple ==
  ASSUME buffer \in Nat \ {0}
  PROVE  Multiple(0)
BY MultipleNext DEF Multiple

LEMMA ZipStarts ==
  ASSUME ZipBegins, kind \in {"zip", "unzip"}, via \in {"stream", "file", "bytes", "js"},
         size \in Nat, archive \in Nat, buffer \in Nat \ {0}
  PROVE  ZipInv
<1>1. Multiple(0)
  BY NoneIsMultiple
<1>2. pos - lost = 0
  BY DEF ZipBegins
<1>3. pos \in 0 .. size /\ lost \in 0 .. pos
  BY DEF ZipBegins
<1>4. chunk \in Nat /\ kept \in Nat /\ given \in Nat /\ output \in Nat /\ written \in Nat
  BY DEF ZipBegins
<1>5. ZipType
  BY <1>3, <1>4 DEF ZipBegins, ZipType
<1>6. ReadsInv /\ WritesInv
  BY <1>1, <1>2 DEF ZipBegins, ReadsInv, WritesInv
<1>7. EndInv /\ TrueWhenDone
  BY DEF ZipBegins, EndInv, TrueWhenDone
<1> QED BY <1>5, <1>6, <1>7 DEF ZipInv

LEMMA ReadKeeps ==
  ASSUME ZipInv, Read
  PROVE  ZipInv'
<1> DEFINE n == Least(buffer, size - pos)
<1>1. PICK read \in 0 .. n :
        /\ pos' = pos + n /\ lost' = lost + (n - read) /\ chunk' = read /\ finish' = Last(read)
        /\ given' = IF read = 0 THEN given ELSE 0
        /\ IF read = 0 THEN Result("false") ELSE step' = "do" /\ UNCHANGED result
  BY DEF Read, ZipInv, ZipType, Least
<1>2. /\ n \in Nat /\ n <= buffer /\ n <= size - pos /\ (n < buffer => n = size - pos)
      /\ step = "read" /\ ~finish
      /\ UNCHANGED <<kind, via, size, archive, corrupt, buffer, kept, output, written>>
  BY DEF Read, ZipInv, ZipType, ReadsInv, Least
<1> HIDE DEF n
<1>3. ZipType'
  BY <1>1, <1>2 DEF ZipInv, ZipType, Result, Last
<1>4. pos' - lost' = (pos - lost) + read /\ pos - lost \in Nat /\ Multiple(pos - lost)
  BY <1>1, <1>2 DEF ZipInv, ZipType, ReadsInv
<1>5. CASE read = 0
  <2>1. pos' - lost' = pos - lost
    BY <1>4, <1>5
  <2>2. Multiple(pos - lost)'
    BY <1>2, <1>4, <2>1 DEF Multiple
  <2>3. step' = "done" /\ result' = "false"
    BY <1>1, <1>5 DEF Result
  <2> QED BY <1>2, <1>3, <2>2, <2>3 DEF ZipInv, ReadsInv, WritesInv, EndInv, TrueWhenDone
<1>6. CASE read # 0
  <2>1. given' = 0 /\ step' = "do" /\ result' = "none"
    BY <1>1, <1>2, <1>6 DEF ZipInv, EndInv
  <2>2. Multiple(given)'
    BY <1>3, <2>1, MultipleNext DEF Multiple, ZipType
  <2>3. finish' <=> read < buffer
    BY <1>1 DEF Last
  <2>4. ~finish' => read = buffer
    BY <1>2, <2>3 DEF ZipInv, ZipType
  <2>5. ~finish' => Multiple(pos - lost)'
    <3>1. Multiple(pos - lost + buffer)
      BY <1>4, MultipleGrows DEF ZipInv, ZipType
    <3> QED BY <1>2, <1>4, <2>4, <3>1 DEF Multiple
  <2>6. finish' => pos' = size' \/ lost' > 0
    BY <1>1, <1>2, <2>3 DEF ZipInv, ZipType
  <2> QED BY <1>2, <1>3, <2>1, <2>2, <2>5, <2>6
          DEF ZipInv, ReadsInv, WritesInv, EndInv, TrueWhenDone
<1> QED BY <1>5, <1>6

LEMMA ProcessKeeps ==
  ASSUME ZipInv, Process
  PROVE  ZipInv'
<1>1. /\ step = "do" /\ chunk' = 0 /\ result = "none"
      /\ UNCHANGED <<kind, via, size, archive, corrupt, buffer, pos, lost, finish>>
  BY DEF Process, ZipInv, EndInv
<1> DEFINE Gave(gain, n) ==
        /\ kept' = kept + gain - n /\ given' = given + n /\ output' = output + n
        /\ \E arrives \in (IF n = 0 \/ via = "bytes" THEN {n} ELSE {0, n}) : written' = written + arrives
        /\ \/ n = 0 /\ Result("false")
           \/ n = buffer /\ UNCHANGED <<step, result>>
           \/ n \in 1 .. buffer - 1 /\ finish /\ Result("true")
           \/ n \in 1 .. buffer - 1 /\ ~finish /\ step' = "read" /\ UNCHANGED result
<1>2. PICK gain \in Gains : \E n \in Gives(kept + gain) : Gave(gain, n)
  BY DEF Process
<1>3. PICK n \in Gives(kept + gain) : Gave(gain, n)
  BY <1>2
<1>4. gain \in Nat
  BY ZipAssumption DEF Gains
<1>5. /\ n \in Nat /\ n <= buffer /\ n <= kept + gain
      /\ finish /\ n < buffer => n = kept + gain
  BY <1>3, <1>4 DEF Gives, Least, ZipInv, ZipType
<1>6. ZipType'
  BY <1>1, <1>3, <1>4, <1>5 DEF ZipInv, ZipType, Result
<1>7. WritesInv'
  BY <1>1, <1>3, <1>5 DEF ZipInv, ZipType, WritesInv
<1>8. Multiple(given) /\ (~finish => Multiple(pos - lost))
  BY <1>1 DEF ZipInv, ReadsInv
<1>9. (~finish => Multiple(pos - lost)') /\ (finish => pos' = size' \/ lost' > 0)
  BY <1>1, <1>8 DEF ZipInv, ReadsInv, Multiple
<1>10. CASE n = 0 /\ Result("false")
  <2>1. given' = given /\ step' = "done" /\ result' = "false"
    BY <1>3, <1>10 DEF Result, ZipInv, ZipType
  <2>2. Multiple(given)'
    BY <1>1, <1>8, <2>1 DEF Multiple
  <2> QED BY <1>6, <1>7, <2>1, <2>2 DEF ZipInv, ReadsInv, EndInv, TrueWhenDone
<1>11. CASE n = buffer /\ UNCHANGED <<step, result>>
  <2>1. Multiple(given + buffer)
    BY <1>8, MultipleGrows DEF ZipInv, ZipType
  <2>2. Multiple(given)'
    BY <1>1, <1>3, <1>11, <2>1 DEF Multiple
  <2> QED BY <1>1, <1>6, <1>7, <1>9, <1>11, <2>2 DEF ZipInv, ReadsInv, EndInv, TrueWhenDone
<1>12. CASE n \in 1 .. buffer - 1 /\ finish /\ Result("true")
  <2>1. step' = "done" /\ result' = "true" /\ kept' = 0
    BY <1>3, <1>4, <1>5, <1>12 DEF Result, ZipInv, ZipType
  <2> QED BY <1>1, <1>6, <1>7, <1>9, <1>12, <2>1
          DEF ZipInv, ZipType, ReadsInv, WritesInv, EndInv, TrueWhenDone
<1>13. CASE n \in 1 .. buffer - 1 /\ ~finish /\ step' = "read" /\ UNCHANGED result
  BY <1>1, <1>6, <1>7, <1>9, <1>13 DEF ZipInv, ReadsInv, EndInv, TrueWhenDone
<1> QED BY <1>3, <1>10, <1>11, <1>12, <1>13

LEMMA DamagedKeeps ==
  ASSUME ZipInv, Damaged
  PROVE  ZipInv'
<1>1. /\ step = "do" /\ step' = "done" /\ result' = "false"
      /\ UNCHANGED <<kind, via, size, archive, corrupt, buffer, pos, lost, chunk, finish, kept,
                     given, output, written>>
  BY DEF Damaged, Result
<1>2. Multiple(given)'
  BY <1>1 DEF ZipInv, ReadsInv, Multiple
<1> QED BY <1>1, <1>2 DEF ZipInv, ZipType, ReadsInv, WritesInv, EndInv, TrueWhenDone

LEMMA ZipKeeps ==
  ASSUME ZipInv, ZipNext \/ UNCHANGED zipVars
  PROVE  ZipInv'
<1>1. CASE ZipNext
  BY <1>1, ReadKeeps, ProcessKeeps, DamagedKeeps DEF ZipNext
<1>2. CASE UNCHANGED zipVars
  BY <1>2 DEF zipVars, ZipInv, ZipType, ReadsInv, WritesInv, EndInv, TrueWhenDone, Multiple
<1> QED BY <1>1, <1>2

LEMMA ZipInvTells == ZipInv => ZipTells
<1> SUFFICES ASSUME ZipInv, result = "false"
             PROVE  (pos - lost) % buffer = 0 \/ given % buffer = 0
  BY DEF ZipInv, ZipTells, FalseExplained
<1>1. ASSUME NEW n, Multiple(n) PROVE n % buffer = 0
  BY <1>1, MultipleRest DEF Multiple, ZipInv, ZipType
<1> QED BY <1>1 DEF ZipInv, EndInv
-----------------------------------------------------------------------------
(***************************************************************************)
(* The HTTP client.                                                        *)
(***************************************************************************)
ConfigSet == [ConfigParts -> Nat]
Steps == {"idle", "look", "make", "swap", "cert", "proxy", "dns", "body", "send", "wait", "done"}
Wires == [method : {"none", "get", "post", "put"},
          data : SUBSET {"query", "file", "lastField", "raw", "params"}]

CountType ==
  /\ config \in ConfigSet /\ sets \in Nat /\ client \in Nat /\ made \in Nat /\ inits \in Int
  /\ mine \in [Clients -> [new : Nat, old : Nat]]
StepType == pc \in [Clients -> Steps] /\ ask \in [Clients -> Questions \cup {NoAsk}]
ReadType == got \in [Clients -> ConfigSet] /\ seen \in [Clients -> Seq(ConfigSet)]
EndType ==
  /\ hop \in [Clients -> Nat] /\ wire \in [Clients -> Wires]
  /\ ok \in [Clients -> BOOLEAN] /\ disk \in [Clients -> {"old", "part", "whole", "cut"}]
HttpType == CountType /\ StepType /\ ReadType /\ EndType

(* A client object that was made initialises libcurl once more; putting it *)
(* in its place may undo that of another, unless it is the first.          *)
Swapping == {t \in Clients : pc[t] = "swap"}
Ready == {"cert", "proxy", "dns", "body", "send", "wait"}
ClientInv ==
  /\ IsFiniteSet(Swapping)
  /\ inits >= Cardinality(Swapping) + (IF client = 0 THEN 0 ELSE 1)
  /\ \A t \in Clients :
       /\ pc[t] = "swap" => mine[t].new > 0 /\ (client = 0 => mine[t].old = 0)
       /\ pc[t] \in Ready => client # 0

(* What has been read of the configuration was there, in this order.       *)
CertAt(t, i) == i \in DOMAIN seen[t] /\ (ask[t].url = "https" => got[t]["cert"] = seen[t][i]["cert"])
ProxyAt(t, j) == j \in DOMAIN seen[t] /\ got[t]["proxy"] = seen[t][j]["proxy"]
DnsAt(t, k) == k \in DOMAIN seen[t] /\ got[t]["dns"] = seen[t][k]["dns"]
SeenOf(t) ==
  /\ pc[t] # "idle" => ask[t] \in Questions
  /\ t \in Creating => seen[t] # <<>> /\ seen[t][Len(seen[t])] = config
  /\ pc[t] = "proxy" => \E i \in DOMAIN seen[t] : CertAt(t, i)
  /\ pc[t] = "dns" => \E i, j \in DOMAIN seen[t] : i <= j /\ CertAt(t, i) /\ ProxyAt(t, j)
  /\ pc[t] = "body" /\ ask[t].url # "invalid" =>
       \E i, j, k \in DOMAIN seen[t] : i <= j /\ j <= k /\ CertAt(t, i) /\ ProxyAt(t, j) /\ DnsAt(t, k)

(* What the server was sent last.                                          *)
Followed(t) ==
  \/ hop[t] = 0 /\ wire[t] = Wire(ask[t])
  \/ hop[t] > 0 /\ wire[t] = [method |-> "get", data |-> {}]
  \/ hop[t] > 0 /\ wire[t] = [method |-> Wire(ask[t]).method, data |-> Wire(ask[t]).data \ {"query"}]
WireOf(t) ==
  /\ pc[t] \notin {"wait", "done"} => hop[t] = 0 /\ wire[t].method = "none"
  /\ pc[t] = "wait" => Followed(t)
  /\ pc[t] = "done" => wire[t].method = "none" \/ Followed(t) \/ ~ok[t]

DiskOf(t) ==
  /\ pc[t] \notin {"send", "wait", "done"} => disk[t] = "old"
  /\ pc[t] \in {"send", "wait"} => disk[t] = IF ask[t].op = "download" THEN "part" ELSE "old"
  /\ pc[t] = "done" /\ ask[t].op = "download" =>
       IF ok[t] THEN disk[t] \in {"whole", "cut"} ELSE disk[t] \in {"old", "part"}

HttpInv == HttpType /\ ClientInv /\ \A t \in Clients : SeenOf(t) /\ WireOf(t) /\ DiskOf(t)

LEMMA WireTypes ==
  ASSUME NEW a \in Questions
  PROVE  Wire(a) \in Wires /\ Wire(a).method # "none"
BY DEF Questions, Wire, Wires

(* A request of one proper kind of data goes out as asked.                 *)
LEMMA ProperWire ==
  ASSUME NEW a \in Questions, Proper(a), a.fields < 2
  PROVE  /\ Wire(a).method = a.method
         /\ a.method # "get" => Wire(a).data = Given(a) /\ Wire(a).data \ {"query"} = Given(a)
         /\ a.method = "get" => Wire(a).data = IF a.params THEN {"query"} ELSE {}
<1>1. a.method \in {"get", "post", "put"} /\ a.fields \in 0 .. 2 /\ a.raw \in BOOLEAN
      /\ a.params \in BOOLEAN /\ a.file \in BOOLEAN
  BY DEF Questions
<1>2. Given(a) \subseteq {"params", "raw", "lastField", "file"}
  BY DEF Given
<1>3. "params" \in Given(a) <=> a.params
  BY DEF Given
<1>4. "raw" \in Given(a) <=> a.raw
  BY DEF Given
<1>5. "file" \in Given(a) <=> a.file
  BY DEF Given
<1>6. "lastField" \in Given(a) <=> a.fields = 1
  BY DEF Given
<1>7. CASE a.method = "get"
  <2>1. ~a.file /\ a.fields # 1
    BY <1>5, <1>6, <1>7 DEF Proper
  <2>2. a.fields = 0
    BY <1>1, <2>1
  <2>3. Wire(a) = [method |-> "get", data |-> IF a.params THEN {"query"} ELSE {}]
    BY <1>7, <2>1, <2>2 DEF Wire
  <2> QED BY <1>7, <2>3
<1>8. CASE a.method = "put"
  <2>1. Given(a) = {"file"}
    BY <1>8 DEF Proper
  <2>2. Wire(a) = [method |-> "put", data |-> {"file"}]
    BY <1>5, <1>8, <2>1 DEF Wire
  <2> QED BY <1>8, <2>1, <2>2
<1>9. CASE a.method = "post"
  <2>1. Given(a) \in {{}, {"params"}, {"raw"}, {"lastField"}}
    <3>1. a.method # "get"
      BY <1>9
    <3> QED BY <1>9, <3>1 DEF Proper
  <2>2. ~a.file
    <3>1. "file" \notin Given(a)
      BY <2>1
    <3> QED BY <1>5, <3>1
  <2>3. CASE a.fields = 1
    <3>1. Given(a) = {"lastField"}
      BY <1>6, <2>1, <2>3
    <3>2. Wire(a) = [method |-> "post", data |-> {"lastField"}]
      BY <1>9, <2>2, <2>3 DEF Wire
    <3> QED BY <1>9, <3>1, <3>2
  <2>4. CASE a.fields = 0 /\ a.raw
    <3>1. Given(a) = {"raw"}
      BY <1>4, <2>1, <2>4
    <3>2. Wire(a) = [method |-> "post", data |-> {"raw"}]
      BY <1>9, <2>2, <2>4 DEF Wire
    <3> QED BY <1>9, <3>1, <3>2
  <2>5. CASE a.fields = 0 /\ ~a.raw
    <3>1. "raw" \notin Given(a) /\ "lastField" \notin Given(a)
      BY <1>4, <1>6, <2>5
    <3>2. CASE a.params
      <4>1. Given(a) = {"params"}
        BY <1>3, <2>1, <3>1, <3>2
      <4>2. Wire(a) = [method |-> "post", data |-> {"params"}]
        BY <1>9, <2>2, <2>5, <3>2 DEF Wire
      <4> QED BY <1>9, <4>1, <4>2
    <3>3. CASE ~a.params
      <4>1. Given(a) = {}
        BY <1>3, <2>1, <3>1, <3>3
      <4>2. Wire(a) = [method |-> "post", data |-> {}]
        BY <1>9, <2>2, <2>5, <3>3 DEF Wire
      <4> QED BY <1>9, <4>1, <4>2
    <3> QED BY <3>2, <3>3
  <2> QED BY <1>1, <2>3, <2>4, <2>5
<1> QED BY <1>1, <1>7, <1>8, <1>9

LEMMA HttpInvKept == HttpInv => HttpKept
<1> SUFFICES ASSUME HttpInv PROVE HttpKept
  OBVIOUS
<1>1. LibraryReady
  <2> SUFFICES ASSUME NEW t \in Clients, pc[t] \in Ready PROVE inits > 0
    BY DEF LibraryReady, Ready
  <2>1. Cardinality(Swapping) \in Nat
    BY FS_CardinalityType DEF HttpInv, ClientInv
  <2> QED BY <2>1 DEF HttpInv, ClientInv, HttpType, CountType
<1>2. ConfigOfItsTime
  BY DEF HttpInv, SeenOf, ConfigOfItsTime, CertAt, ProxyAt, DnsAt
<1>3. SentAsAsked
  <2> SUFFICES ASSUME NEW t \in Clients, pc[t] \in {"wait", "done"}, wire[t].method # "none",
                      Proper(ask[t]), ask[t].fields < 2, ~(pc[t] = "done" /\ ~ok[t])
               PROVE  \/ /\ wire[t].method = ask[t].method
                         /\ wire[t].data = IF ask[t].method # "get" THEN Given(ask[t])
                                           ELSE IF ask[t].params /\ hop[t] = 0 THEN {"query"} ELSE {}
                      \/ hop[t] > 0 /\ wire[t] = [method |-> "get", data |-> {}]
    BY DEF SentAsAsked
  <2> DEFINE a == ask[t]
  <2>1. Followed(t) /\ a \in Questions /\ hop[t] \in Nat
    BY DEF HttpInv, WireOf, SeenOf, HttpType, EndType
  <2>2. /\ Wire(a).method = a.method
        /\ a.method # "get" => Wire(a).data = Given(a) /\ Wire(a).data \ {"query"} = Given(a)
        /\ a.method = "get" => Wire(a).data = IF a.params THEN {"query"} ELSE {}
    BY <2>1, ProperWire
  <2> HIDE DEF a
  <2>3. Followed(t) = \/ hop[t] = 0 /\ wire[t] = Wire(a)
                      \/ hop[t] > 0 /\ wire[t] = [method |-> "get", data |-> {}]
                      \/ hop[t] > 0 /\ wire[t] = [method |-> Wire(a).method, data |-> Wire(a).data \ {"query"}]
    BY DEF Followed, a
  <2>4. CASE hop[t] = 0 /\ wire[t] = Wire(a)
    BY <2>2, <2>4 DEF a
  <2>5. CASE hop[t] > 0 /\ wire[t] = [method |-> Wire(a).method, data |-> Wire(a).data \ {"query"}]
    <3>1. wire[t].method = a.method /\ wire[t].data = Wire(a).data \ {"query"}
      BY <2>2, <2>5
    <3>2. a.method = "get" => wire[t].data = {}
      BY <2>2, <3>1
    <3>3. ~(hop[t] = 0)
      BY <2>1, <2>5
    <3> QED BY <2>2, <3>1, <3>2, <3>3 DEF a
  <2> QED BY <2>1, <2>3, <2>4, <2>5
<1>4. DownloadTold
  BY DEF HttpInv, DiskOf, DownloadTold
<1> QED BY <1>1, <1>2, <1>3, <1>4 DEF HttpKept

LEMMA HttpStarts == HttpInit => HttpInv
<1> SUFFICES ASSUME HttpInit PROVE HttpInv
  OBVIOUS
<1>1. CountType /\ StepType /\ ReadType /\ EndType
  BY DEF HttpInit, CountType, StepType, ReadType, EndType, ConfigSet, NoConfig, Each, Steps, Wires
<1>2. Swapping = {} /\ \A t \in Clients : pc[t] = "idle"
  BY DEF HttpInit, Each, Swapping
<1>3. ClientInv
  BY <1>2, FS_EmptySet DEF HttpInit, ClientInv, Ready
<1>4. \A t \in Clients : SeenOf(t) /\ WireOf(t) /\ DiskOf(t)
  BY <1>2 DEF HttpInit, Each, SeenOf, WireOf, DiskOf, Creating
<1> QED BY <1>1, <1>3, <1>4 DEF HttpInv, HttpType
-----------------------------------------------------------------------------
(* The threads that a step leaves alone.                                   *)
Same(t) ==
  /\ pc'[t] = pc[t] /\ ask'[t] = ask[t] /\ got'[t] = got[t] /\ seen'[t] = seen[t]
  /\ hop'[t] = hop[t] /\ wire'[t] = wire[t] /\ ok'[t] = ok[t] /\ disk'[t] = disk[t]
ThreadInv(t) == SeenOf(t) /\ WireOf(t) /\ DiskOf(t)

LEMMA SameKeeps ==
  ASSUME NEW t \in Clients, ThreadInv(t), Same(t), UNCHANGED config
  PROVE  ThreadInv(t)'
<1>1. SeenOf(t)'
  BY DEF ThreadInv, Same, SeenOf, CertAt, ProxyAt, DnsAt, Creating
<1>2. WireOf(t)'
  BY DEF ThreadInv, Same, WireOf, Followed
<1>3. DiskOf(t)'
  BY DEF ThreadInv, Same, DiskOf
<1> QED BY <1>1, <1>2, <1>3 DEF ThreadInv

LEMMA OneMoves ==
  ASSUME HttpInv, NEW t \in Clients, \A u \in Clients \ {t} : Same(u), UNCHANGED config,
         HttpType', ClientInv', ThreadInv(t)'
  PROVE  HttpInv'
<1>1. \A u \in Clients : ThreadInv(u)
  BY DEF HttpInv, ThreadInv
<1>2. \A u \in Clients : ThreadInv(u)'
  BY <1>1, SameKeeps
<1> QED BY <1>2 DEF HttpInv, ThreadInv

LEMMA ClientRests ==
  ASSUME ClientInv, UNCHANGED <<inits, client, mine>>,
         \A t \in Clients : pc'[t] = "swap" <=> pc[t] = "swap",
         \A t \in Clients : pc'[t] \in Ready => pc[t] \in Ready \/ client # 0
  PROVE  ClientInv'
<1>1. Swapping' = Swapping
  BY DEF Swapping
<1> QED BY <1>1 DEF ClientInv

(* A step of one thread within its request, to a step of another name.     *)
LEMMA GoesTo ==
  ASSUME HttpInv, NEW t \in Clients, NEW to \in Steps, Go(t, to)
  PROVE  /\ pc'[t] = to /\ \A u \in Clients \ {t} : pc'[u] = pc[u]
         /\ pc' \in [Clients -> Steps]
BY DEF HttpInv, HttpType, StepType, Go
-----------------------------------------------------------------------------
LEMMA SetConfigKeeps ==
  ASSUME HttpInv, SetConfig
  PROVE  HttpInv'
<1>1. /\ sets' = sets + 1
      /\ seen' = [t \in Clients |-> IF t \in Creating THEN Append(seen[t], config') ELSE seen[t]]
      /\ UNCHANGED <<client, made, inits, pc, ask, mine, got, hop, wire, ok, disk>>
      /\ sets \in Nat
  BY DEF SetConfig, HttpInv, HttpType, CountType
<1>2. config' \in ConfigSet
  <2>1. PICK p \in ConfigParts, v \in {0, sets + 1} : config' = [config EXCEPT ![p] = v]
    BY DEF SetConfig
  <2>2. v \in Nat
    BY <1>1
  <2> QED BY <2>1, <2>2 DEF HttpInv, HttpType, CountType, ConfigSet
<1>3. HttpType'
  <2>1. \A t \in Clients : seen[t] \in Seq(ConfigSet)
    BY DEF HttpInv, HttpType, ReadType
  <2>2. \A t \in Clients : Append(seen[t], config') \in Seq(ConfigSet)
    BY <1>2, <2>1, AppendProperties
  <2>3. ReadType'
    BY <1>1, <2>1, <2>2 DEF HttpInv, HttpType, ReadType
  <2>4. CountType' /\ StepType' /\ EndType'
    BY <1>1, <1>2 DEF HttpInv, HttpType, CountType, StepType, EndType
  <2> QED BY <2>3, <2>4 DEF HttpType
<1>4. ClientInv'
  BY <1>1, ClientRests DEF HttpInv
<1>5. ASSUME NEW t \in Clients PROVE ThreadInv(t)'
  <2>1. WireOf(t)' /\ DiskOf(t)'
    BY <1>1 DEF HttpInv, WireOf, Followed, DiskOf
  <2>2. CASE t \notin Creating
    <3>1. seen'[t] = seen[t] /\ pc[t] \in Steps
      BY <1>1, <2>2 DEF HttpInv, HttpType, StepType
    <3>2. SeenOf(t)'
      BY <1>1, <2>2, <3>1 DEF HttpInv, SeenOf, CertAt, ProxyAt, DnsAt, Creating
    <3> QED BY <2>1, <3>2 DEF ThreadInv
  <2>3. CASE t \in Creating
    <3> DEFINE s == seen[t]
    <3>1. s \in Seq(ConfigSet) /\ seen'[t] = Append(s, config')
      BY <1>1, <2>3 DEF HttpInv, HttpType, ReadType
    <3>2. /\ DOMAIN s = 1 .. Len(s) /\ DOMAIN seen'[t] = 1 .. Len(s) + 1 /\ Len(seen'[t]) = Len(s) + 1
          /\ seen'[t][Len(s) + 1] = config' /\ \A i \in DOMAIN s : seen'[t][i] = s[i]
          /\ Len(s) \in Nat
      BY <1>2, <3>1, AppendProperties, LenProperties
    <3>3. DOMAIN s \subseteq DOMAIN seen'[t] /\ seen'[t] # <<>>
      BY <3>2
    <3>4. pc[t] # "body"
      BY <2>3 DEF Creating
    <3>5. SeenOf(t)
      BY DEF HttpInv
    <3>6. \A i \in DOMAIN s : (CertAt(t, i) => CertAt(t, i)') /\ (ProxyAt(t, i) => ProxyAt(t, i)')
      BY <1>1, <3>2, <3>3 DEF CertAt, ProxyAt
    <3>7. pc[t] = "proxy" => \E i \in DOMAIN seen'[t] : CertAt(t, i)'
      BY <3>3, <3>5, <3>6 DEF SeenOf
    <3>8. pc[t] = "dns" => \E i, j \in DOMAIN seen'[t] : i <= j /\ CertAt(t, i)' /\ ProxyAt(t, j)'
      BY <3>3, <3>5, <3>6 DEF SeenOf
    <3> HIDE DEF s
    <3>9. SeenOf(t)'
      BY <1>1, <3>2, <3>3, <3>4, <3>5, <3>7, <3>8 DEF SeenOf
    <3> QED BY <2>1, <3>9 DEF ThreadInv
  <2> QED BY <2>2, <2>3
<1> QED BY <1>3, <1>4, <1>5 DEF HttpInv, ThreadInv

LEMMA AskKeeps ==
  ASSUME HttpInv, NEW t \in Clients, Ask(t)
  PROVE  HttpInv'
<1>1. PICK a \in Asks[t] : ask' = [ask EXCEPT ![t] = a]
  BY DEF Ask
<1>2. /\ pc[t] = "idle" /\ seen' = [seen EXCEPT ![t] = <<config>>] /\ Go(t, "look")
      /\ UNCHANGED <<config, sets, client, made, inits, mine, got, hop, wire, ok, disk>>
      /\ a \in Questions /\ config \in ConfigSet
  BY HttpAssumption DEF Ask, HttpInv, HttpType, CountType
<1>3. /\ pc'[t] = "look" /\ \A u \in Clients \ {t} : pc'[u] = pc[u]
      /\ pc' \in [Clients -> Steps]
  BY <1>2, GoesTo DEF Steps
<1>4. /\ <<config>> \in Seq(ConfigSet) /\ <<config>> # <<>> /\ Len(<<config>>) = 1
      /\ <<config>>[1] = config
  BY <1>2
<1>5. seen'[t] = <<config>> /\ ask'[t] = a /\ seen' \in [Clients -> Seq(ConfigSet)]
      /\ ask' \in [Clients -> Questions \cup {NoAsk}]
      /\ \A u \in Clients \ {t} : seen'[u] = seen[u] /\ ask'[u] = ask[u]
  BY <1>1, <1>2, <1>4 DEF HttpInv, HttpType, StepType, ReadType
<1>6. HttpType'
  BY <1>2, <1>3, <1>5 DEF HttpInv, HttpType, CountType, StepType, ReadType, EndType
<1>7. ClientInv'
  BY <1>2, <1>3, ClientRests DEF HttpInv, Ready
<1>8. SeenOf(t)'
  BY <1>2, <1>3, <1>4, <1>5 DEF SeenOf
<1>9. WireOf(t)' /\ DiskOf(t)'
  BY <1>2, <1>3 DEF HttpInv, WireOf, DiskOf
<1>10. \A u \in Clients \ {t} : Same(u)
  BY <1>2, <1>3, <1>5 DEF Same
<1> QED BY <1>2, <1>6, <1>7, <1>8, <1>9, <1>10, OneMoves DEF ThreadInv
-----------------------------------------------------------------------------
(* The client object.                                                      *)
LEMMA FindClientKeeps ==
  ASSUME HttpInv, NEW t \in Clients, FindClient(t)
  PROVE  HttpInv'
<1> DEFINE to == IF client = 0 THEN "make" ELSE "cert"
<1>1. /\ pc[t] = "look" /\ Go(t, to)
      /\ UNCHANGED <<config, sets, client, made, inits, ask, mine, got, seen, hop, wire, ok, disk>>
  BY DEF FindClient
<1>2. to \in {"make", "cert"} /\ to \in Steps /\ (to = "cert" => client # 0)
  BY DEF Steps
<1> HIDE DEF to
<1>3. pc'[t] = to /\ (\A u \in Clients \ {t} : pc'[u] = pc[u]) /\ pc' \in [Clients -> Steps]
  BY <1>1, <1>2, GoesTo
<1>4. HttpType'
  BY <1>1, <1>3 DEF HttpInv, HttpType, CountType, StepType, ReadType, EndType
<1>5. ClientInv'
  BY <1>1, <1>2, <1>3, ClientRests DEF HttpInv, Ready
<1>6. SeenOf(t)' /\ WireOf(t)' /\ DiskOf(t)'
  BY <1>1, <1>2, <1>3 DEF HttpInv, SeenOf, WireOf, DiskOf, Creating
<1>7. \A u \in Clients \ {t} : Same(u)
  BY <1>1, <1>3 DEF Same
<1> QED BY <1>1, <1>4, <1>5, <1>6, <1>7, OneMoves DEF ThreadInv

LEMMA MakeClientKeeps ==
  ASSUME HttpInv, NEW t \in Clients, MakeClient(t)
  PROVE  HttpInv'
<1>1. /\ pc[t] = "make" /\ Go(t, "swap") /\ inits' = inits + 1 /\ made' = made + 1
      /\ mine' = [mine EXCEPT ![t] = [new |-> made + 1, old |-> client]]
      /\ UNCHANGED <<config, sets, client, ask, got, seen, hop, wire, ok, disk>>
      /\ inits \in Int /\ made \in Nat /\ client \in Nat
  BY DEF MakeClient, HttpInv, HttpType, CountType
<1>2. pc'[t] = "swap" /\ (\A u \in Clients \ {t} : pc'[u] = pc[u]) /\ pc' \in [Clients -> Steps]
  BY <1>1, GoesTo DEF Steps
<1>3. /\ mine'[t] = [new |-> made + 1, old |-> client] /\ \A u \in Clients \ {t} : mine'[u] = mine[u]
      /\ mine' \in [Clients -> [new : Nat, old : Nat]]
  BY <1>1 DEF HttpInv, HttpType, CountType
<1>4. HttpType'
  BY <1>1, <1>2, <1>3 DEF HttpInv, HttpType, CountType, StepType, ReadType, EndType
<1>5. ClientInv'
  <2>1. Swapping' = Swapping \cup {t} /\ t \notin Swapping
    BY <1>1, <1>2 DEF Swapping
  <2>2. IsFiniteSet(Swapping) /\ Cardinality(Swapping) \in Nat
    BY FS_CardinalityType DEF HttpInv, ClientInv
  <2>3. IsFiniteSet(Swapping') /\ Cardinality(Swapping') = Cardinality(Swapping) + 1
    BY <2>1, <2>2, FS_AddElement
  <2>4. inits' >= Cardinality(Swapping') + (IF client' = 0 THEN 0 ELSE 1)
    BY <1>1, <2>2, <2>3 DEF HttpInv, ClientInv
  <2>5. ASSUME NEW u \in Clients
        PROVE  /\ pc'[u] = "swap" => mine'[u].new > 0 /\ (client' = 0 => mine'[u].old = 0)
               /\ pc'[u] \in Ready => client' # 0
    BY <1>1, <1>2, <1>3 DEF HttpInv, ClientInv, Ready
  <2> QED BY <2>3, <2>4, <2>5 DEF ClientInv
<1>6. SeenOf(t)' /\ WireOf(t)' /\ DiskOf(t)'
  BY <1>1, <1>2 DEF HttpInv, SeenOf, WireOf, DiskOf, Creating
<1>7. \A u \in Clients \ {t} : Same(u)
  BY <1>1, <1>2 DEF Same
<1> QED BY <1>1, <1>4, <1>5, <1>6, <1>7, OneMoves DEF ThreadInv

LEMMA PutClientKeeps ==
  ASSUME HttpInv, NEW t \in Clients, PutClient(t)
  PROVE  HttpInv'
<1>1. /\ pc[t] = "swap" /\ Go(t, "cert") /\ client' = mine[t].new
      /\ \E old \in {mine[t].old, client} : inits' = IF old = 0 THEN inits ELSE inits - 1
      /\ UNCHANGED <<config, sets, made, ask, mine, got, seen, hop, wire, ok, disk>>
      /\ inits \in Int /\ client \in Nat /\ mine[t].new \in Nat
  BY DEF PutClient, HttpInv, HttpType, CountType
<1>2. pc'[t] = "cert" /\ (\A u \in Clients \ {t} : pc'[u] = pc[u]) /\ pc' \in [Clients -> Steps]
  BY <1>1, GoesTo DEF Steps
<1>3. mine[t].new > 0 /\ (client = 0 => mine[t].old = 0)
  BY <1>1 DEF HttpInv, ClientInv
<1>4. inits' \in Int /\ inits' >= inits - 1 /\ (client = 0 => inits' = inits)
  BY <1>1, <1>3
<1>5. HttpType'
  BY <1>1, <1>2, <1>4 DEF HttpInv, HttpType, CountType, StepType, ReadType, EndType
<1>6. ClientInv'
  <2>1. Swapping' = Swapping \ {t} /\ t \in Swapping
    BY <1>1, <1>2 DEF Swapping
  <2>2. IsFiniteSet(Swapping) /\ Cardinality(Swapping) \in Nat
    BY FS_CardinalityType DEF HttpInv, ClientInv
  <2>3. IsFiniteSet(Swapping') /\ Cardinality(Swapping') = Cardinality(Swapping) - 1
    BY <2>1, <2>2, FS_RemoveElement
  <2>4. client' # 0
    BY <1>1, <1>3
  <2>5. inits' >= Cardinality(Swapping') + 1
    BY <1>1, <1>4, <2>2, <2>3 DEF HttpInv, ClientInv
  <2>6. inits' >= Cardinality(Swapping') + (IF client' = 0 THEN 0 ELSE 1)
    BY <2>4, <2>5
  <2>7. ASSUME NEW u \in Clients
        PROVE  /\ pc'[u] = "swap" => mine'[u].new > 0 /\ (client' = 0 => mine'[u].old = 0)
               /\ pc'[u] \in Ready => client' # 0
    BY <1>1, <1>2, <2>4 DEF HttpInv, ClientInv
  <2> QED BY <2>3, <2>6, <2>7 DEF ClientInv
<1>7. SeenOf(t)' /\ WireOf(t)' /\ DiskOf(t)'
  BY <1>1, <1>2 DEF HttpInv, SeenOf, WireOf, DiskOf, Creating
<1>8. \A u \in Clients \ {t} : Same(u)
  BY <1>1, <1>2 DEF Same
<1> QED BY <1>1, <1>5, <1>6, <1>7, <1>8, OneMoves DEF ThreadInv
-----------------------------------------------------------------------------
(* The three reads: what is read is the newest of what was seen.           *)
LEMMA Newest ==
  ASSUME HttpInv, NEW t \in Clients, t \in Creating
  PROVE  /\ Len(seen[t]) \in DOMAIN seen[t] /\ seen[t][Len(seen[t])] = config
         /\ \A i \in DOMAIN seen[t] : i <= Len(seen[t])
<1>1. seen[t] \in Seq(ConfigSet) /\ seen[t] # <<>> /\ seen[t][Len(seen[t])] = config
  BY DEF HttpInv, HttpType, ReadType, SeenOf
<1>2. Len(seen[t]) \in Nat /\ DOMAIN seen[t] = 1 .. Len(seen[t]) /\ Len(seen[t]) # 0
  BY <1>1, LenProperties, EmptySeq
<1> QED BY <1>1, <1>2

LEMMA Reads ==
  ASSUME HttpInv, NEW t \in Clients, NEW p \in ConfigParts, got' = [got EXCEPT ![t][p] = config[p]]
  PROVE  /\ got' \in [Clients -> ConfigSet] /\ got'[t][p] = config[p]
         /\ \A q \in ConfigParts \ {p} : got'[t][q] = got[t][q]
         /\ \A u \in Clients \ {t} : got'[u] = got[u]
<1>1. got \in [Clients -> ConfigSet] /\ config \in ConfigSet
  BY DEF HttpInv, HttpType, CountType, ReadType
<1> QED BY <1>1 DEF ConfigSet

LEMMA ReadCertKeeps ==
  ASSUME HttpInv, NEW t \in Clients, ReadCert(t)
  PROVE  HttpInv'
<1> DEFINE to == IF ask[t].url = "invalid" THEN "body" ELSE "proxy"
<1>1. /\ pc[t] = "cert" /\ Go(t, to)
      /\ got' = IF ask[t].url = "https" THEN [got EXCEPT ![t]["cert"] = config["cert"]] ELSE got
      /\ UNCHANGED <<config, sets, client, made, inits, ask, mine, seen, hop, wire, ok, disk>>
  BY DEF ReadCert
<1>2. to \in {"body", "proxy"} /\ to \in Steps /\ (to = "body" => ask[t].url = "invalid")
  BY DEF Steps
<1> HIDE DEF to
<1>3. pc'[t] = to /\ (\A u \in Clients \ {t} : pc'[u] = pc[u]) /\ pc' \in [Clients -> Steps]
  BY <1>1, <1>2, GoesTo
<1>4. /\ got' \in [Clients -> ConfigSet]
      /\ ask[t].url = "https" => got'[t]["cert"] = config["cert"]
      /\ \A u \in Clients \ {t} : got'[u] = got[u]
  <2>1. "cert" \in ConfigParts /\ got \in [Clients -> ConfigSet]
    BY DEF ConfigParts, HttpInv, HttpType, ReadType
  <2> QED BY <1>1, <2>1, Reads
<1>5. HttpType'
  BY <1>1, <1>3, <1>4 DEF HttpInv, HttpType, CountType, StepType, ReadType, EndType
<1>6. ClientInv'
  BY <1>1, <1>2, <1>3, ClientRests DEF HttpInv, Ready
<1>7. SeenOf(t)'
  <2>1. PICK n \in DOMAIN seen[t] : seen[t][n] = config
    BY <1>1, Newest DEF Creating
  <2>2. CertAt(t, n)'
    BY <1>1, <1>4, <2>1 DEF CertAt
  <2>3. \E i \in DOMAIN seen'[t] : CertAt(t, i)'
    BY <1>1, <2>1, <2>2
  <2>4. ask'[t] \in Questions /\ seen'[t] # <<>> /\ seen'[t][Len(seen'[t])] = config'
    BY <1>1 DEF HttpInv, SeenOf, Creating
  <2>5. ask'[t] = ask[t] /\ (pc'[t] = "proxy" \/ (pc'[t] = "body" /\ ask[t].url = "invalid"))
    BY <1>1, <1>2, <1>3
  <2> QED BY <2>3, <2>4, <2>5 DEF SeenOf
<1>8. WireOf(t)' /\ DiskOf(t)'
  BY <1>1, <1>2, <1>3 DEF HttpInv, WireOf, DiskOf
<1>9. \A u \in Clients \ {t} : Same(u)
  BY <1>1, <1>3, <1>4 DEF Same
<1> QED BY <1>1, <1>5, <1>6, <1>7, <1>8, <1>9, OneMoves DEF ThreadInv

LEMMA ReadProxyKeeps ==
  ASSUME HttpInv, NEW t \in Clients, ReadProxy(t)
  PROVE  HttpInv'
<1>1. /\ pc[t] = "proxy" /\ Go(t, "dns") /\ got' = [got EXCEPT ![t]["proxy"] = config["proxy"]]
      /\ UNCHANGED <<config, sets, client, made, inits, ask, mine, seen, hop, wire, ok, disk>>
  BY DEF ReadProxy
<1>2. pc'[t] = "dns" /\ (\A u \in Clients \ {t} : pc'[u] = pc[u]) /\ pc' \in [Clients -> Steps]
  BY <1>1, GoesTo DEF Steps
<1>3. /\ got' \in [Clients -> ConfigSet] /\ got'[t]["proxy"] = config["proxy"]
      /\ got'[t]["cert"] = got[t]["cert"] /\ \A u \in Clients \ {t} : got'[u] = got[u]
  <2>1. "proxy" \in ConfigParts
    BY DEF ConfigParts
  <2>2. "cert" \in ConfigParts \ {"proxy"}
    BY DEF ConfigParts
  <2>3. got' = [got EXCEPT ![t]["proxy"] = config["proxy"]]
    BY <1>1
  <2>4. /\ got' \in [Clients -> ConfigSet] /\ got'[t]["proxy"] = config["proxy"]
        /\ \A q \in ConfigParts \ {"proxy"} : got'[t][q] = got[t][q]
        /\ \A u \in Clients \ {t} : got'[u] = got[u]
    BY <2>1, <2>3, Reads
  <2> QED BY <2>2, <2>4
<1>4. HttpType'
  BY <1>1, <1>2, <1>3 DEF HttpInv, HttpType, CountType, StepType, ReadType, EndType
<1>5. ClientInv'
  BY <1>1, <1>2, ClientRests DEF HttpInv, Ready
<1>6. SeenOf(t)'
  <2>1. PICK n \in DOMAIN seen[t] : seen[t][n] = config /\ \A i \in DOMAIN seen[t] : i <= n
    BY <1>1, Newest DEF Creating
  <2>2. PICK i \in DOMAIN seen[t] : CertAt(t, i)
    BY <1>1 DEF HttpInv, SeenOf
  <2>3. CertAt(t, i)' /\ ProxyAt(t, n)' /\ i <= n /\ DOMAIN seen'[t] = DOMAIN seen[t]
    BY <1>1, <1>3, <2>1, <2>2 DEF CertAt, ProxyAt
  <2>4. (\E a, b \in DOMAIN seen[t] : a <= b /\ CertAt(t, a) /\ ProxyAt(t, b))'
    BY <2>1, <2>3
  <2>5. ask'[t] \in Questions /\ seen'[t] # <<>> /\ seen'[t][Len(seen'[t])] = config'
    BY <1>1 DEF HttpInv, SeenOf, Creating
  <2>6. pc'[t] \notin {"idle", "proxy", "body"}
    BY <1>2
  <2> QED BY <2>4, <2>5, <2>6, Zenon DEF SeenOf
<1>7. WireOf(t)' /\ DiskOf(t)'
  BY <1>1, <1>2 DEF HttpInv, WireOf, DiskOf
<1>8. \A u \in Clients \ {t} : Same(u)
  BY <1>1, <1>2, <1>3 DEF Same
<1> QED BY <1>1, <1>4, <1>5, <1>6, <1>7, <1>8, OneMoves DEF ThreadInv

LEMMA ReadDnsKeeps ==
  ASSUME HttpInv, NEW t \in Clients, ReadDns(t)
  PROVE  HttpInv'
<1>1. /\ pc[t] = "dns" /\ Go(t, "body") /\ got' = [got EXCEPT ![t]["dns"] = config["dns"]]
      /\ UNCHANGED <<config, sets, client, made, inits, ask, mine, seen, hop, wire, ok, disk>>
  BY DEF ReadDns
<1>2. pc'[t] = "body" /\ (\A u \in Clients \ {t} : pc'[u] = pc[u]) /\ pc' \in [Clients -> Steps]
  BY <1>1, GoesTo DEF Steps
<1>3. /\ got' \in [Clients -> ConfigSet] /\ got'[t]["dns"] = config["dns"]
      /\ got'[t]["cert"] = got[t]["cert"] /\ got'[t]["proxy"] = got[t]["proxy"]
      /\ \A u \in Clients \ {t} : got'[u] = got[u]
  <2>1. "dns" \in ConfigParts
    BY DEF ConfigParts
  <2>2. "cert" \in ConfigParts \ {"dns"} /\ "proxy" \in ConfigParts \ {"dns"}
    BY DEF ConfigParts
  <2>3. got' = [got EXCEPT ![t]["dns"] = config["dns"]]
    BY <1>1
  <2>4. /\ got' \in [Clients -> ConfigSet] /\ got'[t]["dns"] = config["dns"]
        /\ \A q \in ConfigParts \ {"dns"} : got'[t][q] = got[t][q]
        /\ \A u \in Clients \ {t} : got'[u] = got[u]
    BY <2>1, <2>3, Reads
  <2> QED BY <2>2, <2>4
<1>4. HttpType'
  BY <1>1, <1>2, <1>3 DEF HttpInv, HttpType, CountType, StepType, ReadType, EndType
<1>5. ClientInv'
  BY <1>1, <1>2, ClientRests DEF HttpInv, Ready
<1>6. SeenOf(t)'
  <2>1. PICK n \in DOMAIN seen[t] : seen[t][n] = config /\ \A i \in DOMAIN seen[t] : i <= n
    BY <1>1, Newest DEF Creating
  <2>2. PICK i \in DOMAIN seen[t], j \in DOMAIN seen[t] : i <= j /\ CertAt(t, i) /\ ProxyAt(t, j)
    BY <1>1 DEF HttpInv, SeenOf
  <2>3. /\ CertAt(t, i)' /\ ProxyAt(t, j)' /\ DnsAt(t, n)' /\ j <= n
        /\ DOMAIN seen'[t] = DOMAIN seen[t]
    BY <1>1, <1>3, <2>1, <2>2 DEF CertAt, ProxyAt, DnsAt
  <2>4. (\E a, b, c \in DOMAIN seen[t] :
           a <= b /\ b <= c /\ CertAt(t, a) /\ ProxyAt(t, b) /\ DnsAt(t, c))'
    BY <2>1, <2>2, <2>3
  <2>5. ask'[t] \in Questions /\ seen'[t] # <<>> /\ seen'[t][Len(seen'[t])] = config'
    BY <1>1 DEF HttpInv, SeenOf, Creating
  <2>6. pc'[t] \notin {"idle", "proxy", "dns"}
    BY <1>2
  <2> QED BY <2>4, <2>5, <2>6, Zenon DEF SeenOf
<1>7. WireOf(t)' /\ DiskOf(t)'
  BY <1>1, <1>2 DEF HttpInv, WireOf, DiskOf
<1>8. \A u \in Clients \ {t} : Same(u)
  BY <1>1, <1>2, <1>3 DEF Same
<1> QED BY <1>1, <1>4, <1>5, <1>6, <1>7, <1>8, OneMoves DEF ThreadInv
-----------------------------------------------------------------------------
(* The request itself.                                                     *)
LEMMA PutBodyKeeps ==
  ASSUME HttpInv, NEW t \in Clients, PutBody(t)
  PROVE  HttpInv'
<1>1. /\ pc[t] = "body" /\ got' = [got EXCEPT ![t] = NoConfig] /\ seen' = [seen EXCEPT ![t] = <<>>]
      /\ UNCHANGED <<config, sets, client, made, inits, ask, mine, hop, wire>>
  BY DEF PutBody
<1>2. \/ ask[t].op = "download" /\ Go(t, "send") /\ disk' = [disk EXCEPT ![t] = "part"] /\ UNCHANGED ok
      \/ Go(t, "done") /\ ok' = [ok EXCEPT ![t] = FALSE] /\ UNCHANGED disk
      \/ ask[t].op # "download" /\ Go(t, "send") /\ UNCHANGED <<ok, disk>>
  BY DEF PutBody, End
<1>3. /\ pc'[t] \in {"send", "done"} /\ (\A u \in Clients \ {t} : pc'[u] = pc[u])
      /\ pc' \in [Clients -> Steps]
  BY <1>2, GoesTo DEF Steps
<1>4. /\ got' \in [Clients -> ConfigSet] /\ \A u \in Clients \ {t} : got'[u] = got[u] /\ seen'[u] = seen[u]
      /\ seen' \in [Clients -> Seq(ConfigSet)]
  BY <1>1 DEF HttpInv, HttpType, ReadType, ConfigSet, NoConfig
<1>5. /\ ok' \in [Clients -> BOOLEAN] /\ disk' \in [Clients -> {"old", "part", "whole", "cut"}]
      /\ \A u \in Clients \ {t} : ok'[u] = ok[u] /\ disk'[u] = disk[u]
  BY <1>2 DEF HttpInv, HttpType, EndType
<1>6. HttpType'
  BY <1>1, <1>3, <1>4, <1>5 DEF HttpInv, HttpType, CountType, StepType, EndType, ReadType
<1>7. ClientInv'
  BY <1>1, <1>3, ClientRests DEF HttpInv, Ready
<1>8. SeenOf(t)' /\ WireOf(t)'
  BY <1>1, <1>3 DEF HttpInv, SeenOf, WireOf, Creating
<1>9. DiskOf(t)'
  <2>1. disk[t] = "old" /\ disk \in [Clients -> {"old", "part", "whole", "cut"}] /\ ok \in [Clients -> BOOLEAN]
    BY <1>1 DEF HttpInv, DiskOf, HttpType, EndType
  <2>2. CASE ask[t].op = "download" /\ Go(t, "send") /\ disk' = [disk EXCEPT ![t] = "part"] /\ UNCHANGED ok
    <3>1. pc'[t] = "send" /\ disk'[t] = "part" /\ ask'[t].op = "download"
      BY <1>1, <2>1, <2>2, GoesTo DEF Steps
    <3> QED BY <3>1 DEF DiskOf
  <2>3. CASE Go(t, "done") /\ ok' = [ok EXCEPT ![t] = FALSE] /\ UNCHANGED disk
    <3>1. pc'[t] = "done" /\ disk'[t] = "old" /\ ok'[t] = FALSE
      BY <2>1, <2>3, GoesTo DEF Steps
    <3> QED BY <3>1 DEF DiskOf
  <2>4. CASE ask[t].op # "download" /\ Go(t, "send") /\ UNCHANGED <<ok, disk>>
    <3>1. pc'[t] = "send" /\ disk'[t] = "old" /\ ask'[t].op # "download"
      BY <1>1, <2>1, <2>4, GoesTo DEF Steps
    <3> QED BY <3>1 DEF DiskOf
  <2> QED BY <1>2, <2>2, <2>3, <2>4
<1>10. \A u \in Clients \ {t} : Same(u)
  BY <1>1, <1>3, <1>4, <1>5 DEF Same
<1> QED BY <1>1, <1>6, <1>7, <1>8, <1>9, <1>10, OneMoves DEF ThreadInv

LEMMA SendKeeps ==
  ASSUME HttpInv, NEW t \in Clients, Send(t)
  PROVE  HttpInv'
<1>1. /\ pc[t] = "send"
      /\ UNCHANGED <<config, sets, client, made, inits, ask, mine, got, seen, hop, disk>>
      /\ hop[t] = 0 /\ wire[t].method = "none" /\ ask[t] \in Questions
      /\ disk[t] = IF ask[t].op = "download" THEN "part" ELSE "old"
  BY DEF Send, HttpInv, SeenOf, WireOf, DiskOf
<1>2. ok \in [Clients -> BOOLEAN] /\ wire \in [Clients -> Wires]
  BY DEF HttpInv, HttpType, EndType
<1>3. CASE Go(t, "done") /\ ok' = [ok EXCEPT ![t] = FALSE] /\ UNCHANGED wire
  <2>1. pc'[t] = "done" /\ (\A u \in Clients \ {t} : pc'[u] = pc[u]) /\ pc' \in [Clients -> Steps]
    BY <1>3, GoesTo DEF Steps
  <2>2. /\ ok'[t] = FALSE /\ ok' \in [Clients -> BOOLEAN]
        /\ \A u \in Clients \ {t} : ok'[u] = ok[u]
    BY <1>2, <1>3
  <2>3. HttpType'
    BY <1>1, <1>3, <2>1, <2>2 DEF HttpInv, HttpType, CountType, StepType, ReadType, EndType
  <2>4. ClientInv'
    BY <1>1, <2>1, ClientRests DEF HttpInv, Ready
  <2>5. SeenOf(t)' /\ WireOf(t)'
    BY <1>1, <1>3, <2>1 DEF SeenOf, WireOf, Creating
  <2>6. DiskOf(t)'
    BY <1>1, <2>1, <2>2 DEF DiskOf
  <2>7. \A u \in Clients \ {t} : Same(u)
    BY <1>1, <1>3, <2>1, <2>2 DEF Same
  <2> QED BY <1>1, <2>3, <2>4, <2>5, <2>6, <2>7, OneMoves DEF ThreadInv
<1>4. CASE Go(t, "wait") /\ wire' = [wire EXCEPT ![t] = Wire(ask[t])] /\ UNCHANGED ok
  <2>1. pc'[t] = "wait" /\ (\A u \in Clients \ {t} : pc'[u] = pc[u]) /\ pc' \in [Clients -> Steps]
    BY <1>4, GoesTo DEF Steps
  <2>2. /\ wire'[t] = Wire(ask[t]) /\ wire' \in [Clients -> Wires]
        /\ \A u \in Clients \ {t} : wire'[u] = wire[u]
    BY <1>1, <1>2, <1>4, WireTypes
  <2>3. HttpType'
    BY <1>1, <1>4, <2>1, <2>2 DEF HttpInv, HttpType, CountType, StepType, ReadType, EndType
  <2>4. ClientInv'
    BY <1>1, <2>1, ClientRests DEF HttpInv, Ready
  <2>5. SeenOf(t)' /\ WireOf(t)' /\ DiskOf(t)'
    BY <1>1, <2>1, <2>2 DEF SeenOf, WireOf, Followed, DiskOf, Creating
  <2>6. \A u \in Clients \ {t} : Same(u)
    BY <1>1, <1>4, <2>1, <2>2 DEF Same
  <2> QED BY <1>1, <2>3, <2>4, <2>5, <2>6, OneMoves DEF ThreadInv
<1> QED BY <1>3, <1>4 DEF Send, End

LEMMA RedirectKeeps ==
  ASSUME HttpInv, NEW t \in Clients, Redirect(t)
  PROVE  HttpInv'
<1>1. /\ pc[t] = "wait" /\ hop' = [hop EXCEPT ![t] = @ + 1]
      /\ UNCHANGED <<config, sets, client, made, inits, ask, mine, got, seen, disk>>
      /\ Followed(t) /\ ask[t] \in Questions
      /\ disk[t] = IF ask[t].op = "download" THEN "part" ELSE "old"
  BY DEF Redirect, HttpInv, SeenOf, WireOf, DiskOf
<1>2. ok \in [Clients -> BOOLEAN] /\ wire \in [Clients -> Wires] /\ hop \in [Clients -> Nat]
      /\ pc \in [Clients -> Steps]
  BY DEF HttpInv, HttpType, EndType, StepType
<1>3. /\ hop' \in [Clients -> Nat] /\ hop'[t] > 0
      /\ \A u \in Clients \ {t} : hop'[u] = hop[u]
  BY <1>1, <1>2
<1>4. ASSUME NEW w \in Wires, wire' = [wire EXCEPT ![t] = w], UNCHANGED <<pc, ok>>,
             \/ w = [method |-> "get", data |-> {}]
             \/ w = [method |-> Wire(ask[t]).method, data |-> Wire(ask[t]).data \ {"query"}]
      PROVE  HttpInv'
  <2>1. /\ wire'[t] = w /\ wire' \in [Clients -> Wires]
        /\ \A u \in Clients \ {t} : wire'[u] = wire[u]
    BY <1>2, <1>4
  <2>2. HttpType'
    BY <1>1, <1>3, <1>4, <2>1 DEF HttpInv, HttpType, CountType, StepType, ReadType, EndType
  <2>3. ClientInv'
    BY <1>1, <1>4, ClientRests DEF HttpInv
  <2>4. Followed(t)'
    BY <1>1, <1>3, <1>4, <2>1 DEF Followed
  <2>5. SeenOf(t)' /\ WireOf(t)' /\ DiskOf(t)'
    BY <1>1, <1>4, <2>4 DEF SeenOf, WireOf, DiskOf, Creating
  <2>6. \A u \in Clients \ {t} : Same(u)
    BY <1>1, <1>3, <1>4, <2>1 DEF Same
  <2> QED BY <1>1, <2>2, <2>3, <2>5, <2>6, OneMoves DEF ThreadInv
<1>5. CASE wire' = [wire EXCEPT ![t] = [method |-> "get", data |-> {}]] /\ UNCHANGED <<pc, ok>>
  <2>1. [method |-> "get", data |-> {}] \in Wires
    BY DEF Wires
  <2> QED BY <1>4, <1>5, <2>1
<1>6. CASE wire' = [wire EXCEPT ![t].data = @ \ {"query"}] /\ UNCHANGED <<pc, ok>>
  <2> DEFINE w == [method |-> wire[t].method, data |-> wire[t].data \ {"query"}]
  <2>1. wire[t] \in Wires
    BY <1>2
  <2>2. [wire[t] EXCEPT !.data = @ \ {"query"}] = w /\ w \in Wires
    BY <2>1 DEF Wires
  <2>3. wire' = [wire EXCEPT ![t] = w]
    BY <1>6, <2>2
  <2>4. \/ w = [method |-> "get", data |-> {}]
        \/ w = [method |-> Wire(ask[t]).method, data |-> Wire(ask[t]).data \ {"query"}]
    <3>1. CASE hop[t] = 0 /\ wire[t] = Wire(ask[t])
      BY <3>1
    <3>2. CASE wire[t] = [method |-> "get", data |-> {}]
      BY <3>2
    <3>3. CASE wire[t] = [method |-> Wire(ask[t]).method, data |-> Wire(ask[t]).data \ {"query"}]
      <4>1. wire[t].method = Wire(ask[t]).method /\ wire[t].data = Wire(ask[t]).data \ {"query"}
        BY <3>3
      <4>2. (Wire(ask[t]).data \ {"query"}) \ {"query"} = Wire(ask[t]).data \ {"query"}
        OBVIOUS
      <4> QED BY <4>1, <4>2
    <3> QED BY <1>1, <3>1, <3>2, <3>3 DEF Followed
  <2> HIDE DEF w
  <2> QED BY <1>4, <1>6, <2>2, <2>3, <2>4
<1>7. CASE Go(t, "done") /\ ok' = [ok EXCEPT ![t] = FALSE] /\ UNCHANGED wire
  <2>1. pc'[t] = "done" /\ (\A u \in Clients \ {t} : pc'[u] = pc[u]) /\ pc' \in [Clients -> Steps]
    BY <1>7, GoesTo DEF Steps
  <2>2. /\ ok'[t] = FALSE /\ ok' \in [Clients -> BOOLEAN]
        /\ \A u \in Clients \ {t} : ok'[u] = ok[u]
    BY <1>2, <1>7
  <2>3. HttpType'
    BY <1>1, <1>3, <1>7, <2>1, <2>2 DEF HttpInv, HttpType, CountType, StepType, ReadType, EndType
  <2>4. ClientInv'
    BY <1>1, <2>1, ClientRests DEF HttpInv, Ready
  <2>5. SeenOf(t)' /\ WireOf(t)' /\ DiskOf(t)'
    BY <1>1, <2>1, <2>2 DEF SeenOf, WireOf, DiskOf, Creating
  <2>6. \A u \in Clients \ {t} : Same(u)
    BY <1>1, <1>3, <1>7, <2>1, <2>2 DEF Same
  <2> QED BY <1>1, <2>3, <2>4, <2>5, <2>6, OneMoves DEF ThreadInv
<1> QED BY <1>5, <1>6, <1>7 DEF Redirect, End

LEMMA RespondKeeps ==
  ASSUME HttpInv, NEW t \in Clients, Respond(t)
  PROVE  HttpInv'
<1>1. /\ pc[t] = "wait" /\ UNCHANGED <<config, sets, client, made, inits, ask, mine, got, seen, hop, wire>>
      /\ Followed(t) /\ ask[t] \in Questions
      /\ disk[t] = IF ask[t].op = "download" THEN "part" ELSE "old"
  BY DEF Respond, HttpInv, SeenOf, WireOf, DiskOf
<1>2. ok \in [Clients -> BOOLEAN] /\ disk \in [Clients -> {"old", "part", "whole", "cut"}]
  BY DEF HttpInv, HttpType, EndType
<1>3. PICK good \in BOOLEAN, file \in {"old", "part", "whole", "cut"} :
        /\ Go(t, "done") /\ ok' = [ok EXCEPT ![t] = good] /\ disk' = [disk EXCEPT ![t] = file]
        /\ ~good => file = disk[t]
        /\ good /\ disk[t] = "part" => file \in {"whole", "cut"}
  <2>1. disk[t] \in {"old", "part", "whole", "cut"} /\ disk = [disk EXCEPT ![t] = disk[t]]
    BY <1>2
  <2>2. CASE End(t, FALSE) /\ UNCHANGED disk
    BY <2>1, <2>2 DEF End
  <2>3. CASE End(t, TRUE) /\ disk' = [disk EXCEPT ![t] = IF @ = "part" THEN "whole" ELSE @]
    <3>1. CASE disk[t] = "part"
      <4>1. disk' = [disk EXCEPT ![t] = "whole"]
        BY <2>3, <3>1
      <4> QED BY <2>3, <4>1 DEF End
    <3>2. CASE disk[t] # "part"
      <4>1. disk' = [disk EXCEPT ![t] = disk[t]]
        BY <2>3, <3>2
      <4> QED BY <2>1, <2>3, <3>2, <4>1 DEF End
    <3> QED BY <3>1, <3>2
  <2>4. CASE End(t, TRUE) /\ disk' = [disk EXCEPT ![t] = "cut"]
    BY <2>4 DEF End
  <2> QED BY <2>2, <2>3, <2>4 DEF Respond
<1>4. pc'[t] = "done" /\ (\A u \in Clients \ {t} : pc'[u] = pc[u]) /\ pc' \in [Clients -> Steps]
  BY <1>3, GoesTo DEF Steps
<1>5. /\ ok'[t] = good /\ ok' \in [Clients -> BOOLEAN]
      /\ disk'[t] = file /\ disk' \in [Clients -> {"old", "part", "whole", "cut"}]
      /\ \A u \in Clients \ {t} : ok'[u] = ok[u] /\ disk'[u] = disk[u]
  BY <1>2, <1>3
<1>6. HttpType'
  BY <1>1, <1>4, <1>5 DEF HttpInv, HttpType, CountType, StepType, ReadType, EndType
<1>7. ClientInv'
  BY <1>1, <1>4, ClientRests DEF HttpInv, Ready
<1>8. SeenOf(t)' /\ WireOf(t)'
  BY <1>1, <1>4 DEF SeenOf, WireOf, Followed, Creating
<1>9. DiskOf(t)'
  BY <1>1, <1>3, <1>4, <1>5 DEF DiskOf
<1>10. \A u \in Clients \ {t} : Same(u)
  BY <1>1, <1>4, <1>5 DEF Same
<1> QED BY <1>1, <1>6, <1>7, <1>8, <1>9, <1>10, OneMoves DEF ThreadInv

LEMMA HttpKeeps ==
  ASSUME HttpInv, HttpNext \/ UNCHANGED httpVars
  PROVE  HttpInv'
<1>1. CASE HttpNext
  BY <1>1, SetConfigKeeps, AskKeeps, FindClientKeeps, MakeClientKeeps, PutClientKeeps,
     ReadCertKeeps, ReadProxyKeeps, ReadDnsKeeps, PutBodyKeeps, SendKeeps, RedirectKeeps,
     RespondKeeps DEF HttpNext
<1>2. CASE UNCHANGED httpVars
  <2>1. HttpType'
    BY <1>2 DEF httpVars, HttpInv, HttpType, CountType, StepType, ReadType, EndType
  <2>2. ClientInv'
    BY <1>2, ClientRests DEF httpVars, HttpInv
  <2>3. \A t \in Clients : ThreadInv(t)'
    BY <1>2, SameKeeps DEF httpVars, HttpInv, ThreadInv, Same
  <2> QED BY <2>1, <2>2, <2>3 DEF HttpInv, ThreadInv
<1> QED BY <1>1, <1>2
-----------------------------------------------------------------------------
(* The three together. *)
ServicesInv == LogInv /\ ZipInv /\ HttpInv

LEMMA ServicesStart == Init => ServicesInv
<1> SUFFICES ASSUME Init PROVE ServicesInv
  OBVIOUS
<1>1. LogInv
  BY LogStarts DEF Init, LogInit, LogRests
<1>2. ZipInv
  <2>1. CASE ZipRests
    <3>1. /\ ZipBegins /\ kind \in {"zip", "unzip"} /\ via \in {"stream", "file", "bytes", "js"}
          /\ size \in Nat /\ archive \in Nat /\ buffer \in Nat \ {0}
      BY <2>1 DEF ZipRests
    <3> QED BY <3>1, ZipStarts
  <2>2. CASE ZipInit
    <3>1. /\ ZipBegins /\ kind \in {"zip", "unzip"} /\ via \in {"stream", "file", "bytes", "js"}
          /\ size \in Nat
      BY <2>2, ZipAssumption DEF ZipInit
    <3>2. buffer \in Nat \ {0}
      BY <2>2, ZipAssumption DEF ZipInit
    <3>3. archive \in Nat
      BY <2>2, <3>1, ZipAssumption DEF ZipInit
    <3> QED BY <3>1, <3>2, <3>3, ZipStarts
  <2> QED BY <2>1, <2>2 DEF Init
<1>3. HttpInv
  BY HttpStarts DEF Init
<1> QED BY <1>1, <1>2, <1>3 DEF ServicesInv

LEMMA ServicesKeep == ServicesInv /\ [Next]_servicesVars => ServicesInv'
<1> SUFFICES ASSUME ServicesInv, [Next]_servicesVars PROVE ServicesInv'
  OBVIOUS
<1>1. LogNext \/ UNCHANGED logVars
  BY DEF Next, LogStep, ZipStep, HttpStep, servicesVars
<1>2. ZipNext \/ UNCHANGED zipVars
  BY DEF Next, LogStep, ZipStep, HttpStep, servicesVars
<1>3. HttpNext \/ UNCHANGED httpVars
  BY DEF Next, LogStep, ZipStep, HttpStep, servicesVars
<1> QED BY <1>1, <1>2, <1>3, LogKeeps, ZipKeeps, HttpKeeps DEF ServicesInv

LEMMA ServicesHold == Spec => []ServicesInv
BY ServicesStart, ServicesKeep, PTL DEF Spec

(* However many threads print, and whatever the owner of the binding does  *)
(* meanwhile: the pieces of a text are shown in order and undisturbed, and *)
(* what is lost or meets a dead reference is so for a known reason         *)
(* (Log.cxx:163-253, DynXXJNI.cxx:23-39, napi_init.cxx:49-159).            *)
THEOREM LogShows == Spec => []LogShowsTexts
<1>1. ServicesInv => LogShowsTexts
  BY DEF ServicesInv, LogInv, PrintInv, LogShowsTexts
<1> QED BY <1>1, ServicesHold, PTL

(* For any input, any buffer and any way zlib gives its output: a run that *)
(* returns true is complete, one that returns false met a full or an empty *)
(* buffer (Zip.cxx:32-62, DynXX.js:579-610).                               *)
THEOREM ZipAnswers == Spec => []ZipTells
<1>1. ServicesInv => ZipTells
  BY ZipInvTells DEF ServicesInv
<1> QED BY <1>1, ServicesHold, PTL

(* For any number of clients that race for the client object, and however  *)
(* often the configuration is set meanwhile: libcurl is initialised while  *)
(* a request is under way, a request has the configuration of its creation *)
(* and goes out as it was asked, and a download tells what became of it    *)
(* (DynXX-X.cxx:460, :575, HttpClient.cxx:82, :309-346, :413, :547-640).   *)
THEOREM HttpAnswers == Spec => []HttpKept
<1>1. ServicesInv => HttpKept
  BY HttpInvKept DEF ServicesInv
<1> QED BY <1>1, ServicesHold, PTL
=============================================================================
