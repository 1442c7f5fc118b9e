--------------------------- MODULE VMLifetimeProofs --------------------------
(***************************************************************************)
(* Proofs about VMLifetime for every number of callers, VMs, Workers and   *)
(* tasks: a VM lives exactly as long as somebody uses it, and promiseCache *)
(* keeps the handles of tasks that were dropped with their Worker, and no  *)
(* other that is over; its destructors run once, wait for nobody, and end  *)
(* the process only on a thread that they are to join.                     *)
(***************************************************************************)
EXTENDS VMLifetime, SequenceTheorems, TLAPS

USE VMLifetimeAssumption DEF VMLifetimeAssumption, VMs

(* The elements of a sequence. *)
In(s) == {s[i] : i \in DOMAIN s}

(* Every strong reference has a holder that accounts for it: the bridge, a    *)
(* call that works on its snapshot, a round of a looper, a task that runs, JS *)
(* that hands work to the VM.                                                 *)
Holds(x, v) ==
  \/ x = Bridge /\ vm = v
  \/ x \in Callers /\ inside[x] = v
  \/ x \in round /\ x[2] = v
  \/ x \in PoolThreads /\ x[2] = v /\ running[x] # None
  \/ \E y \in Users : x = Async(y) /\ borrowed[y] = v
RefsInv == \A v \in VMs : \A x : x \in refs[v] <=> Holds(x, v)

(* The destructors begin when the last reference goes, and not before. *)
LifeInv == \A v \in VMs : life[v] = "alive" <=> refs[v] # {}

(* A caller has its snapshot as long as its call lasts. *)
InsideInv == \A c \in Callers : inside[c] # None <=> pc[c] = "call"

(* Only tasks that were handed over wait or run. *)
HandedInv ==
  \A p \in PoolThreads : In(queue[p]) \subseteq handed /\ running[p] \in handed \cup {None}

(* Whoever waits for the mutex of the bridge has borrowed no VM yet. *)
WaitsInv == \A x \in waits : borrowed[x] = None

IInv == TypeOK /\ RefsInv /\ LifeInv /\ InsideInv /\ HandedInv /\ WaitsInv

(* The threads of the loopers and of the Workers know their VM, and differ *)
(* from each other and from those that call.                               *)
LEMMA Names ==
  /\ \A v \in VMs, k \in Kinds :
       LET l == Looper(v, k) IN l \in Loopers /\ l \in Threads /\ l[2] = v /\ l \notin Callers \cup PoolThreads \cup {Bridge}
  /\ \A v \in VMs, w \in Workers :
       LET p == Worker(v, w) IN p \in PoolThreads /\ p \in Threads /\ p[2] = v /\ p \notin Callers \cup Loopers \cup {Bridge}
  /\ \A c \in Callers : c \in Threads /\ c \notin Loopers \cup PoolThreads \cup {Bridge}
  /\ Bridge \notin Loopers \cup PoolThreads
  /\ \A x \in Users :
       /\ Async(x) \in Asyncs /\ Async(x) \notin Threads \cup {Bridge} /\ x \in Threads
       /\ \A y \in Users : Async(x) = Async(y) => x = y
<1>1. \A v \in VMs, k \in Kinds : Looper(v, k) \in Loopers /\ Looper(v, k)[2] = v
  BY DEF Looper, Loopers
<1>2. \A v \in VMs, w \in Workers : Worker(v, w) \in PoolThreads /\ Worker(v, w)[2] = v
  BY DEF Worker, PoolThreads
<1>3. Loopers \cap PoolThreads = {}
  BY DEF Looper, Loopers, Worker, PoolThreads
<1>4. \A x \in Users : Async(x) \in Asyncs /\ Async(x)[1] = "async" /\ Async(x)[2] = x
  BY DEF Async, Asyncs
<1>5. \A x \in Users : Async(x) \notin Callers \cup {Bridge} /\ x \in Threads
  BY <1>4 DEF Users, Threads
<1>6. \A x \in Users : Async(x) \notin Loopers \cup PoolThreads
  <2>1. \A l \in Loopers \cup PoolThreads : l[1] # "async"
    BY DEF Looper, Loopers, Worker, PoolThreads
  <2> QED BY <1>4, <2>1
<1> QED BY <1>1, <1>2, <1>3, <1>4, <1>5, <1>6 DEF Threads

(* What a queue holds when a task joins it or leaves it. *)
LEMMA InAppend ==
  ASSUME NEW s \in Seq(Tasks), NEW t \in Tasks
  PROVE  Append(s, t) \in Seq(Tasks) /\ In(Append(s, t)) = In(s) \cup {t}
<1>1. /\ Len(Append(s, t)) = Len(s) + 1 /\ Len(s) \in Nat
      /\ DOMAIN s = 1 .. Len(s) /\ DOMAIN Append(s, t) = 1 .. Len(s) + 1
      /\ \A i \in 1 .. Len(s) : Append(s, t)[i] = s[i]
      /\ Append(s, t)[Len(s) + 1] = t
  BY LenProperties
<1>2. In(Append(s, t)) = In(s) \cup {t}
  BY <1>1 DEF In
<1> QED BY <1>2, AppendProperties

(* What a queue holds once its first task has left it. *)
LEMMA InTail ==
  ASSUME NEW s \in Seq(Tasks), s # <<>>
  PROVE  /\ Head(s) \in Tasks /\ Tail(s) \in Seq(Tasks)
         /\ In(s) = {Head(s)} \cup In(Tail(s))
<1>1. /\ Len(s) \in Nat \ {0} /\ DOMAIN s = 1 .. Len(s) /\ Head(s) = s[1]
      /\ DOMAIN Tail(s) = 1 .. Len(s) - 1
      /\ \A i \in 1 .. Len(s) - 1 : Tail(s)[i] = s[i + 1]
  BY LenProperties, EmptySeq, HeadTailProperties
<1>2. ASSUME NEW i \in 1 .. Len(s) PROVE s[i] = Head(s) \/ s[i] \in In(Tail(s))
  <2>1. CASE i = 1 BY <1>1, <2>1
  <2>2. CASE i # 1
    <3>1. i - 1 \in DOMAIN Tail(s) /\ Tail(s)[i - 1] = s[i]
      BY <1>1, <2>2
    <3> QED BY <3>1 DEF In
  <2> QED BY <2>1, <2>2
<1>3. Head(s) \in In(s) /\ In(Tail(s)) \subseteq In(s)
  BY <1>1 DEF In
<1>4. In(s) \subseteq {Head(s)} \cup In(Tail(s))
  BY <1>1, <1>2 DEF In
<1>5. Head(s) \in Tasks /\ Tail(s) \in Seq(Tasks)
  BY HeadTailProperties, EmptySeq
<1> QED BY <1>3, <1>4, <1>5

(* Letting go of a reference keeps the destruction in step with the references. *)
LEMMA LetGoStep ==
  ASSUME TypeOK, LifeInv, NEW v \in VMs, NEW x, NEW t \in Threads, LetGo(v, x, t)
  PROVE  /\ LifeInv'
         /\ refs' \in [VMs -> SUBSET (Threads \cup Asyncs \cup {Bridge})]
         /\ life' \in [VMs -> {"unborn", "alive", "dying", "dead"}]
         /\ destroyer' \in [VMs -> Threads \cup {None}]
         /\ refs'[v] = refs[v] \ {x} /\ \A u \in VMs \ {v} : refs'[u] = refs[u]
<1>1. /\ refs' = [refs EXCEPT ![v] = @ \ {x}]
      /\ refs' \in [VMs -> SUBSET (Threads \cup Asyncs \cup {Bridge})]
      /\ refs'[v] = refs[v] \ {x} /\ \A u \in VMs \ {v} : refs'[u] = refs[u]
  BY DEF LetGo, TypeOK
<1>2. CASE refs[v] = {x}
  <2>1. life' = [life EXCEPT ![v] = "dying"] /\ destroyer' = [destroyer EXCEPT ![v] = t]
    BY <1>2 DEF LetGo
  <2> QED BY <1>1, <1>2, <2>1 DEF LifeInv, TypeOK
<1>3. CASE refs[v] # {x}
  <2>1. life' = life /\ destroyer' = destroyer
    BY <1>3 DEF LetGo
  <2> QED BY <1>1, <1>3, <2>1 DEF LifeInv, TypeOK
<1> QED BY <1>2, <1>3

(* The invariant holds at first. *)
LEMMA InitIInv == Init => IInv
<1> SUFFICES ASSUME Init PROVE IInv
  OBVIOUS
<1>1. TypeOK
  <2>1. <<>> \in Seq(Tasks)
    BY EmptySeq
  <2>2. /\ queue \in [PoolThreads -> Seq(Tasks)]
        /\ running \in [PoolThreads -> Tasks \cup {None}]
    BY <2>1 DEF Init
  <2>3. /\ refs \in [VMs -> SUBSET (Threads \cup Asyncs \cup {Bridge})]
        /\ life \in [VMs -> {"unborn", "alive", "dying", "dead"}]
        /\ destroyer \in [VMs -> Threads \cup {None}]
        /\ pc \in [Callers -> {"idle", "call", "release"}]
        /\ inside \in [Callers -> VMs \cup {None}]
    BY DEF Init
  <2> QED BY <2>2, <2>3 DEF Init, TypeOK
<1>2. RefsInv
  BY DEF Init, RefsInv, Holds
<1>3. LifeInv /\ InsideInv /\ WaitsInv
  BY DEF Init, LifeInv, InsideInv, WaitsInv
<1>4. HandedInv
  <2>1. In(<<>>) = {}
    BY DEF In
  <2> QED BY <2>1 DEF Init, HandedInv
<1> QED BY <1>1, <1>2, <1>3, <1>4 DEF IInv

(* What a step leaves alone keeps what is said of it. *)
LEMMA Frames ==
  /\ RefsInv /\ UNCHANGED <<vm, refs, inside, round, running, borrowed>> => RefsInv'
  /\ LifeInv /\ UNCHANGED <<refs, life>> => LifeInv'
  /\ InsideInv /\ UNCHANGED callVars => InsideInv'
  /\ HandedInv /\ UNCHANGED <<queue, running, handed>> => HandedInv'
  /\ WaitsInv /\ UNCHANGED jsVars => WaitsInv'
BY DEF RefsInv, Holds, LifeInv, InsideInv, HandedInv, WaitsInv, callVars, jsVars

(* A caller inside a VM is in a call. *)
LEMMA CallerInside ==
  ASSUME TypeOK, NEW c \in Callers, Inside(c)
  PROVE  pc[c] = "call"
BY Names DEF TypeOK, Inside

(* The steps of the callers. *)
LEMMA CallerStep ==
  ASSUME IInv, NEW c \in Callers,
         Snapshot(c) \/ Make(c) \/ StartLoopers(c) \/ Release(c) \/ CallStep(c)
  PROVE  IInv'
<1> USE DEF IInv
<1>c. /\ c \in Threads /\ c # Bridge /\ c \notin Loopers \cup PoolThreads
      /\ \A y \in Users : Async(y) # c /\ Async(y) # Bridge
  BY Names
<1>1. CASE Snapshot(c)
  <2>1. /\ vm \in VMs /\ Bridge \in refs[vm] /\ life[vm] = "alive"
        /\ refs' = [refs EXCEPT ![vm] = @ \cup {c}]
        /\ inside' = [inside EXCEPT ![c] = vm] /\ inside[c] = None
        /\ pc' = [pc EXCEPT ![c] = "call"]
        /\ UNCHANGED <<vm, bmtx, life, destroyer, loopVars, jsVars, poolVars, ended>>
    BY <1>1 DEF Snapshot, TypeOK, RefsInv, Holds, LifeInv, InsideInv
  <2>2. TypeOK'
    BY <1>c, <2>1 DEF TypeOK, loopVars, jsVars, poolVars
  <2>3. RefsInv'
    BY <1>c, <2>1 DEF TypeOK, RefsInv, Holds, loopVars, jsVars, poolVars
  <2>4. LifeInv' /\ InsideInv'
    BY <2>1 DEF TypeOK, LifeInv, InsideInv
  <2> QED BY <2>1, <2>2, <2>3, <2>4, Frames DEF poolVars
<1>2. CASE Make(c)
  <2>1. PICK v \in VMs :
          /\ life[v] = "unborn" /\ vm' = v /\ vm = None /\ pc[c] = "idle"
          /\ life' = [life EXCEPT ![v] = "alive"]
          /\ refs' = [refs EXCEPT ![v] = {Bridge, c}]
          /\ inside' = [inside EXCEPT ![c] = v]
          /\ pc' = [pc EXCEPT ![c] = "call"]
          /\ UNCHANGED <<bmtx, destroyer, loopVars, jsVars, poolVars, ended>>
    BY <1>2 DEF Make
  <2>2. refs[v] = {} /\ inside[c] = None
    BY <2>1 DEF LifeInv, InsideInv
  <2>3. TypeOK'
    BY <1>c, <2>1 DEF TypeOK, loopVars, jsVars, poolVars
  <2>4. RefsInv'
    BY <1>c, <2>1, <2>2 DEF TypeOK, RefsInv, Holds, loopVars, jsVars, poolVars
  <2>5. LifeInv' /\ InsideInv'
    BY <2>1 DEF TypeOK, LifeInv, InsideInv
  <2> QED BY <2>1, <2>3, <2>4, <2>5, Frames DEF poolVars
<1>4. CASE StartLoopers(c)
  <2>1. inside[c] \in VMs
    BY <1>4, CallerInside DEF StartLoopers, InJS, InsideInv, TypeOK
  <2>2. started' \in SUBSET Loopers /\ started \subseteq started'
    BY <1>4, <2>1, Names DEF StartLoopers, TypeOK
  <2>3. TypeOK'
    BY <1>4, <2>2 DEF StartLoopers, TypeOK, refVars, callVars, jsVars, poolVars
  <2> QED BY <1>4, <2>3, Frames DEF StartLoopers, refVars, callVars, jsVars, poolVars
<1>5. CASE Release(c)
  <2>1. /\ vm \in VMs /\ LetGo(vm, Bridge, c) /\ vm' = None /\ bmtx' = c
        /\ pc' = [pc EXCEPT ![c] = "release"] /\ pc[c] = "idle"
        /\ UNCHANGED <<inside, loopVars, jsVars, poolVars, ended>>
    BY <1>5 DEF Release, TypeOK
  <2>2. /\ LifeInv'
        /\ refs' \in [VMs -> SUBSET (Threads \cup Asyncs \cup {Bridge})]
        /\ life' \in [VMs -> {"unborn", "alive", "dying", "dead"}]
        /\ destroyer' \in [VMs -> Threads \cup {None}]
        /\ refs'[vm] = refs[vm] \ {Bridge} /\ \A u \in VMs \ {vm} : refs'[u] = refs[u]
    BY <1>c, <2>1, LetGoStep
  <2>3. TypeOK'
    BY <2>1, <2>2 DEF TypeOK, loopVars, jsVars, poolVars
  <2>4. Bridge \notin Callers \cup Loopers \cup PoolThreads
    BY Names
  <2>5. RefsInv'
    <3>1. \A v \in VMs : \A x : Holds(x, v)' <=> Holds(x, v) /\ (v = vm => x # Bridge)
      BY <1>c, <2>1, <2>4 DEF TypeOK, Holds, loopVars, jsVars, poolVars
    <3>2. ASSUME NEW v \in VMs, NEW x PROVE x \in refs'[v] <=> x \in refs[v] /\ (v = vm => x # Bridge)
      BY <2>1, <2>2
    <3> QED BY <3>1, <3>2 DEF RefsInv
  <2>6. InsideInv'
    BY <2>1 DEF InsideInv, TypeOK
  <2> QED BY <2>1, <2>2, <2>3, <2>5, <2>6, Frames DEF poolVars
<1>6. CASE CallEnd(c)
  <2> DEFINE v == inside[c]
  <2>1. /\ v \in VMs /\ LetGo(v, c, c)
        /\ pc' = [pc EXCEPT ![c] = "idle"] /\ inside' = [inside EXCEPT ![c] = None]
        /\ UNCHANGED <<vm, bmtx, loopVars, jsVars, poolVars, ended>>
    BY <1>6, CallerInside DEF CallEnd, InsideInv, TypeOK
  <2>2. /\ LifeInv'
        /\ refs' \in [VMs -> SUBSET (Threads \cup Asyncs \cup {Bridge})]
        /\ life' \in [VMs -> {"unborn", "alive", "dying", "dead"}]
        /\ destroyer' \in [VMs -> Threads \cup {None}]
        /\ refs'[v] = refs[v] \ {c} /\ \A u \in VMs \ {v} : refs'[u] = refs[u]
    BY <1>c, <2>1, LetGoStep
  <2>3. TypeOK'
    BY <2>1, <2>2 DEF TypeOK, loopVars, jsVars, poolVars
  <2>4. RefsInv'
    <3>1. \A u \in VMs : \A x : Holds(x, u)' <=> Holds(x, u) /\ (u = v => x # c)
      BY <1>c, <2>1 DEF TypeOK, Holds, loopVars, jsVars, poolVars
    <3>2. ASSUME NEW u \in VMs, NEW x PROVE x \in refs'[u] <=> x \in refs[u] /\ (u = v => x # c)
      BY <2>2
    <3> QED BY <3>1, <3>2 DEF RefsInv
  <2>5. InsideInv'
    BY <2>1 DEF InsideInv, TypeOK
  <2> QED BY <2>1, <2>2, <2>3, <2>4, <2>5, Frames DEF poolVars
<1>7. CASE ReleaseEnd(c)
  <2>1. TypeOK' /\ InsideInv'
    BY <1>7 DEF ReleaseEnd, TypeOK, InsideInv, refVars, loopVars, jsVars, poolVars
  <2> QED BY <1>7, <2>1, Frames DEF ReleaseEnd, refVars, loopVars, jsVars, poolVars
<1> QED BY <1>1, <1>2, <1>4, <1>5, <1>6, <1>7 DEF CallStep

(* A task goes to a Worker of v. *)
LEMMA HandOverStep ==
  ASSUME TypeOK, HandedInv, NEW v \in VMs, HandOver(v)
  PROVE  /\ HandedInv' /\ UNCHANGED running
         /\ pool' \in SUBSET PoolThreads /\ queue' \in [PoolThreads -> Seq(Tasks)]
         /\ handed' \in SUBSET Tasks
         /\ cache' \in SUBSET handed' /\ dropped' \in SUBSET handed'
<1>1. PICK t \in Tasks \ handed, w \in Workers :
        LET p == Worker(v, w) IN
        /\ queue' = [queue EXCEPT ![p] = Append(@, t)]
        /\ pool' = pool \cup {p} /\ handed' = handed \cup {t} /\ cache' = cache \cup {t}
        /\ UNCHANGED <<running, dropped>>
  BY DEF HandOver
<1> DEFINE p == Worker(v, w)
<1>2. p \in PoolThreads
  BY Names
<1>3. Append(queue[p], t) \in Seq(Tasks) /\ In(Append(queue[p], t)) = In(queue[p]) \cup {t}
  BY <1>2, InAppend DEF TypeOK
<1> HIDE DEF p
<1>4. HandedInv'
  BY <1>1, <1>2, <1>3 DEF TypeOK, HandedInv, p
<1> QED BY <1>1, <1>2, <1>3, <1>4 DEF TypeOK, p

(* The functions of the bridge that JS calls. *)
LEMMA JSStep ==
  ASSUME IInv, NEW x \in Users, Ask(x) \/ Borrow(x) \/ BridgeStep(x)
  PROVE  IInv'
<1> USE DEF IInv
<1>x. /\ x \in Threads /\ Async(x) \in Asyncs /\ Async(x) \notin Threads \cup {Bridge}
      /\ \A y \in Users : Async(y) = Async(x) => y = x
  BY Names
<1>1. CASE Ask(x) \/ Pass(x)
  <2>1. TypeOK'
    BY <1>1 DEF Ask, Pass, TypeOK, refVars, callVars, loopVars, poolVars
  <2>2. WaitsInv'
    BY <1>1 DEF Ask, Pass, InJS, Inside, Bridged, WaitsInv
  <2> QED BY <1>1, <2>1, <2>2, Frames DEF Ask, Pass, refVars, callVars, loopVars, poolVars
<1>2. CASE Borrow(x)
  <2>1. /\ vm \in VMs /\ Bridge \in refs[vm] /\ waits' = waits \ {x}
        /\ borrowed' = [borrowed EXCEPT ![x] = vm]
        /\ refs' = [refs EXCEPT ![vm] = @ \cup {Async(x)}]
        /\ UNCHANGED <<vm, bmtx, life, destroyer, callVars, loopVars, poolVars, ended>>
    BY <1>2 DEF Borrow, TypeOK, RefsInv, Holds
  <2>2. TypeOK'
    BY <1>x, <2>1 DEF TypeOK, callVars, loopVars, poolVars
  <2>3. borrowed[x] = None
    BY <1>2 DEF Borrow, InJS, Inside, Bridged, WaitsInv
  <2>6. WaitsInv'
    BY <2>1 DEF WaitsInv, TypeOK
  <2>4. RefsInv'
    BY <1>x, <2>1, <2>3 DEF TypeOK, RefsInv, Holds, callVars, loopVars, poolVars
  <2>5. LifeInv'
    BY <2>1 DEF TypeOK, LifeInv
  <2> QED BY <2>1, <2>2, <2>4, <2>5, <2>6, Frames DEF callVars, poolVars
<1>3. CASE Submit(x)
  <2> DEFINE v == borrowed[x]
  <2>1. /\ v \in VMs /\ LetGo(v, Async(x), x)
        /\ borrowed' = [borrowed EXCEPT ![x] = None]
        /\ UNCHANGED <<vm, bmtx, callVars, loopVars, waits, ended>>
        /\ HandOver(v) \/ UNCHANGED poolVars
    BY <1>3 DEF Submit, TypeOK
  <2> HIDE DEF v
  <2>2. /\ LifeInv'
        /\ refs' \in [VMs -> SUBSET (Threads \cup Asyncs \cup {Bridge})]
        /\ life' \in [VMs -> {"unborn", "alive", "dying", "dead"}]
        /\ destroyer' \in [VMs -> Threads \cup {None}]
        /\ refs'[v] = refs[v] \ {Async(x)} /\ \A u \in VMs \ {v} : refs'[u] = refs[u]
    BY <1>x, <2>1, LetGoStep
  <2>3. /\ HandedInv' /\ UNCHANGED running
        /\ pool' \in SUBSET PoolThreads /\ queue' \in [PoolThreads -> Seq(Tasks)]
        /\ running' \in [PoolThreads -> Tasks \cup {None}]
        /\ handed' \in SUBSET Tasks
        /\ cache' \in SUBSET handed' /\ dropped' \in SUBSET handed'
    BY <2>1, HandOverStep, Frames DEF poolVars, TypeOK
  <2>4. TypeOK'
    BY <2>1, <2>2, <2>3 DEF TypeOK, callVars, loopVars
  <2>5. RefsInv'
    <3>1. \A u \in VMs : \A y : Holds(y, u)' <=> Holds(y, u) /\ (u = v => y # Async(x))
      <4>1. \A y \in Users : \A u \in VMs : borrowed'[y] = u <=> borrowed[y] = u /\ y # x
        BY <2>1 DEF TypeOK
      <4>2. Async(x) \notin Callers \cup Loopers \cup PoolThreads \cup {Bridge}
        BY <1>x DEF Threads
      <4>3. borrowed[x] = v
        BY DEF v
      <4> QED BY <1>x, <2>1, <2>3, <4>1, <4>2, <4>3 DEF TypeOK, Holds, callVars, loopVars
    <3>2. ASSUME NEW u \in VMs, NEW y PROVE y \in refs'[u] <=> y \in refs[u] /\ (u = v => y # Async(x))
      BY <2>2
    <3> QED BY <3>1, <3>2 DEF RefsInv
  <2>6. WaitsInv'
    BY <2>1 DEF WaitsInv, TypeOK
  <2> QED BY <2>1, <2>2, <2>3, <2>4, <2>5, <2>6, Frames DEF callVars
<1> QED BY <1>1, <1>2, <1>3 DEF BridgeStep

(* The steps of the loopers. *)
LEMMA LooperStep ==
  ASSUME IInv, NEW v \in VMs, NEW k \in Kinds, RoundBegin(v, k) \/ RoundEnd(v, k)
  PROVE  IInv'
<1> USE DEF IInv
<1> DEFINE l == Looper(v, k)
<1>l. /\ l \in Loopers /\ l \in Threads /\ l[2] = v /\ l \notin Callers \cup PoolThreads \cup {Bridge}
      /\ \A y \in Users : Async(y) # l
  BY Names
<1> HIDE DEF l
<1>1. CASE RoundBegin(v, k)
  <2>1. /\ l \in started \ round /\ refs[v] # {}
        /\ refs' = [refs EXCEPT ![v] = @ \cup {l}] /\ round' = round \cup {l}
        /\ UNCHANGED <<vm, bmtx, life, destroyer, callVars, started, jsVars, poolVars, ended>>
    BY <1>1 DEF RoundBegin, l
  <2>2. TypeOK'
    BY <1>l, <2>1 DEF TypeOK, callVars, jsVars, poolVars
  <2>3. RefsInv'
    BY <1>l, <2>1 DEF TypeOK, RefsInv, Holds, callVars, jsVars, poolVars
  <2>4. LifeInv'
    BY <2>1 DEF TypeOK, LifeInv
  <2> QED BY <2>1, <2>2, <2>3, <2>4, Frames DEF callVars, jsVars, poolVars
<1>2. CASE RoundEnd(v, k)
  <2>1. /\ l \in round /\ LetGo(v, l, l) /\ round' = round \ {l}
        /\ UNCHANGED <<vm, bmtx, callVars, started, jsVars, poolVars, ended>>
    BY <1>2 DEF RoundEnd, l
  <2>2. /\ LifeInv'
        /\ refs' \in [VMs -> SUBSET (Threads \cup Asyncs \cup {Bridge})]
        /\ life' \in [VMs -> {"unborn", "alive", "dying", "dead"}]
        /\ destroyer' \in [VMs -> Threads \cup {None}]
        /\ refs'[v] = refs[v] \ {l} /\ \A u \in VMs \ {v} : refs'[u] = refs[u]
    BY <1>l, <2>1, LetGoStep
  <2>3. TypeOK'
    BY <2>1, <2>2 DEF TypeOK, callVars, jsVars, poolVars
  <2>4. RefsInv'
    <3>1. \A u \in VMs : \A x : Holds(x, u)' <=> Holds(x, u) /\ (u = v => x # l)
      BY <1>l, <2>1 DEF TypeOK, Holds, callVars, jsVars, poolVars
    <3>2. ASSUME NEW u \in VMs, NEW x PROVE x \in refs'[u] <=> x \in refs[u] /\ (u = v => x # l)
      BY <2>2
    <3> QED BY <3>1, <3>2 DEF RefsInv
  <2> QED BY <2>1, <2>2, <2>3, <2>4, Frames DEF callVars, jsVars, poolVars
<1> QED BY <1>1, <1>2

(* The steps of the Workers. *)
LEMMA WorkerStep ==
  ASSUME IInv, NEW v \in VMs, NEW w \in Workers, TaskStep(v, w)
  PROVE  IInv'
<1> USE DEF IInv
<1> DEFINE p == Worker(v, w)
<1>p. /\ p \in PoolThreads /\ p \in Threads /\ p[2] = v /\ p \notin Callers \cup Loopers \cup {Bridge}
      /\ \A y \in Users : Async(y) # p
  BY Names
<1> HIDE DEF p
<1>q. queue[p] \in Seq(Tasks) /\ In(queue[p]) \subseteq handed
  BY <1>p DEF TypeOK, HandedInv
<1>1. CASE TaskBegin(v, w)
  <2>1. /\ running[p] = None /\ queue[p] # <<>> /\ refs[v] # {}
        /\ refs' = [refs EXCEPT ![v] = @ \cup {p}]
        /\ running' = [running EXCEPT ![p] = Head(queue[p])]
        /\ queue' = [queue EXCEPT ![p] = Tail(@)]
        /\ UNCHANGED <<vm, bmtx, life, destroyer, callVars, loopVars, jsVars, pool, handed, cache, dropped, ended>>
    BY <1>1 DEF TaskBegin, Busy, p
  <2>2. /\ Head(queue[p]) \in Tasks /\ Tail(queue[p]) \in Seq(Tasks)
        /\ In(queue[p]) = {Head(queue[p])} \cup In(Tail(queue[p]))
    BY <1>q, <2>1, InTail
  <2>3. TypeOK'
    BY <1>p, <2>1, <2>2 DEF TypeOK, callVars, loopVars, jsVars
  <2>4. RefsInv'
    <3>1. Head(queue[p]) # None
      BY <2>2
    <3> QED BY <1>p, <2>1, <3>1 DEF TypeOK, RefsInv, Holds, callVars, loopVars, jsVars
  <2>5. LifeInv'
    BY <2>1 DEF TypeOK, LifeInv
  <2>6. HandedInv'
    BY <1>p, <1>q, <2>1, <2>2 DEF TypeOK, HandedInv
  <2> QED BY <2>1, <2>3, <2>4, <2>5, <2>6, Frames
<1>2. CASE TaskLate(v, w)
  <2>1. /\ queue[p] # <<>>
        /\ queue' = [queue EXCEPT ![p] = Tail(@)] /\ cache' \subseteq cache
        /\ UNCHANGED <<vm, bmtx, refVars, callVars, loopVars, jsVars, pool, running, handed, dropped, ended>>
    BY <1>2 DEF TaskLate, p
  <2>2. Tail(queue[p]) \in Seq(Tasks) /\ In(Tail(queue[p])) \subseteq In(queue[p])
    BY <1>q, <2>1, InTail
  <2>3. TypeOK'
    BY <1>p, <2>1, <2>2 DEF TypeOK, refVars, callVars, loopVars, jsVars
  <2>4. HandedInv'
    BY <1>p, <1>q, <2>1, <2>2 DEF TypeOK, HandedInv
  <2> QED BY <2>1, <2>3, <2>4, Frames DEF refVars, callVars, loopVars, jsVars
<1>4. CASE TaskEnd(v, w)
  <2>1. /\ running[p] # None /\ LetGo(v, p, p)
        /\ running' = [running EXCEPT ![p] = None] /\ cache' \subseteq cache
        /\ UNCHANGED <<vm, bmtx, callVars, loopVars, jsVars, pool, queue, handed, dropped, ended>>
    BY <1>4 DEF TaskEnd, TypeOK, p
  <2>2. /\ LifeInv'
        /\ refs' \in [VMs -> SUBSET (Threads \cup Asyncs \cup {Bridge})]
        /\ life' \in [VMs -> {"unborn", "alive", "dying", "dead"}]
        /\ destroyer' \in [VMs -> Threads \cup {None}]
        /\ refs'[v] = refs[v] \ {p} /\ \A u \in VMs \ {v} : refs'[u] = refs[u]
    BY <1>p, <2>1, LetGoStep
  <2>3. TypeOK'
    BY <1>p, <2>1, <2>2 DEF TypeOK, callVars, loopVars, jsVars
  <2>4. RefsInv'
    <3>1. \A u \in VMs : \A x : Holds(x, u)' <=> Holds(x, u) /\ (u = v => x # p)
      BY <1>p, <2>1 DEF TypeOK, Holds, callVars, loopVars, jsVars
    <3>2. ASSUME NEW u \in VMs, NEW x PROVE x \in refs'[u] <=> x \in refs[u] /\ (u = v => x # p)
      BY <2>2
    <3> QED BY <3>1, <3>2 DEF RefsInv
  <2>5. HandedInv'
    BY <1>p, <2>1 DEF TypeOK, HandedInv
  <2> QED BY <2>1, <2>2, <2>3, <2>4, <2>5, Frames
<1> QED BY <1>1, <1>2, <1>4 DEF TaskStep

(* The steps of the destructors. *)
LEMMA DestructorStep ==
  ASSUME IInv, NEW v \in VMs, DestroyStep(v)
  PROVE  IInv'
<1> USE DEF IInv
<1>1. ASSUME NEW k \in Kinds, JoinLooper(v, k) PROVE IInv'
  <2>1. TypeOK'
    BY <1>1 DEF JoinLooper, TypeOK, refVars, callVars, jsVars, poolVars
  <2> QED BY <1>1, <2>1, Frames DEF JoinLooper, refVars, callVars, jsVars, poolVars
<1>2. ASSUME NEW w \in Workers, JoinWorker(v, w) PROVE IInv'
  <2> DEFINE p == Worker(v, w)
  <2>1. /\ p \in PoolThreads /\ pool' = pool \ {p}
        /\ dropped' = dropped \cup In(queue[p])
        /\ queue' = [queue EXCEPT ![p] = <<>>]
        /\ UNCHANGED <<vm, bmtx, refVars, callVars, loopVars, jsVars, running, handed, cache, ended>>
    BY <1>2, Names DEF JoinWorker, In
  <2> HIDE DEF p
  <2>2. <<>> \in Seq(Tasks) /\ In(<<>>) = {}
    BY EmptySeq DEF In
  <2>3. TypeOK'
    BY <2>1, <2>2 DEF TypeOK, HandedInv, refVars, callVars, loopVars, jsVars
  <2>4. HandedInv'
    BY <2>1, <2>2 DEF TypeOK, HandedInv
  <2> QED BY <2>1, <2>3, <2>4, Frames DEF refVars, callVars, loopVars, jsVars
<1>3. CASE JoinItself(v)
  <2>1. TypeOK'
    BY <1>3 DEF JoinItself, TypeOK, refVars, callVars, loopVars, jsVars, poolVars
  <2> QED BY <1>3, <2>1, Frames DEF JoinItself, refVars, callVars, loopVars, jsVars, poolVars
<1>4. CASE Destroyed(v)
  <2>1. TypeOK' /\ LifeInv'
    BY <1>4 DEF Destroyed, TypeOK, LifeInv, callVars, loopVars, jsVars, poolVars
  <2> QED BY <1>4, <2>1, Frames DEF Destroyed, callVars, loopVars, jsVars, poolVars
<1> QED BY <1>1, <1>2, <1>3, <1>4 DEF DestroyStep

(* The inductive invariant holds in every state. *)
LEMMA Invariance == Spec => []IInv
<1>1. IInv /\ [Next]_vars => IInv'
  <2> SUFFICES ASSUME IInv, [Next]_vars PROVE IInv'
    OBVIOUS
  <2>1. CASE Next
    BY <2>1, CallerStep, JSStep, LooperStep, WorkerStep, DestructorStep DEF Next, LoopStep
  <2>2. CASE UNCHANGED vars
    <3>1. TypeOK'
      BY <2>2 DEF vars, refVars, callVars, loopVars, jsVars, poolVars, IInv, TypeOK
    <3> QED BY <2>2, <3>1, Frames DEF vars, refVars, callVars, loopVars, jsVars, poolVars, IInv
  <2> QED BY <2>1, <2>2
<1> QED BY InitIInv, <1>1, PTL DEF Spec

(* Every variable keeps its type. *)
THEOREM TypeCorrect == Spec => []TypeOK
BY Invariance, PTL DEF IInv

(* For any number of callers, VMs, Workers and tasks, whoever releases when:  *)
(* nobody is inside a VM whose destructors have begun, and a VM that has no   *)
(* user and no bridge is not alive.                                           *)
THEOREM NobodyInsideTheDead == Spec => []UsedWhileAlive
<1>1. IInv => UsedWhileAlive
  <2> SUFFICES ASSUME IInv, NEW v \in VMs
               PROVE  life[v] = "alive" <=> UsersOf(v) # {} \/ vm = v
    BY DEF UsedWhileAlive
  <2>1. \A x : x \in UsersOf(v) <=>
          \/ x \in Callers /\ inside[x] = v
          \/ x \in round /\ x[2] = v
          \/ x \in PoolThreads /\ x[2] = v /\ running[x] # None
          \/ x \in Users /\ borrowed[x] = v
    BY DEF UsersOf
  <2>2. life[v] = "alive" <=> \E x : Holds(x, v)
    BY DEF IInv, LifeInv, RefsInv
  <2> QED BY <2>1, <2>2 DEF Holds
<1> QED BY <1>1, Invariance, PTL
-----------------------------------------------------------------------------
(* A task is in one place: once in one queue, with one Worker, or dropped. *)
NoRepeat(s) == \A i, j \in DOMAIN s : s[i] = s[j] => i = j
UniqueInv ==
  \A p \in PoolThreads :
    /\ NoRepeat(queue[p])
    /\ \A t \in In(queue[p]) :
         t \notin dropped /\ \A q \in PoolThreads : t # running[q] /\ (q # p => t \notin In(queue[q]))
    /\ running[p] # None =>
         running[p] \notin dropped /\ \A q \in PoolThreads \ {p} : running[q] # running[p]

(* Its handle is in promiseCache until it has been late or has ended. *)
Somewhere(t) == t \in dropped \/ \E p \in PoolThreads : t \in In(queue[p]) \/ (t # None /\ running[p] = t)
CacheInv == \A t : t \in cache <=> Somewhere(t)

(* A task that is appended is not there yet; one that is taken off is there no more. *)
LEMMA OnceInQueue ==
  ASSUME NEW s \in Seq(Tasks), NoRepeat(s)
  PROVE  /\ \A t \in Tasks \ In(s) : NoRepeat(Append(s, t))
         /\ s # <<>> => NoRepeat(Tail(s)) /\ Head(s) \notin In(Tail(s))
<1>1. ASSUME NEW t \in Tasks \ In(s) PROVE NoRepeat(Append(s, t))
  <2>1. /\ Len(s) \in Nat
        /\ DOMAIN s = 1 .. Len(s) /\ DOMAIN Append(s, t) = 1 .. Len(s) + 1
        /\ \A i \in 1 .. Len(s) : Append(s, t)[i] = s[i]
        /\ Append(s, t)[Len(s) + 1] = t
    BY LenProperties
  <2>2. \A i \in 1 .. Len(s) : s[i] # t
    BY <2>1 DEF In
  <2> QED BY <2>1, <2>2 DEF NoRepeat
<1>2. ASSUME s # <<>> PROVE NoRepeat(Tail(s)) /\ Head(s) \notin In(Tail(s))
  <2>1. /\ Len(s) \in Nat \ {0} /\ DOMAIN s = 1 .. Len(s) /\ Head(s) = s[1]
        /\ DOMAIN Tail(s) = 1 .. Len(s) - 1
        /\ \A i \in 1 .. Len(s) - 1 : Tail(s)[i] = s[i + 1]
    BY <1>2, LenProperties, EmptySeq, HeadTailProperties
  <2>2. ASSUME NEW i \in DOMAIN Tail(s) PROVE Tail(s)[i] # Head(s)
    <3>1. i + 1 \in DOMAIN s /\ 1 \in DOMAIN s /\ i + 1 # 1 /\ Tail(s)[i] = s[i + 1]
      BY <2>1
    <3> QED BY <2>1, <3>1 DEF NoRepeat
  <2>3. ASSUME NEW i \in DOMAIN Tail(s), NEW j \in DOMAIN Tail(s), Tail(s)[i] = Tail(s)[j] PROVE i = j
    <3>1. /\ i + 1 \in DOMAIN s /\ j + 1 \in DOMAIN s /\ i \in Int /\ j \in Int
          /\ Tail(s)[i] = s[i + 1] /\ Tail(s)[j] = s[j + 1]
      BY <2>1
    <3>2. i + 1 = j + 1
      BY <2>3, <3>1 DEF NoRepeat
    <3> QED BY <3>1, <3>2
  <2> QED BY <2>2, <2>3 DEF NoRepeat, In
<1> QED BY <1>1, <1>2

HandleInv == UniqueInv /\ CacheInv

(* Steps that touch neither tasks nor the cache. *)
LEMMA HandleFrame == HandleInv /\ UNCHANGED <<queue, running, dropped, cache>> => HandleInv'
BY DEF HandleInv, UniqueInv, CacheInv, Somewhere

(* A task is handed over for the first time. *)
LEMMA SubmitHandles ==
  ASSUME IInv, HandleInv, NEW v \in VMs, HandOver(v)
  PROVE  HandleInv'
<1>1. PICK t \in Tasks \ handed, w \in Workers :
        LET p == Worker(v, w) IN
        /\ queue' = [queue EXCEPT ![p] = Append(@, t)]
        /\ cache' = cache \cup {t} /\ UNCHANGED <<running, dropped>>
  BY DEF HandOver
<1> DEFINE p == Worker(v, w)
<1>3. p \in PoolThreads
  BY Names
<1> HIDE DEF p
<1>4. queue[p] \in Seq(Tasks) /\ NoRepeat(queue[p]) /\ DOMAIN queue = PoolThreads
  BY <1>3 DEF IInv, TypeOK, HandleInv, UniqueInv
<1>5. /\ t # None /\ t \notin dropped
      /\ \A q \in PoolThreads : t \notin In(queue[q]) /\ running[q] # t
  BY DEF IInv, TypeOK, HandedInv
<1>6. /\ queue'[p] = Append(queue[p], t) /\ \A q \in PoolThreads \ {p} : queue'[q] = queue[q]
      /\ In(queue'[p]) = In(queue[p]) \cup {t} /\ NoRepeat(queue'[p])
  BY <1>1, <1>3, <1>4, <1>5, InAppend, OnceInQueue DEF p
<1>7. UniqueInv'
  BY <1>1, <1>3, <1>5, <1>6 DEF HandleInv, UniqueInv
<1>8. CacheInv'
  BY <1>1, <1>3, <1>5, <1>6 DEF HandleInv, CacheInv, Somewhere
<1> QED BY <1>7, <1>8 DEF HandleInv

(* A Worker takes the oldest task off its queue and runs it, or finds no VM. *)
LEMMA TakeHandles ==
  ASSUME IInv, HandleInv, NEW v \in VMs, NEW w \in Workers, TaskBegin(v, w) \/ TaskLate(v, w)
  PROVE  HandleInv'
<1> DEFINE p == Worker(v, w)
<1>1. p \in PoolThreads
  BY Names
<1> HIDE DEF p
<1>2. /\ queue[p] \in Seq(Tasks) /\ queue[p] # <<>> /\ NoRepeat(queue[p])
      /\ queue' = [queue EXCEPT ![p] = Tail(@)]
      /\ DOMAIN queue = PoolThreads /\ DOMAIN running = PoolThreads
  BY <1>1 DEF TaskBegin, TaskLate, p, IInv, TypeOK, HandleInv, UniqueInv
<1> DEFINE t == Head(queue[p])
<1>3. /\ t \in Tasks /\ t # None /\ t \in In(queue[p])
      /\ In(queue[p]) = {t} \cup In(Tail(queue[p]))
      /\ NoRepeat(Tail(queue[p])) /\ t \notin In(Tail(queue[p]))
  BY <1>2, InTail, OnceInQueue
<1> HIDE DEF t
<1>4. /\ queue'[p] = Tail(queue[p]) /\ \A q \in PoolThreads \ {p} : queue'[q] = queue[q]
  BY <1>1, <1>2
<1>5. /\ t \notin dropped
      /\ \A q \in PoolThreads : t # running[q] /\ (q # p => t \notin In(queue[q]))
  BY <1>1, <1>3 DEF HandleInv, UniqueInv
<1>6. CASE TaskBegin(v, w)
  <2>1. /\ running[p] = None /\ UNCHANGED <<cache, dropped>>
        /\ running'[p] = t /\ \A q \in PoolThreads \ {p} : running'[q] = running[q]
    BY <1>1, <1>2, <1>6 DEF TaskBegin, Busy, p, t
  <2>2. UniqueInv'
    BY <1>1, <1>3, <1>4, <1>5, <2>1 DEF HandleInv, UniqueInv
  <2>3. CacheInv'
    BY <1>1, <1>3, <1>4, <1>5, <2>1 DEF HandleInv, CacheInv, Somewhere
  <2> QED BY <2>2, <2>3 DEF HandleInv
<1>7. CASE TaskLate(v, w)
  <2>1. cache' = cache \ {t} /\ UNCHANGED <<running, dropped>>
    BY <1>7 DEF TaskLate, p, t
  <2>2. UniqueInv'
    BY <1>1, <1>3, <1>4, <2>1 DEF HandleInv, UniqueInv
  <2>3. CacheInv'
    BY <1>1, <1>3, <1>4, <1>5, <2>1 DEF HandleInv, CacheInv, Somewhere
  <2> QED BY <2>2, <2>3 DEF HandleInv
<1> QED BY <1>6, <1>7

(* A task ends and its handle is removed. *)
LEMMA EndHandles ==
  ASSUME IInv, HandleInv, NEW v \in VMs, NEW w \in Workers, TaskEnd(v, w)
  PROVE  HandleInv'
<1> DEFINE p == Worker(v, w)
<1>1. p \in PoolThreads
  BY Names
<1> HIDE DEF p
<1>2. /\ running[p] # None /\ cache' = cache \ {running[p]}
      /\ running' = [running EXCEPT ![p] = None] /\ UNCHANGED <<queue, dropped>>
      /\ DOMAIN running = PoolThreads
  BY DEF TaskEnd, p, IInv, TypeOK
<1>3. running'[p] = None /\ \A q \in PoolThreads \ {p} : running'[q] = running[q]
  BY <1>1, <1>2
<1>4. /\ running[p] \notin dropped
      /\ \A q \in PoolThreads : running[p] \notin In(queue[q]) /\ (q # p => running[q] # running[p])
  BY <1>1, <1>2 DEF HandleInv, UniqueInv
<1>5. None \notin In(queue[p]) /\ \A q \in PoolThreads : None \notin In(queue[q])
  BY <1>1 DEF IInv, TypeOK, HandedInv
<1>6. UniqueInv'
  BY <1>1, <1>2, <1>3, <1>5 DEF HandleInv, UniqueInv
<1>7. CacheInv'
  BY <1>1, <1>2, <1>3, <1>4 DEF HandleInv, CacheInv, Somewhere
<1> QED BY <1>6, <1>7 DEF HandleInv

(* A Worker is joined: what waited at it is dropped. *)
LEMMA JoinHandles ==
  ASSUME IInv, HandleInv, NEW v \in VMs, NEW w \in Workers, JoinWorker(v, w)
  PROVE  HandleInv'
<1> DEFINE p == Worker(v, w)
<1>1. p \in PoolThreads
  BY Names
<1> HIDE DEF p
<1>2. /\ dropped' = dropped \cup In(queue[p]) /\ queue' = [queue EXCEPT ![p] = <<>>]
      /\ UNCHANGED <<running, cache>> /\ DOMAIN queue = PoolThreads
  BY DEF JoinWorker, p, In, IInv, TypeOK
<1>3. /\ queue'[p] = <<>> /\ In(queue'[p]) = {} /\ NoRepeat(queue'[p])
      /\ \A q \in PoolThreads \ {p} : queue'[q] = queue[q]
  BY <1>1, <1>2 DEF In, NoRepeat
<1>4. UniqueInv'
  BY <1>1, <1>2, <1>3 DEF HandleInv, UniqueInv
<1>5. CacheInv'
  BY <1>1, <1>2, <1>3 DEF HandleInv, CacheInv, Somewhere
<1> QED BY <1>4, <1>5 DEF HandleInv

(* At first there are no handles. *)
LEMMA InitHandles == Init => HandleInv
<1>1. In(<<>>) = {} /\ NoRepeat(<<>>)
  BY DEF In, NoRepeat
<1> QED BY <1>1 DEF Init, HandleInv, UniqueInv, CacheInv, Somewhere

(* Every step keeps the handles explained. *)
LEMMA HandleStep == IInv /\ HandleInv /\ [Next]_vars => HandleInv'
<1> SUFFICES ASSUME IInv, HandleInv, [Next]_vars PROVE HandleInv'
  OBVIOUS
<1>1. ASSUME NEW c \in Callers,
             Snapshot(c) \/ Make(c) \/ StartLoopers(c) \/ Release(c) \/ CallStep(c)
      PROVE  HandleInv'
  BY <1>1, HandleFrame DEF Snapshot, Make, StartLoopers, Release, CallStep, CallEnd, ReleaseEnd, poolVars
<1>2. ASSUME NEW v \in VMs, NEW k \in Kinds, RoundBegin(v, k) \/ RoundEnd(v, k) \/ JoinLooper(v, k)
      PROVE  HandleInv'
  BY <1>2, HandleFrame DEF RoundBegin, RoundEnd, JoinLooper, poolVars
<1>3. ASSUME NEW v \in VMs, JoinItself(v) \/ Destroyed(v) PROVE HandleInv'
  BY <1>3, HandleFrame DEF JoinItself, Destroyed, poolVars
<1>4. ASSUME NEW x \in Users, Ask(x) \/ Borrow(x) \/ BridgeStep(x) PROVE HandleInv'
  <2>1. CASE Ask(x) \/ Borrow(x) \/ Pass(x)
    BY <2>1, HandleFrame DEF Ask, Borrow, Pass, poolVars
  <2>2. CASE Submit(x)
    <3>1. borrowed[x] \in VMs
      BY <2>2 DEF Submit, IInv, TypeOK
    <3> QED BY <2>2, <3>1, SubmitHandles, HandleFrame DEF Submit, poolVars
  <2> QED BY <1>4, <2>1, <2>2 DEF BridgeStep
<1>5. CASE UNCHANGED vars
  BY <1>5, HandleFrame DEF vars, poolVars
<1> QED BY <1>1, <1>2, <1>3, <1>4, <1>5, TakeHandles, EndHandles, JoinHandles
        DEF Next, LoopStep, TaskStep, DestroyStep

(* promiseCache, which nobody clears, grows by the tasks that are dropped with *)
(* a destroyed Worker and by nothing else, however many VMs come and go.       *)
THEOREM OnlyTheDroppedStay == Spec => []HandlesExplained
<1>1. CacheInv => HandlesExplained
  <2> SUFFICES ASSUME CacheInv PROVE HandlesExplained
    OBVIOUS
  <2>1. \A t : t \in Waiting <=> \E p \in PoolThreads : t \in In(queue[p])
    BY DEF Waiting, In
  <2> QED BY <2>1 DEF CacheInv, Somewhere, HandlesExplained
<1>2. HandleInv => CacheInv
  BY DEF HandleInv
<1> QED BY <1>1, <1>2, InitHandles, HandleStep, Invariance, PTL DEF Spec
-----------------------------------------------------------------------------
(* What the destructors of v do next, with the guards of JoinLooper,         *)
(* JoinWorker and Destroyed: a looper is joined, the process ends for it, a  *)
(* Worker is, or they are through.                                           *)
LooperNext(v, k) == Looper(v, k) \in started /\ (k = "promise" => Looper(v, "timer") \notin started)
LooperJoins(v, k) == LooperNext(v, k) /\ Looper(v, k) \notin round \cup waits
WorkerJoins(v, w) == NoLoopers(v) /\ Worker(v, w) \in pool /\ running[Worker(v, w)] = None
Through(v) == NoLoopers(v) /\ \A w \in Workers : Worker(v, w) \notin pool

(* Only the thread that releases holds vmMutex. *)
BridgeInv == \A c \in Callers : pc[c] = "release" <=> bmtx = c

(* Only JS of a call or of a round waits for it, or hands work to a VM. *)
JSInv == \A x \in Users : Bridged(x) => x \in round \/ (x \in Callers /\ pc[x] = "call")

(* Nothing but the end of a release gives vmMutex back. *)
LEMMA BridgeKept == IInv /\ BridgeInv /\ [Next]_vars => BridgeInv'
<1> SUFFICES ASSUME IInv, BridgeInv, [Next]_vars PROVE BridgeInv'
  OBVIOUS
<1>0. ASSUME UNCHANGED <<pc, bmtx>> PROVE BridgeInv'
  BY <1>0 DEF BridgeInv
<1>t. pc \in [Callers -> {"idle", "call", "release"}] /\ None \notin Callers
  BY DEF IInv, TypeOK, Threads
<1>1. ASSUME NEW c \in Callers, Snapshot(c) \/ Make(c) PROVE BridgeInv'
  BY <1>1, <1>t DEF Snapshot, Make, BridgeInv
<1>2. ASSUME NEW c \in Callers, StartLoopers(c) PROVE BridgeInv'
  BY <1>0, <1>2 DEF StartLoopers, callVars
<1>3. ASSUME NEW c \in Callers, Release(c) PROVE BridgeInv'
  BY <1>3, <1>t DEF Release, BridgeInv
<1>4. ASSUME NEW c \in Callers, CallEnd(c) PROVE BridgeInv'
  BY <1>4, <1>t, CallerInside DEF CallEnd, BridgeInv, IInv
<1>5. ASSUME NEW c \in Callers, ReleaseEnd(c) PROVE BridgeInv'
  BY <1>5, <1>t DEF ReleaseEnd, BridgeInv
<1>6. ASSUME NEW v \in VMs, NEW k \in Kinds, RoundBegin(v, k) \/ RoundEnd(v, k) PROVE BridgeInv'
  BY <1>0, <1>6 DEF RoundBegin, RoundEnd, callVars
<1>7. ASSUME NEW v \in VMs, DestroyStep(v) PROVE BridgeInv'
  BY <1>0, <1>7 DEF DestroyStep, JoinLooper, JoinWorker, JoinItself, Destroyed, callVars
<1>8. ASSUME NEW v \in VMs, NEW w \in Workers, TaskStep(v, w) PROVE BridgeInv'
  BY <1>0, <1>8 DEF TaskStep, TaskBegin, TaskLate, TaskEnd, callVars
<1>9. ASSUME NEW x \in Users, Ask(x) \/ Borrow(x) \/ BridgeStep(x) PROVE BridgeInv'
  BY <1>0, <1>9 DEF Ask, Borrow, BridgeStep, Pass, Submit, callVars
<1>10. CASE UNCHANGED vars
  BY <1>0, <1>10 DEF vars, callVars
<1> QED BY <1>1, <1>2, <1>3, <1>4, <1>5, <1>6, <1>7, <1>8, <1>9, <1>10 DEF Next, CallStep, LoopStep

(* A call or a round ends when its JS is in no function of the bridge. *)
LEMMA JSKept == IInv /\ JSInv /\ [Next]_vars => JSInv'
<1> SUFFICES ASSUME IInv, JSInv, [Next]_vars PROVE JSInv'
  OBVIOUS
<1>0. ASSUME UNCHANGED <<pc, jsVars>>, round \subseteq round' PROVE JSInv'
  BY <1>0 DEF JSInv, Bridged, jsVars
<1>t. /\ pc \in [Callers -> {"idle", "call", "release"}] /\ borrowed \in [Users -> VMs \cup {None}]
      /\ None \notin VMs /\ Callers \cap round = {} /\ waits \subseteq Users
  BY Names DEF IInv, TypeOK
<1>1. ASSUME NEW c \in Callers, Snapshot(c) \/ Make(c) PROVE JSInv'
  BY <1>1, <1>t DEF Snapshot, Make, JSInv, Bridged, jsVars, loopVars
<1>2. ASSUME NEW c \in Callers, StartLoopers(c) PROVE JSInv'
  BY <1>0, <1>2 DEF StartLoopers, callVars
<1>3. ASSUME NEW c \in Callers, Release(c) \/ ReleaseEnd(c) PROVE JSInv'
  BY <1>3, <1>t DEF Release, ReleaseEnd, JSInv, Bridged, jsVars, loopVars
<1>4. ASSUME NEW c \in Callers, CallEnd(c) PROVE JSInv'
  BY <1>4, <1>t DEF CallEnd, Inside, JSInv, Bridged, jsVars, loopVars
<1>5. ASSUME NEW v \in VMs, NEW k \in Kinds, RoundBegin(v, k) PROVE JSInv'
  BY <1>0, <1>5 DEF RoundBegin, callVars
<1>6. ASSUME NEW v \in VMs, NEW k \in Kinds, RoundEnd(v, k) PROVE JSInv'
  BY <1>6, <1>t DEF RoundEnd, Inside, JSInv, Bridged, jsVars, callVars
<1>7. ASSUME NEW v \in VMs, DestroyStep(v) PROVE JSInv'
  BY <1>0, <1>7 DEF DestroyStep, JoinLooper, JoinWorker, JoinItself, Destroyed, callVars, loopVars
<1>8. ASSUME NEW v \in VMs, NEW w \in Workers, TaskStep(v, w) PROVE JSInv'
  BY <1>0, <1>8 DEF TaskStep, TaskBegin, TaskLate, TaskEnd, callVars, loopVars
<1>9. ASSUME NEW x \in Users, Ask(x) PROVE JSInv'
  BY <1>9, <1>t DEF Ask, InJS, Inside, JSInv, Bridged, callVars, loopVars
<1>10. ASSUME NEW x \in Users, Borrow(x) PROVE JSInv'
  BY <1>10, <1>t DEF Borrow, InJS, Inside, JSInv, Bridged, callVars, loopVars
<1>11. ASSUME NEW x \in Users, BridgeStep(x) PROVE JSInv'
  BY <1>11, <1>t DEF BridgeStep, Pass, Submit, JSInv, Bridged, callVars, loopVars
<1>12. CASE UNCHANGED vars
  BY <1>0, <1>12 DEF vars, callVars, loopVars
<1> QED BY <1>1, <1>2, <1>3, <1>4, <1>5, <1>6, <1>7, <1>8, <1>9, <1>10, <1>11, <1>12 DEF Next, CallStep, LoopStep

(* The hazard of a release that joins loopers and Workers with vmMutex held,  *)
(* while JS waits for it: once the destructors of a VM run, no looper of it   *)
(* waits for vmMutex or is in a round, no Worker of it runs a task, so each   *)
(* join ends at once; and vmMutex is held by nobody but a thread that runs    *)
(* destructors or is about to return, which does not wait for it again.       *)
THEOREM TeardownNeverWaits ==
  Spec => [](/\ bmtx # None => pc[bmtx] = "release" /\ bmtx \notin waits
             /\ \A v \in VMs : life[v] = "dying" =>
                  \/ \E k \in Kinds : LooperJoins(v, k)
                  \/ \E w \in Workers : WorkerJoins(v, w)
                  \/ Through(v))
<1>1. IInv /\ BridgeInv /\ JSInv => (bmtx # None => pc[bmtx] = "release" /\ bmtx \notin waits)
  BY Names DEF IInv, TypeOK, BridgeInv, JSInv, Bridged
<1>2. ASSUME IInv, JSInv, NEW v \in VMs, life[v] = "dying"
      PROVE  \/ \E k \in Kinds : LooperJoins(v, k)
             \/ \E w \in Workers : WorkerJoins(v, w)
             \/ Through(v)
  <2>1. \A x : ~Holds(x, v)
    BY <1>2 DEF IInv, LifeInv, RefsInv
  <2>2. \A k \in Kinds : Looper(v, k) \notin round \cup waits
    <3> TAKE k \in Kinds
    <3>1. Looper(v, k) \in Users /\ Looper(v, k) \notin Callers /\ Looper(v, k) \notin round
      BY <2>1, Names DEF Holds, Users
    <3> QED BY <1>2, <3>1 DEF JSInv, Bridged
  <2>3. \A w \in Workers : running[Worker(v, w)] = None
    BY <2>1, Names DEF Holds
  <2>4. ASSUME ~NoLoopers(v) PROVE \E k \in Kinds : LooperJoins(v, k)
    <3>1. CASE Looper(v, "timer") \in started
      BY <2>2, <3>1 DEF LooperJoins, LooperNext, Kinds
    <3>2. CASE Looper(v, "timer") \notin started
      BY <2>2, <2>4, <3>2 DEF LooperJoins, LooperNext, NoLoopers, Kinds
    <3> QED BY <3>1, <3>2
  <2> QED BY <2>3, <2>4 DEF WorkerJoins, Through
<1>3. Init => BridgeInv /\ JSInv
  BY DEF Init, BridgeInv, JSInv, Bridged, Threads
<1>4. IInv /\ BridgeInv /\ JSInv =>
        /\ bmtx # None => pc[bmtx] = "release" /\ bmtx \notin waits
        /\ \A v \in VMs : life[v] = "dying" =>
             \/ \E k \in Kinds : LooperJoins(v, k)
             \/ \E w \in Workers : WorkerJoins(v, w)
             \/ Through(v)
  BY <1>1, <1>2
<1> QED BY <1>3, <1>4, BridgeKept, JSKept, Invariance, PTL DEF Spec

(* The process ends only for a looper or a Worker that dropped the last     *)
(* reference: when a caller drops it, whoever released before, the process  *)
(* survives.                                                                *)
SelfJoin == \E v \in VMs : life[v] = "dying" /\ destroyer[v] \in Loopers \cup PoolThreads

THEOREM OnlySelfJoinEnds == Spec => [](ended => SelfJoin)
<1>1. Init => (ended => SelfJoin)
  BY DEF Init
<1>2. IInv /\ (ended => SelfJoin) /\ [Next]_vars => (ended => SelfJoin)'
  <2> SUFFICES ASSUME IInv, ended => SelfJoin, [Next]_vars, ended' PROVE SelfJoin'
    OBVIOUS
  <2>1. CASE UNCHANGED vars
    BY <2>1 DEF vars, refVars, SelfJoin
  <2>2. CASE Next
    <3>1. PICK v \in VMs : JoinItself(v)
      <4>1. ~ended
        BY <2>2 DEF Next
      <4>2. ASSUME NEW c \in Callers,
                   Snapshot(c) \/ Make(c) \/ StartLoopers(c) \/ Release(c) \/ CallStep(c)
            PROVE  FALSE
        BY <4>1, <4>2 DEF Snapshot, Make, StartLoopers, Release, CallStep, CallEnd, ReleaseEnd
      <4>3. ASSUME NEW v \in VMs, NEW k \in Kinds, RoundBegin(v, k) \/ RoundEnd(v, k) PROVE FALSE
        BY <4>1, <4>3 DEF RoundBegin, RoundEnd
      <4>4. ASSUME NEW v \in VMs, NEW w \in Workers, TaskStep(v, w) PROVE FALSE
        BY <4>1, <4>4 DEF TaskStep, TaskBegin, TaskLate, TaskEnd
      <4>5. ASSUME NEW v \in VMs, DestroyStep(v) PROVE JoinItself(v)
        BY <4>1, <4>5 DEF DestroyStep, JoinLooper, JoinWorker, Destroyed
      <4>6. ASSUME NEW x \in Users, Ask(x) \/ Borrow(x) \/ BridgeStep(x) PROVE FALSE
        BY <4>1, <4>6 DEF Ask, Borrow, BridgeStep, Pass, Submit
      <4> QED BY <2>2, <4>2, <4>3, <4>4, <4>5, <4>6 DEF Next, LoopStep
    <3>2. life' = life /\ destroyer' = destroyer /\ life[v] = "dying"
      BY <3>1 DEF JoinItself, refVars
    <3>3. destroyer[v] \in Loopers \cup PoolThreads
      BY <3>1, Names DEF JoinItself, IInv, TypeOK
    <3> QED BY <3>2, <3>3 DEF SelfJoin
  <2> QED BY <2>1, <2>2
<1> QED BY <1>1, <1>2, Invariance, PTL DEF Spec

(* The course of a VM's life. *)
Ages(v) == /\ life'[v] # life[v]
           /\ <<life[v], life'[v]>> \notin {<<"unborn", "alive">>, <<"alive", "dying">>, <<"dying", "dead">>}

(* Dropping a reference can only begin the destruction of a VM that lives. *)
LEMMA LetGoAges ==
  ASSUME IInv, NEW u \in VMs, NEW x, NEW t, LetGo(u, x, t), NEW v \in VMs
  PROVE  ~Ages(v)
<1>1. CASE refs[u] = {x}
  <2>1. life[u] = "alive" /\ life' = [life EXCEPT ![u] = "dying"]
    BY <1>1 DEF LetGo, IInv, LifeInv
  <2> QED BY <2>1 DEF Ages, IInv, TypeOK
<1>2. CASE refs[u] # {x}
  BY <1>2 DEF LetGo, Ages
<1> QED BY <1>1, <1>2

(* A VM is made once, its destructors begin once, when the last of the      *)
(* references goes, and they end once: no thread runs them a second time or *)
(* revives a VM that another thread destroys.                               *)
THEOREM DestroyedOnce == Spec => [][\A v \in VMs : ~Ages(v)]_vars
<1>1. IInv /\ Next => \A v \in VMs : ~Ages(v)
  <2> SUFFICES ASSUME IInv, Next, NEW v \in VMs PROVE ~Ages(v)
    OBVIOUS
  <2>0. ASSUME life' = life PROVE ~Ages(v)
    BY <2>0 DEF Ages
  <2>1. ASSUME NEW c \in Callers, Snapshot(c) \/ StartLoopers(c) \/ ReleaseEnd(c) PROVE ~Ages(v)
    BY <2>0, <2>1 DEF Snapshot, StartLoopers, ReleaseEnd, refVars
  <2>2. ASSUME NEW c \in Callers, Make(c) PROVE ~Ages(v)
    <3>1. PICK u \in VMs : life[u] = "unborn" /\ life' = [life EXCEPT ![u] = "alive"]
      BY <2>2 DEF Make
    <3> QED BY <3>1 DEF Ages, IInv, TypeOK
  <2>3. ASSUME NEW c \in Callers, Release(c) PROVE ~Ages(v)
    <3>1. vm \in VMs /\ LetGo(vm, Bridge, c)
      BY <2>3 DEF Release, IInv, TypeOK
    <3> QED BY <3>1, LetGoAges
  <2>4. ASSUME NEW c \in Callers, CallEnd(c) PROVE ~Ages(v)
    <3>1. inside[c] \in VMs /\ LetGo(inside[c], c, c)
      BY <2>4, CallerInside DEF CallEnd, IInv, TypeOK, InsideInv
    <3> QED BY <3>1, LetGoAges
  <2>5. ASSUME NEW u \in VMs, NEW k \in Kinds, RoundBegin(u, k) \/ RoundEnd(u, k) PROVE ~Ages(v)
    BY <2>0, <2>5, LetGoAges DEF RoundBegin, RoundEnd
  <2>6. ASSUME NEW u \in VMs, NEW w \in Workers, TaskStep(u, w) PROVE ~Ages(v)
    BY <2>0, <2>6, LetGoAges DEF TaskStep, TaskBegin, TaskLate, TaskEnd, refVars
  <2>7. ASSUME NEW u \in VMs, DestroyStep(u) PROVE ~Ages(v)
    <3>1. CASE Destroyed(u)
      BY <3>1 DEF Destroyed, Ages, IInv, TypeOK
    <3> QED BY <2>0, <2>7, <3>1 DEF DestroyStep, JoinLooper, JoinWorker, JoinItself, refVars
  <2>8. ASSUME NEW x \in Users, Ask(x) \/ Borrow(x) \/ BridgeStep(x) PROVE ~Ages(v)
    <3>1. CASE Ask(x) \/ Borrow(x) \/ Pass(x)
      BY <2>0, <3>1 DEF Ask, Borrow, Pass, refVars
    <3>2. CASE Submit(x)
      <4>1. borrowed[x] \in VMs /\ LetGo(borrowed[x], Async(x), x)
        BY <3>2 DEF Submit, IInv, TypeOK
      <4> QED BY <4>1, LetGoAges
    <3> QED BY <2>8, <3>1, <3>2 DEF BridgeStep
  <2> QED BY <2>1, <2>2, <2>3, <2>4, <2>5, <2>6, <2>7, <2>8 DEF Next, CallStep, LoopStep
<1> QED BY <1>1, Invariance, PTL DEF Spec
=============================================================================
