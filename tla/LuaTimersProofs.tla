--------------------------- MODULE LuaTimersProofs ---------------------------
(***************************************************************************)
(* Proofs about LuaTimers for every number of threads, VMs, calls and      *)
(* timers: vmMutex keeps the native threads apart, and a timer is used     *)
(* after it was freed only through a task or callback that was to come;    *)
(* then, each layer on the one before it, what is said of the VMs that     *)
(* overlap (a VM in the bridge has an Executor), of the Workers (one that  *)
(* is there is the Executor's or is joined) and of the timers (one is      *)
(* armed at a time, and the last VM frees them all); last, who can block   *)
(* whom.                                                                   *)
(***************************************************************************)
EXTENDS LuaTimers, FiniteSetTheorems, SequenceTheorems, TLAPS

USE LuaAssumption DEF LuaAssumption, VMs, None

Inside == {"lua", "submit", "insert"}
Places == {"idle", "lock", "leave", "clear", "stop", "reset", "join", "lua", "submit", "insert"}

TypeInv ==
  /\ bridge \in 0 .. MaxVMs /\ made \in 0 .. MaxVMs /\ executor \in 0 .. MaxVMs
  /\ vm \in [Callers -> 0 .. MaxVMs]
  /\ owner \in [VMs -> Callers \cup {Nobody}]
  /\ pc \in [Callers -> Places]
  /\ adding \in [Callers -> Timers \cup {NoTimer}]
  /\ worker \in [Callers -> 0 .. MaxVMs]
  /\ queue \in [VMs -> Seq(Timers)]
  /\ wpc \in [VMs -> {"none", "idle", "run", "due", "callback", "stuck"}]
  /\ now \in [VMs -> Timers \cup {NoTimer}]
  /\ born \in [Timers -> 0 .. MaxVMs]
  /\ registered \subseteq Timers /\ armed \subseteq Timers /\ freed \subseteq Timers

(* Whoever runs Lua code of a VM holds its vmMutex. *)
OwnerInv ==
  \A c \in Callers :
    /\ pc[c] \in Inside \cup {"lock"} => vm[c] \in VMs
    /\ pc[c] \in Inside => owner[vm[c]] = c

(* A timer that is being added is nobody else's yet. *)
Adding(c) == pc[c] \in {"submit", "insert"}
AddingInv ==
  \A c \in Callers : Adding(c) =>
    /\ adding[c] \in Timers /\ worker[c] \in VMs
    /\ adding[c] \notin registered \cup freed /\ born[adding[c]] # 0
    /\ \A d \in Callers \ {c} : Adding(d) => adding[d] # adding[c]

(* Only timers that were added are registered and freed. *)
BornInv == \A t \in registered \cup freed : born[t] # 0

(* The Worker knows the timer whose callback it is in. *)
NowInv == \A w \in VMs : wpc[w] \in {"due", "callback"} => now[w] \in Timers

(* What the loop or a task may still use, freed or not. *)
In(s) == {s[i] : i \in DOMAIN s}
UseInv ==
  /\ \A w \in VMs : In(queue[w]) \cap freed \subseteq exposed
  /\ \A w \in VMs : wpc[w] = "due" /\ now[w] \in freed => now[w] \in exposed
  /\ armed \cap freed \subseteq exposed
  /\ touched \subseteq exposed

IInv == TypeInv /\ OwnerInv /\ AddingInv /\ BornInv /\ NowInv /\ UseInv

(* What a queue holds when a timer joins it or leaves it. *)
LEMMA InAppend ==
  ASSUME NEW s \in Seq(Timers), NEW t \in Timers
  PROVE  Append(s, t) \in Seq(Timers) /\ In(Append(s, t)) = In(s) \cup {t}
<1>1. /\ Len(Append(s, t)) = Len(s) + 1 /\ Len(s) \in Nat
      /\ DOMAIN s = 1 .. Len(s) /\ DOMAIN Append(s, t) = 1 .. Len(s) + 1
      /\ \A i \in 1 .. Len(s) : Append(s, t)[i] = s[i]
      /\ Append(s, t)[Len(s) + 1] = t
  BY LenProperties
<1>2. In(Append(s, t)) = In(s) \cup {t}
  BY <1>1 DEF In
<1> QED BY <1>2, AppendProperties

(* What a queue holds once its first timer has left it. *)
LEMMA InTail ==
  ASSUME NEW s \in Seq(Timers), s # <<>>
  PROVE  /\ Head(s) \in Timers /\ Tail(s) \in Seq(Timers)
         /\ In(s) = {Head(s)} \cup In(Tail(s))
<1>1. /\ Len(s) \in Nat \ {0} /\ DOMAIN s = 1 .. Len(s) /\ Head(s) = s[1]
      /\ DOMAIN Tail(s) = 1 .. Len(s) - 1
      /\ \A i \in 1 .. Len(s) - 1 : Tail(s)[i] = s[i + 1]
  BY LenProperties, EmptySeq, HeadTailProperties
<1>2. ASSUME NEW i \in 1 .. Len(s) PROVE s[i] = Head(s) \/ s[i] \in In(Tail(s))
  <2>1. CASE i = 1 BY <1>1, <2>1
  <2>2. CASE i # 1
    <3>1. i - 1 \in DOMAIN Tail(s) /\ Tail(s)[i - 1] = s[i]
      BY <1>1, <2>2
    <3> QED BY <3>1 DEF In
  <2> QED BY <2>1, <2>2
<1>3. Head(s) \in In(s) /\ In(Tail(s)) \subseteq In(s)
  BY <1>1 DEF In
<1>4. In(s) \subseteq {Head(s)} \cup In(Tail(s))
  BY <1>1, <1>2 DEF In
<1>5. Head(s) \in Timers /\ Tail(s) \in Seq(Timers)
  BY HeadTailProperties, EmptySeq
<1> QED BY <1>3, <1>4, <1>5

(* The invariant holds at first. *)
LEMMA InitIInv == Init => IInv
<1> SUFFICES ASSUME Init PROVE IInv
  OBVIOUS
<1>1. <<>> \in Seq(Timers) /\ In(<<>>) = {}
  BY EmptySeq DEF In
<1>2. /\ vm \in [Callers -> 0 .. MaxVMs]
      /\ owner \in [VMs -> Callers \cup {Nobody}]
      /\ pc \in [Callers -> Places]
      /\ adding \in [Callers -> Timers \cup {NoTimer}]
      /\ worker \in [Callers -> 0 .. MaxVMs]
  BY DEF Init, Places
<1>3. /\ queue \in [VMs -> Seq(Timers)]
      /\ wpc \in [VMs -> {"none", "idle", "run", "due", "callback", "stuck"}]
      /\ now \in [VMs -> Timers \cup {NoTimer}]
      /\ born \in [Timers -> 0 .. MaxVMs]
  BY <1>1 DEF Init
<1>4. TypeInv /\ OwnerInv
  BY <1>2, <1>3 DEF Init, TypeInv, OwnerInv, Inside, Places
<1>5. AddingInv /\ BornInv /\ NowInv /\ UseInv
  BY <1>1 DEF Init, AddingInv, Adding, BornInv, NowInv, UseInv
<1> QED BY <1>4, <1>5 DEF IInv

(* What a step leaves alone keeps what is said of it. *)
LEMMA Frames ==
  ASSUME IInv
  PROVE  /\ UNCHANGED workVars => /\ queue' \in [VMs -> Seq(Timers)]
                                  /\ wpc' \in [VMs -> {"none", "idle", "run", "due", "callback", "stuck"}]
                                  /\ now' \in [VMs -> Timers \cup {NoTimer}]
                                  /\ NowInv'
         /\ UNCHANGED timerVars => /\ born' \in [Timers -> 0 .. MaxVMs]
                                   /\ registered' \subseteq Timers /\ armed' \subseteq Timers
                                   /\ freed' \subseteq Timers
                                   /\ BornInv'
         /\ UNCHANGED <<workVars, timerVars>> => UseInv'
BY DEF IInv, TypeInv, NowInv, BornInv, UseInv, workVars, timerVars

(* A caller that goes from one place outside Timer.add to another. *)
LEMMA Moves ==
  ASSUME IInv, NEW c \in Callers, \A d \in Callers \ {c} : pc'[d] = pc[d], ~Adding(c)',
         UNCHANGED <<adding, worker, registered, freed, born>>
  PROVE  AddingInv'
BY DEF IInv, AddingInv, Adding

(* The steps of a caller that leave the timers alone. *)
LEMMA OwnerStep ==
  ASSUME IInv, NEW c \in Callers,
         Lock(c) \/ LockFails(c) \/ LuaEnd(c) \/ Leave(c) \/ Release(c)
  PROVE  IInv'
<1> USE DEF IInv
<1>1. CASE Lock(c)
  <2>1. /\ vm[c] \in VMs /\ owner[vm[c]] = Nobody
        /\ owner' = [owner EXCEPT ![vm[c]] = c] /\ pc' = [pc EXCEPT ![c] = "lua"]
        /\ UNCHANGED <<bridge, made, vm, adding, worker, executor, workVars, timerVars>>
    BY <1>1 DEF Lock, Goto, OwnerInv
  <2>2. TypeInv'
    BY <2>1, Frames DEF TypeInv, Places
  <2>3. OwnerInv'
    BY <2>1 DEF TypeInv, OwnerInv, Inside
  <2>4. AddingInv'
    BY <2>1, Moves DEF TypeInv, Adding, timerVars
  <2> QED BY <2>1, <2>2, <2>3, <2>4, Frames
<1>2. CASE LockFails(c)
  <2>1. /\ pc[c] = "lock" /\ (pc' = pc \/ pc' = [pc EXCEPT ![c] = "leave"])
        /\ UNCHANGED <<vmVars, adding, worker, executor, workVars, timerVars>>
    BY <1>2 DEF LockFails, Goto
  <2>2. TypeInv'
    <3>1. pc' \in [Callers -> Places]
      BY <2>1 DEF TypeInv, Places
    <3> QED BY <2>1, <3>1, Frames DEF TypeInv, vmVars
  <2>3. OwnerInv'
    BY <2>1 DEF TypeInv, OwnerInv, Inside, vmVars
  <2>4. AddingInv'
    BY <2>1, Moves DEF TypeInv, Adding, timerVars
  <2> QED BY <2>1, <2>2, <2>3, <2>4, Frames
<1>3. CASE LuaEnd(c)
  <2>1. /\ vm[c] \in VMs /\ owner[vm[c]] = c
        /\ owner' = [owner EXCEPT ![vm[c]] = Nobody] /\ pc' = [pc EXCEPT ![c] = "leave"]
        /\ UNCHANGED <<bridge, made, vm, adding, worker, executor, workVars, timerVars>>
    BY <1>3 DEF LuaEnd, Goto, OwnerInv, Inside
  <2>2. TypeInv'
    BY <2>1, Frames DEF TypeInv, Places
  <2>3. OwnerInv'
    BY <2>1 DEF TypeInv, OwnerInv, Inside
  <2>4. AddingInv'
    BY <2>1, Moves DEF TypeInv, Adding, timerVars
  <2> QED BY <2>1, <2>2, <2>3, <2>4, Frames
<1>4. CASE Leave(c)
  <2>1. /\ \/ pc' = [pc EXCEPT ![c] = "idle"] /\ vm' = [vm EXCEPT ![c] = 0]
           \/ pc' = [pc EXCEPT ![c] = "clear"] /\ UNCHANGED vm
        /\ UNCHANGED <<bridge, made, owner, adding, worker, executor, workVars, timerVars>>
    BY <1>4 DEF Leave
  <2>2. TypeInv'
    <3>1. pc \in [Callers -> Places] /\ vm \in [Callers -> 0 .. MaxVMs] /\ 0 \in 0 .. MaxVMs
      BY DEF TypeInv
    <3>2. pc' \in [Callers -> Places]
      BY <2>1, <3>1 DEF Places
    <3>3. vm' \in [Callers -> 0 .. MaxVMs]
      BY <2>1, <3>1
    <3> QED BY <2>1, <3>1, <3>2, <3>3, Frames DEF TypeInv
  <2>3. OwnerInv'
    <3>1. DOMAIN pc = Callers /\ DOMAIN vm = Callers
      BY DEF TypeInv
    <3>2. pc'[c] \notin Inside \cup {"lock"}
      BY <2>1, <3>1 DEF Inside
    <3>3. \A d \in Callers \ {c} : pc'[d] = pc[d] /\ vm'[d] = vm[d]
      BY <2>1, <3>1
    <3> QED BY <2>1, <3>2, <3>3 DEF OwnerInv, Inside
  <2>4. AddingInv'
    BY <2>1, Moves DEF TypeInv, Adding, timerVars
  <2> QED BY <2>1, <2>2, <2>3, <2>4, Frames
<1>5. CASE Release(c)
  <2>1. /\ pc[c] = "idle" /\ bridge' = 0 /\ bridge \in 0 .. MaxVMs
        /\ \/ vm' = [vm EXCEPT ![c] = bridge] /\ pc' = [pc EXCEPT ![c] = "clear"]
           \/ UNCHANGED <<vm, pc>>
        /\ UNCHANGED <<made, owner, adding, worker, executor, workVars, timerVars>>
    BY <1>5 DEF Release, TypeInv
  <2>2. TypeInv'
    <3>1. pc \in [Callers -> Places] /\ vm \in [Callers -> 0 .. MaxVMs] /\ 0 \in 0 .. MaxVMs
      BY DEF TypeInv
    <3>2. pc' \in [Callers -> Places]
      BY <2>1, <3>1 DEF Places
    <3>3. vm' \in [Callers -> 0 .. MaxVMs]
      BY <2>1, <3>1
    <3> QED BY <2>1, <3>1, <3>2, <3>3, Frames DEF TypeInv
  <2>3. OwnerInv'
    <3>1. DOMAIN pc = Callers /\ DOMAIN vm = Callers
      BY DEF TypeInv
    <3>2. pc'[c] \notin Inside \cup {"lock"}
      BY <2>1, <3>1 DEF Inside
    <3>3. \A d \in Callers \ {c} : pc'[d] = pc[d] /\ vm'[d] = vm[d]
      BY <2>1, <3>1
    <3> QED BY <2>1, <3>2, <3>3 DEF OwnerInv, Inside
  <2>4. AddingInv'
    BY <2>1, Moves DEF TypeInv, Adding, timerVars
  <2> QED BY <2>1, <2>2, <2>3, <2>4, Frames
<1> QED BY <1>1, <1>2, <1>3, <1>4, <1>5

(* A caller enters, with the VM that is there or with a new one. *)
LEMMA EnterStep ==
  ASSUME IInv, NEW c \in Callers, Enter(c)
  PROVE  IInv'
<1> USE DEF IInv
<1>1. /\ pc[c] = "idle" /\ bridge' \in VMs /\ made' \in 0 .. MaxVMs /\ executor' \in 0 .. MaxVMs
      /\ vm' = [vm EXCEPT ![c] = bridge'] /\ pc' = [pc EXCEPT ![c] = "lock"]
      /\ armed' \subseteq armed
      /\ UNCHANGED <<owner, adding, worker, now, born, registered, freed, exposed, touched>>
  <2>1. /\ pc[c] = "idle"
        /\ vm' = [vm EXCEPT ![c] = bridge'] /\ pc' = [pc EXCEPT ![c] = "lock"]
        /\ UNCHANGED <<owner, adding, worker, now, born, registered, freed, exposed, touched>>
    BY DEF Enter
  <2>2. /\ bridge \in 0 .. MaxVMs /\ made \in 0 .. MaxVMs /\ executor \in 0 .. MaxVMs
    BY DEF TypeInv
  <2>3. \/ bridge # 0 /\ UNCHANGED <<bridge, made, executor, armed>>
        \/ /\ made < MaxVMs /\ bridge' = made + 1 /\ made' = made + 1 /\ executor' = made + 1
           /\ armed' = {}
    BY DEF Enter, MakeVM
  <2> QED BY <2>1, <2>2, <2>3
<1>2. <<>> \in Seq(Timers) /\ In(<<>>) = {}
  BY EmptySeq DEF In
<1>3. /\ queue' \in [VMs -> Seq(Timers)]
      /\ \A w \in VMs : In(queue'[w]) \subseteq In(queue[w])
  <2>1. queue' = queue \/ queue' = [w \in VMs |-> IF w = executor THEN <<>> ELSE queue[w]]
    BY DEF Enter, MakeVM
  <2>2. queue' \in [VMs -> Seq(Timers)]
    BY <1>2, <2>1 DEF TypeInv
  <2>3. \A w \in VMs : queue'[w] = <<>> \/ queue'[w] = queue[w]
    BY <2>1
  <2> QED BY <1>2, <2>2, <2>3
<1>4. /\ wpc' \in [VMs -> {"none", "idle", "run", "due", "callback", "stuck"}]
      /\ \A w \in VMs : wpc'[w] \in {"due", "callback"} => wpc'[w] = wpc[w]
  <2>1. \/ wpc' = wpc
        \/ wpc' = [w \in VMs |-> IF w = made + 1 THEN "idle"
                                 ELSE IF w = executor THEN "none" ELSE wpc[w]]
    BY DEF Enter, MakeVM
  <2>2. wpc \in [VMs -> {"none", "idle", "run", "due", "callback", "stuck"}]
    BY DEF TypeInv
  <2> QED BY <2>1, <2>2
<1>5. TypeInv'
  BY <1>1, <1>3, <1>4 DEF TypeInv, Places
<1>6. OwnerInv'
  BY <1>1 DEF TypeInv, OwnerInv, Inside
<1>7. AddingInv'
  BY <1>1, Moves DEF TypeInv, Adding
<1>8. BornInv' /\ NowInv'
  BY <1>1, <1>4 DEF BornInv, NowInv
<1>9. UseInv'
  BY <1>1, <1>3, <1>4 DEF UseInv
<1> QED BY <1>5, <1>6, <1>7, <1>8, <1>9

(* A step of a caller in Lua, by its effect on the caller. *)
LEMMA CallerType ==
  ASSUME IInv, NEW c \in Callers,
         pc' \in [Callers -> Places], adding' \in [Callers -> Timers \cup {NoTimer}],
         worker' \in [Callers -> 0 .. MaxVMs],
         queue' \in [VMs -> Seq(Timers)], born' \in [Timers -> 0 .. MaxVMs],
         registered' \subseteq Timers, armed' \subseteq Timers, freed' \subseteq Timers,
         UNCHANGED <<bridge, made, vm, owner, executor, wpc, now>>
  PROVE  TypeInv' /\ NowInv'
BY DEF IInv, TypeInv, NowInv

(* _timer_clear() frees what is registered, and stops it. *)
LEMMA ClearStep ==
  ASSUME IInv, Clear,
         UNCHANGED <<queue, wpc, now, born, touched>>
  PROVE  /\ registered' = {} /\ registered' \cup freed' = registered \cup freed
         /\ armed' \subseteq armed /\ freed' \subseteq Timers /\ BornInv' /\ UseInv'
<1>1. /\ registered' = {} /\ armed' = armed \ registered /\ freed' = freed \cup registered
      /\ exposed' = exposed \cup {t \in registered : Coming(t)}
  BY DEF Clear
<1>2. BornInv'
  BY <1>1 DEF IInv, BornInv
<1>3. \A w \in VMs : \A t \in In(queue[w]) : t \in registered => Coming(t)
  BY DEF Coming, In
<1>4. \A w \in VMs : wpc[w] = "due" => Coming(now[w])
  BY DEF Coming
<1>5. UseInv'
  BY <1>1, <1>3, <1>4 DEF IInv, UseInv
<1> QED BY <1>1, <1>2, <1>5 DEF IInv, TypeInv

(* Functions of a native thread add and clear timers. *)
LEMMA LuaStep ==
  ASSUME IInv, NEW c \in Callers,
         Submit(c) \/ Insert(c) \/ ClearBy(c) \/ \E t \in Timers : Add(c, t)
  PROVE  IInv'
<1> USE DEF IInv
<1>0. /\ DOMAIN pc = Callers /\ DOMAIN adding = Callers /\ DOMAIN worker = Callers
      /\ pc \in [Callers -> Places] /\ adding \in [Callers -> Timers \cup {NoTimer}]
      /\ worker \in [Callers -> 0 .. MaxVMs] /\ queue \in [VMs -> Seq(Timers)]
      /\ born \in [Timers -> 0 .. MaxVMs] /\ executor \in 0 .. MaxVMs
      /\ registered \subseteq Timers /\ armed \subseteq Timers /\ freed \subseteq Timers
  BY DEF TypeInv
<1>1. ASSUME NEW t \in Timers, Add(c, t) PROVE IInv'
  <2>1. /\ vm[c] \in VMs /\ pc[c] = "lua" /\ born[t] = 0 /\ born' = [born EXCEPT ![t] = vm[c]]
        /\ UNCHANGED <<bridge, made, vm, owner, executor, queue, wpc, now, registered, armed, freed, exposed, touched>>
    BY <1>1 DEF Add, NewTimer, OwnerInv, Inside, vmVars, workVars
  <2>2. \/ UNCHANGED <<pc, adding, worker>>
        \/ /\ executor # 0 /\ pc' = [pc EXCEPT ![c] = "submit"]
           /\ adding' = [adding EXCEPT ![c] = t] /\ worker' = [worker EXCEPT ![c] = executor]
    BY <1>1 DEF Add, Goto
  <2>3. born' \in [Timers -> 0 .. MaxVMs] /\ born'[t] # 0 /\ \A u \in Timers \ {t} : born'[u] = born[u]
    BY <1>0, <2>1
  <2>4. t \notin registered \cup freed /\ \A d \in Callers : Adding(d) => adding[d] # t
    BY <2>1 DEF BornInv, AddingInv
  <2>5. BornInv' /\ UseInv'
    BY <1>0, <2>1, <2>3 DEF BornInv, UseInv
  <2>6. CASE UNCHANGED <<pc, adding, worker>>
    <3>1. TypeInv' /\ NowInv'
      BY <1>0, <2>1, <2>3, <2>6, CallerType
    <3>2. OwnerInv' /\ AddingInv'
      BY <1>0, <2>1, <2>3, <2>6 DEF OwnerInv, AddingInv, Adding
    <3> QED BY <2>5, <3>1, <3>2
  <2>7. CASE /\ executor # 0 /\ pc' = [pc EXCEPT ![c] = "submit"]
             /\ adding' = [adding EXCEPT ![c] = t] /\ worker' = [worker EXCEPT ![c] = executor]
    <3>1. /\ pc' \in [Callers -> Places] /\ adding' \in [Callers -> Timers \cup {NoTimer}]
          /\ worker' \in [Callers -> 0 .. MaxVMs]
      BY <1>0, <2>7 DEF Places
    <3>2. TypeInv' /\ NowInv'
      BY <1>0, <2>1, <2>3, <3>1, CallerType
    <3>3. /\ pc'[c] = "submit" /\ adding'[c] = t /\ worker'[c] \in VMs
          /\ \A d \in Callers \ {c} : pc'[d] = pc[d] /\ adding'[d] = adding[d] /\ worker'[d] = worker[d]
      BY <1>0, <2>7
    <3>4. OwnerInv'
      BY <2>1, <3>3 DEF OwnerInv, Inside
    <3>5. AddingInv'
      BY <2>1, <2>3, <2>4, <3>3 DEF AddingInv, Adding
    <3> QED BY <2>5, <3>2, <3>4, <3>5
  <2> QED BY <2>2, <2>6, <2>7
<1>2. CASE Submit(c)
  <2> DEFINE w == worker[c]
  <2>1. /\ w \in VMs /\ adding[c] \in Timers /\ adding[c] \notin freed /\ pc[c] = "submit"
        /\ queue' = [queue EXCEPT ![w] = Append(@, adding[c])]
        /\ pc' = [pc EXCEPT ![c] = "insert"]
        /\ UNCHANGED <<bridge, made, vm, owner, adding, worker, executor, wpc, now>>
        /\ UNCHANGED timerVars
    BY <1>2 DEF Submit, Goto, AddingInv, Adding, vmVars
  <2> HIDE DEF w
  <2>2. Append(queue[w], adding[c]) \in Seq(Timers) /\ In(Append(queue[w], adding[c])) = In(queue[w]) \cup {adding[c]}
    BY <1>0, <2>1, InAppend
  <2>3. /\ queue' \in [VMs -> Seq(Timers)] /\ In(queue'[w]) = In(queue[w]) \cup {adding[c]}
        /\ \A u \in VMs \ {w} : queue'[u] = queue[u]
    BY <1>0, <2>1, <2>2
  <2>4. pc' \in [Callers -> Places] /\ pc'[c] = "insert" /\ \A d \in Callers \ {c} : pc'[d] = pc[d]
    BY <1>0, <2>1 DEF Places
  <2>5. UNCHANGED <<born, registered, armed, freed, exposed, touched>>
    BY <2>1 DEF timerVars
  <2>6. TypeInv' /\ NowInv'
    BY <1>0, <2>1, <2>3, <2>4, <2>5, CallerType
  <2>7. OwnerInv'
    BY <2>1, <2>4 DEF OwnerInv, Inside
  <2>8. AddingInv' /\ BornInv'
    BY <2>1, <2>4, <2>5 DEF AddingInv, Adding, BornInv
  <2>9. UseInv'
    BY <2>1, <2>3, <2>5 DEF UseInv
  <2> QED BY <2>6, <2>7, <2>8, <2>9
<1>3. CASE Insert(c)
  <2>1. /\ pc[c] = "insert" /\ registered' = registered \cup {adding[c]}
        /\ adding' = [adding EXCEPT ![c] = NoTimer] /\ worker' = [worker EXCEPT ![c] = 0]
        /\ pc' = [pc EXCEPT ![c] = "lua"]
        /\ UNCHANGED <<bridge, made, vm, owner, executor, queue, wpc, now, born, armed, freed, exposed, touched>>
    BY <1>3 DEF Insert, Goto, vmVars, workVars
  <2>2. adding[c] \in Timers /\ adding[c] \notin freed /\ born[adding[c]] # 0
    BY <2>1 DEF AddingInv, Adding
  <2>3. /\ pc' \in [Callers -> Places] /\ adding' \in [Callers -> Timers \cup {NoTimer}]
        /\ worker' \in [Callers -> 0 .. MaxVMs] /\ registered' \subseteq Timers
    BY <1>0, <2>1, <2>2 DEF Places
  <2>4. /\ pc'[c] = "lua"
        /\ \A d \in Callers \ {c} : pc'[d] = pc[d] /\ adding'[d] = adding[d] /\ worker'[d] = worker[d]
    BY <1>0, <2>1
  <2>5. TypeInv' /\ NowInv'
    BY <1>0, <2>1, <2>3, CallerType
  <2>6. OwnerInv'
    BY <2>1, <2>4 DEF OwnerInv, Inside
  <2>7. AddingInv'
    BY <2>1, <2>4 DEF AddingInv, Adding
  <2>8. BornInv' /\ UseInv'
    BY <2>1, <2>2 DEF BornInv, UseInv
  <2> QED BY <2>5, <2>6, <2>7, <2>8
<1>4. CASE ClearBy(c)
  <2>1. /\ Clear /\ UNCHANGED <<bridge, made, vm, owner, executor, pc, adding, worker, queue, wpc, now, born, touched>>
    BY <1>4 DEF ClearBy, vmVars, callVars, workVars
  <2>2. /\ registered' = {} /\ registered' \cup freed' = registered \cup freed
        /\ armed' \subseteq armed /\ freed' \subseteq Timers /\ BornInv' /\ UseInv'
    BY <2>1, ClearStep
  <2>3. TypeInv' /\ NowInv'
    BY <1>0, <2>1, <2>2, CallerType
  <2>4. OwnerInv' /\ AddingInv'
    BY <2>1, <2>2 DEF OwnerInv, AddingInv, Adding
  <2> QED BY <2>2, <2>3, <2>4
<1> QED BY <1>1, <1>2, <1>3, <1>4

(* ~LuaVM() on the thread of the caller that dropped the last reference. *)
LEMMA EndStep ==
  ASSUME IInv, NEW c \in Callers,
         EndClear(c) \/ EndStop(c) \/ EndReset(c) \/ EndJoin(c)
  PROVE  IInv'
<1> USE DEF IInv
<1>0. /\ pc \in [Callers -> Places] /\ worker \in [Callers -> 0 .. MaxVMs]
      /\ vm \in [Callers -> 0 .. MaxVMs] /\ executor \in 0 .. MaxVMs /\ 0 \in 0 .. MaxVMs
      /\ adding \in [Callers -> Timers \cup {NoTimer}] /\ queue \in [VMs -> Seq(Timers)]
      /\ born \in [Timers -> 0 .. MaxVMs]
      /\ registered \subseteq Timers /\ armed \subseteq Timers /\ freed \subseteq Timers
  BY DEF TypeInv
<1>m. ASSUME NEW l \in {"idle", "stop", "reset", "join"}, pc' = [pc EXCEPT ![c] = l]
      PROVE  /\ pc' \in [Callers -> Places] /\ pc'[c] = l /\ ~Adding(c)'
             /\ \A d \in Callers \ {c} : pc'[d] = pc[d]
  BY <1>0, <1>m DEF Places, Adding
<1>o. ASSUME NEW l \in {"idle", "stop", "reset", "join"}, pc' = [pc EXCEPT ![c] = l],
             \A d \in Callers \ {c} : vm'[d] = vm[d], UNCHANGED owner
      PROVE  OwnerInv'
  BY <1>m, <1>o DEF OwnerInv, Inside
<1>1. CASE EndClear(c)
  <2>1. /\ Clear /\ pc' = [pc EXCEPT ![c] = "stop"]
        /\ UNCHANGED <<bridge, made, vm, owner, executor, adding, worker, queue, wpc, now, born, touched>>
    BY <1>1 DEF EndClear, Goto, vmVars, workVars
  <2>2. /\ registered' = {} /\ registered' \cup freed' = registered \cup freed
        /\ armed' \subseteq armed /\ freed' \subseteq Timers /\ BornInv' /\ UseInv'
    BY <2>1, ClearStep
  <2>3. TypeInv' /\ NowInv'
    BY <1>0, <1>m, <2>1, <2>2, CallerType
  <2>4. OwnerInv'
    BY <1>o, <2>1
  <2>5. AddingInv'
    BY <1>m, <2>1, <2>2 DEF AddingInv, Adding
  <2> QED BY <2>2, <2>3, <2>4, <2>5
<1>2. CASE EndStop(c)
  <2>1. /\ pc' = [pc EXCEPT ![c] = "reset"]
        /\ UNCHANGED <<bridge, made, vm, owner, executor, adding, worker, queue, wpc, now, born,
                       registered, armed, freed, exposed, touched>>
    BY <1>2 DEF EndStop, Goto, vmVars, workVars
  <2>2. TypeInv' /\ NowInv'
    BY <1>0, <1>m, <2>1, CallerType
  <2>3. OwnerInv'
    BY <1>o, <2>1
  <2>4. AddingInv' /\ BornInv' /\ UseInv'
    BY <1>m, <2>1, Moves DEF BornInv, UseInv
  <2> QED BY <2>2, <2>3, <2>4
<1>3. CASE EndReset(c)
  <2>1. /\ pc' = [pc EXCEPT ![c] = "join"] /\ worker' = [worker EXCEPT ![c] = executor] /\ executor' = 0
        /\ UNCHANGED <<bridge, made, vm, owner, adding, queue, wpc, now, born,
                       registered, armed, freed, exposed, touched>>
    BY <1>3 DEF EndReset, Goto, vmVars, timerVars
  <2>2. worker' \in [Callers -> 0 .. MaxVMs] /\ \A d \in Callers \ {c} : worker'[d] = worker[d]
    BY <1>0, <2>1
  <2>3. TypeInv' /\ NowInv'
    BY <1>0, <1>m, <2>1, <2>2 DEF TypeInv, NowInv
  <2>4. OwnerInv'
    BY <1>o, <2>1
  <2>5. AddingInv' /\ BornInv' /\ UseInv'
    BY <1>m, <2>1, <2>2 DEF AddingInv, Adding, BornInv, UseInv
  <2> QED BY <2>3, <2>4, <2>5
<1>4. CASE EndJoin(c)
  <2>1. /\ pc' = [pc EXCEPT ![c] = "idle"] /\ worker' = [worker EXCEPT ![c] = 0]
        /\ vm' = [vm EXCEPT ![c] = 0]
        /\ wpc' = [w \in VMs |-> IF w = worker[c] THEN "none" ELSE wpc[w]]
        /\ queue' = [w \in VMs |-> IF w = worker[c] THEN <<>> ELSE queue[w]]
        /\ UNCHANGED <<bridge, made, owner, executor, adding, now, born,
                       registered, armed, freed, exposed, touched>>
    BY <1>4 DEF EndJoin, Goto, timerVars
  <2>2. /\ worker' \in [Callers -> 0 .. MaxVMs] /\ \A d \in Callers \ {c} : worker'[d] = worker[d]
        /\ vm' \in [Callers -> 0 .. MaxVMs] /\ \A d \in Callers \ {c} : vm'[d] = vm[d]
    BY <1>0, <2>1
  <2>3. <<>> \in Seq(Timers) /\ In(<<>>) = {}
    BY EmptySeq DEF In
  <2>4. /\ queue' \in [VMs -> Seq(Timers)]
        /\ \A w \in VMs : In(queue'[w]) \subseteq In(queue[w])
    BY <1>0, <2>1, <2>3
  <2>5. /\ wpc' \in [VMs -> {"none", "idle", "run", "due", "callback", "stuck"}]
        /\ \A w \in VMs : wpc'[w] # "none" => wpc'[w] = wpc[w]
    BY <2>1 DEF TypeInv
  <2>6. TypeInv' /\ NowInv'
    BY <1>0, <1>m, <2>1, <2>2, <2>4, <2>5 DEF TypeInv, NowInv
  <2>7. OwnerInv'
    BY <1>o, <2>1, <2>2
  <2>8. AddingInv' /\ BornInv'
    BY <1>m, <2>1, <2>2 DEF AddingInv, Adding, BornInv
  <2>9. UseInv'
    BY <2>1, <2>4, <2>5 DEF UseInv
  <2> QED BY <2>6, <2>7, <2>8, <2>9
<1> QED BY <1>1, <1>2, <1>3, <1>4

(* The Worker and the loop it runs. *)
LEMMA LoopStep ==
  ASSUME IInv, NEW w \in VMs,
         WorkerStep(w) \/ CallbackClears(w) \/ \E t \in Timers : CallbackAdds(w, t)
  PROVE  IInv'
<1> USE DEF IInv
<1>0. /\ queue \in [VMs -> Seq(Timers)] /\ now \in [VMs -> Timers \cup {NoTimer}]
      /\ wpc \in [VMs -> {"none", "idle", "run", "due", "callback", "stuck"}]
      /\ born \in [Timers -> 0 .. MaxVMs]
      /\ registered \subseteq Timers /\ armed \subseteq Timers /\ freed \subseteq Timers
  BY DEF TypeInv
<1>t. ASSUME queue' \in [VMs -> Seq(Timers)], now' \in [VMs -> Timers \cup {NoTimer}],
             wpc' \in [VMs -> {"none", "idle", "run", "due", "callback", "stuck"}],
             born' \in [Timers -> 0 .. MaxVMs],
             registered' \subseteq Timers, armed' \subseteq Timers, freed' \subseteq Timers,
             UNCHANGED <<vmVars, callVars, executor>>
      PROVE  TypeInv' /\ OwnerInv'
  BY <1>t DEF TypeInv, OwnerInv, vmVars, callVars
<1>f. ASSUME UNCHANGED <<vmVars, callVars, registered, freed, born>> PROVE AddingInv' /\ BornInv'
  BY <1>f DEF AddingInv, Adding, BornInv, vmVars, callVars
<1>1. CASE Start(w)
  <2> DEFINE t == Head(queue[w])
  <2>1. /\ queue[w] # <<>> /\ queue' = [queue EXCEPT ![w] = Tail(@)]
        /\ armed' = armed \cup {t} /\ touched' = (IF t \in freed THEN touched \cup {t} ELSE touched)
        /\ wpc' = [wpc EXCEPT ![w] = "run"]
        /\ UNCHANGED <<vmVars, callVars, executor, now, born, registered, freed, exposed>>
    BY <1>1 DEF Start, Use
  <2> HIDE DEF t
  <2>2. t \in Timers /\ Tail(queue[w]) \in Seq(Timers) /\ In(queue[w]) = {t} \cup In(Tail(queue[w]))
    BY <1>0, <2>1, InTail DEF t
  <2>3. /\ queue' \in [VMs -> Seq(Timers)] /\ \A u \in VMs : In(queue'[u]) \subseteq In(queue[u])
        /\ wpc' \in [VMs -> {"none", "idle", "run", "due", "callback", "stuck"}]
        /\ \A u \in VMs : wpc'[u] # "run" => wpc'[u] = wpc[u]
    BY <1>0, <2>1, <2>2
  <2>4. t \in freed => t \in exposed
    BY <2>2 DEF UseInv
  <2>5. NowInv' /\ UseInv'
    BY <2>1, <2>3, <2>4 DEF NowInv, UseInv
  <2> QED BY <1>0, <1>t, <1>f, <2>1, <2>2, <2>3, <2>5
<1>2. ASSUME NEW t \in Timers, Due(w, t) PROVE IInv'
  <2>1. /\ t \in armed /\ armed' \subseteq armed /\ wpc' = [wpc EXCEPT ![w] = "due"]
        /\ now' = [now EXCEPT ![w] = t]
        /\ UNCHANGED <<vmVars, callVars, executor, queue, born, registered, freed, exposed, touched>>
    BY <1>2 DEF Due
  <2>2. /\ wpc' \in [VMs -> {"none", "idle", "run", "due", "callback", "stuck"}]
        /\ now' \in [VMs -> Timers \cup {NoTimer}] /\ now'[w] = t
        /\ \A u \in VMs \ {w} : wpc'[u] = wpc[u] /\ now'[u] = now[u]
    BY <1>0, <2>1
  <2>3. NowInv' /\ UseInv'
    BY <2>1, <2>2 DEF NowInv, UseInv
  <2> QED BY <1>0, <1>t, <1>f, <2>1, <2>2, <2>3
<1>3. CASE Callback(w)
  <2>1. /\ wpc[w] = "due" /\ wpc' = [wpc EXCEPT ![w] = "callback"]
        /\ touched' = (IF now[w] \in freed THEN touched \cup {now[w]} ELSE touched)
        /\ UNCHANGED <<vmVars, callVars, executor, queue, now, born, registered, armed, freed, exposed>>
    BY <1>3 DEF Callback, Use
  <2>2. /\ wpc' \in [VMs -> {"none", "idle", "run", "due", "callback", "stuck"}]
        /\ wpc'[w] = "callback" /\ \A u \in VMs \ {w} : wpc'[u] = wpc[u]
    BY <1>0, <2>1
  <2>3. NowInv' /\ UseInv'
    BY <2>1, <2>2 DEF NowInv, UseInv
  <2> QED BY <1>0, <1>t, <1>f, <2>1, <2>2, <2>3
<1>4. CASE CallbackEnd(w)
  <2>1. /\ wpc' = [wpc EXCEPT ![w] = "run"] /\ now' = [now EXCEPT ![w] = NoTimer]
        /\ UNCHANGED <<vmVars, callVars, executor, queue, timerVars>>
    BY <1>4 DEF CallbackEnd
  <2>2. /\ wpc' \in [VMs -> {"none", "idle", "run", "due", "callback", "stuck"}]
        /\ now' \in [VMs -> Timers \cup {NoTimer}] /\ wpc'[w] = "run"
        /\ \A u \in VMs \ {w} : wpc'[u] = wpc[u] /\ now'[u] = now[u]
    BY <1>0, <2>1
  <2>3. UNCHANGED <<born, registered, armed, freed, exposed, touched>>
    BY <2>1 DEF timerVars
  <2>4. NowInv' /\ UseInv'
    BY <2>1, <2>2, <2>3 DEF NowInv, UseInv
  <2> QED BY <1>0, <1>t, <1>f, <2>1, <2>2, <2>3, <2>4
<1>5. CASE RunEnd(w)
  <2>1. /\ wpc' = [wpc EXCEPT ![w] = "idle"]
        /\ UNCHANGED <<vmVars, callVars, executor, queue, now, born, registered, armed, freed, exposed, touched>>
    BY <1>5 DEF RunEnd
  <2>2. /\ wpc' \in [VMs -> {"none", "idle", "run", "due", "callback", "stuck"}]
        /\ wpc'[w] = "idle" /\ \A u \in VMs \ {w} : wpc'[u] = wpc[u]
    BY <1>0, <2>1
  <2>3. NowInv' /\ UseInv'
    BY <2>1, <2>2 DEF NowInv, UseInv
  <2> QED BY <1>0, <1>t, <1>f, <2>1, <2>2, <2>3
<1>6. CASE CallbackClears(w)
  <2>1. /\ Clear /\ UNCHANGED <<vmVars, callVars, executor, queue, wpc, now, born, touched>>
    BY <1>6 DEF CallbackClears, workVars
  <2>2. /\ registered' = {} /\ registered' \cup freed' = registered \cup freed
        /\ armed' \subseteq armed /\ freed' \subseteq Timers /\ BornInv' /\ UseInv'
    BY <2>1, ClearStep
  <2>3. NowInv' /\ AddingInv'
    BY <2>1, <2>2 DEF NowInv, AddingInv, Adding, callVars
  <2> QED BY <1>0, <1>t, <2>1, <2>2, <2>3
<1>7. ASSUME NEW t \in Timers, CallbackAdds(w, t) PROVE IInv'
  <2>1. /\ wpc[w] = "callback" /\ born[t] = 0 /\ born' = [born EXCEPT ![t] = born[now[w]]]
        /\ wpc' = [wpc EXCEPT ![w] = IF executor = 0 THEN @ ELSE "stuck"]
        /\ UNCHANGED <<vmVars, callVars, executor, queue, now, registered, armed, freed, exposed, touched>>
    BY <1>7 DEF CallbackAdds, NewTimer
  <2>2. born' \in [Timers -> 0 .. MaxVMs] /\ \A u \in Timers \ {t} : born'[u] = born[u]
    BY <1>0, <2>1 DEF NowInv
  <2>3. /\ wpc' \in [VMs -> {"none", "idle", "run", "due", "callback", "stuck"}]
        /\ \A u \in VMs : wpc'[u] # "stuck" => wpc'[u] = wpc[u]
    BY <1>0, <2>1
  <2>4. BornInv' /\ AddingInv'
    BY <1>0, <2>1, <2>2 DEF BornInv, AddingInv, Adding, callVars
  <2>5. NowInv' /\ UseInv'
    BY <2>1, <2>3 DEF NowInv, UseInv
  <2> QED BY <1>0, <1>t, <2>1, <2>2, <2>3, <2>4, <2>5
<1> QED BY <1>1, <1>2, <1>3, <1>4, <1>5, <1>6, <1>7 DEF WorkerStep

(* The inductive invariant holds in every state. *)
LEMMA Invariance == Spec => []IInv
<1>1. IInv /\ [Next]_vars => IInv'
  <2> SUFFICES ASSUME IInv, [Next]_vars PROVE IInv'
    OBVIOUS
  <2>1. CASE Next
    BY <2>1, OwnerStep, EnterStep, LuaStep, EndStep, LoopStep DEF Next, CallerStep
  <2>2. CASE UNCHANGED vars
    <3>1. TypeInv'
      BY <2>2 DEF vars, vmVars, callVars, workVars, timerVars, IInv, TypeInv
    <3>2. OwnerInv' /\ AddingInv'
      BY <2>2 DEF vars, vmVars, callVars, timerVars, IInv, OwnerInv, AddingInv, Adding
    <3> QED BY <2>2, <3>1, <3>2, Frames DEF vars, IInv
  <2> QED BY <2>1, <2>2
<1> QED BY InitIInv, <1>1, PTL DEF Spec

(* What the loop's list leads to: one of its ends is freed only as an end, or  *)
(* was initialised when it was freed already.                                  *)
LinkInv ==
  /\ {first, last} \cap freed \subseteq atEnd \cup touched
  /\ written \subseteq atEnd \cup touched

(* Every step keeps that. *)
LEMMA LinkStep == IInv /\ LinkInv /\ [Next]_vars => LinkInv'
<1> SUFFICES ASSUME IInv, LinkInv, [Next]_vars PROVE LinkInv'
  OBVIOUS
<1>1. ASSUME UNCHANGED <<freed, linkVars>>, touched \subseteq touched' PROVE LinkInv'
  BY <1>1 DEF LinkInv, linkVars
<1>2. ASSUME Clear, UNCHANGED touched PROVE LinkInv'
  BY <1>2 DEF LinkInv, Clear
<1>3. ASSUME NEW c \in Callers, Enter(c) PROVE LinkInv'
  <2>1. /\ UNCHANGED <<freed, touched, atEnd, written>>
        /\ (first' = first /\ last' = last) \/ (first' = NoTimer /\ last' = NoTimer)
    BY <1>3 DEF Enter, MakeVM
  <2>2. NoTimer \notin freed
    BY DEF IInv, TypeInv
  <2> QED BY <2>1, <2>2 DEF LinkInv
<1>4. ASSUME NEW c \in Callers, EndStop(c) PROVE LinkInv'
  <2>1. /\ UNCHANGED <<freed, touched, first, last, atEnd>>
        /\ written' \subseteq written \cup ({first} \cap freed)
    BY <1>4 DEF EndStop
  <2> QED BY <2>1 DEF LinkInv
<1>5. ASSUME NEW c \in Callers,
             CallerStep(c) \/ Enter(c) \/ Release(c) \/ ClearBy(c) \/ \E t \in Timers : Add(c, t)
      PROVE  LinkInv'
  <2>1. CASE EndClear(c) \/ ClearBy(c)
    BY <1>2, <2>1 DEF EndClear, ClearBy
  <2>2. CASE \/ Lock(c) \/ LockFails(c) \/ LuaEnd(c) \/ Submit(c) \/ Insert(c) \/ Leave(c) \/ Release(c)
             \/ EndReset(c) \/ EndJoin(c) \/ \E t \in Timers : Add(c, t)
    <3>1. UNCHANGED <<freed, touched, linkVars>>
      BY <2>2 DEF Lock, LockFails, LuaEnd, Submit, Insert, Leave, Release, EndReset, EndJoin, Add, timerVars
    <3> QED BY <1>1, <3>1
  <2> QED BY <1>3, <1>4, <1>5, <2>1, <2>2 DEF CallerStep
<1>6. ASSUME NEW w \in VMs, Start(w) PROVE LinkInv'
  <2> DEFINE t == Head(queue[w])
  <2>1. /\ UNCHANGED <<freed, atEnd>> /\ touched \subseteq touched' /\ (t \in freed => t \in touched')
        /\ first' \in {first, t} /\ last' = t
        /\ written' = written \cup ({last} \cap freed)
    BY <1>6 DEF Start, Use, Link
  <2> HIDE DEF t
  <2> QED BY <2>1 DEF LinkInv
<1>7. ASSUME NEW w \in VMs,
             WorkerStep(w) \/ CallbackClears(w) \/ \E t \in Timers : CallbackAdds(w, t)
      PROVE  LinkInv'
  <2>1. CASE CallbackClears(w)
    BY <1>2, <2>1 DEF CallbackClears
  <2>2. CASE \/ Callback(w) \/ CallbackEnd(w) \/ RunEnd(w)
             \/ \E t \in Timers : Due(w, t) \/ CallbackAdds(w, t)
    <3>1. UNCHANGED <<freed, linkVars>> /\ touched \subseteq touched'
      BY <2>2 DEF Callback, CallbackEnd, RunEnd, Due, CallbackAdds, Use, timerVars
    <3> QED BY <1>1, <3>1
  <2> QED BY <1>6, <1>7, <2>1, <2>2 DEF WorkerStep
<1>8. CASE UNCHANGED vars
  BY <1>1, <1>8 DEF vars, timerVars
<1> QED BY <1>5, <1>7, <1>8 DEF Next

(* For any number of timers and VMs: a freed timer is used by its own task or  *)
(* callback only if that was to come when it was freed, and by libuv's list    *)
(* only if it was freed at one of the ends of it.                              *)
THEOREM LateUsesExplained == Spec => []UsesExplained
<1>1. Init => LinkInv
  BY DEF Init, LinkInv
<1>2. IInv /\ LinkInv => UsesExplained
  BY DEF IInv, UseInv, LinkInv, UsesExplained
<1> QED BY <1>1, <1>2, LinkStep, Invariance, PTL DEF Spec

(* The other variables: a caller that could not lock stops short of RetryCount, *)
(* and only Executors are told to stop.                                         *)
TypeRest ==
  /\ bridgeOwner \in Callers \cup {Nobody} /\ calls \in 0 .. MaxCalls
  /\ tries \in [Callers -> 0 .. RetryCount - 1]
  /\ stopping \subseteq VMs /\ stopFlag \in BOOLEAN /\ crossed \in BOOLEAN
  /\ lost \subseteq Timers /\ exposed \subseteq Timers

(* What is known of the loop's list, and of the Lua states. *)
TypeLinks ==
  /\ {first, last} \subseteq Timers \cup {NoTimer}
  /\ atEnd \subseteq Timers /\ written \subseteq Timers /\ met \subseteq VMs

(* Every step keeps their types. *)
LEMMA RestKept ==
  ASSUME IInv, TypeRest, [Next]_vars
  PROVE  TypeRest'
<1>0. executor \in 0 .. MaxVMs /\ registered \subseteq Timers
  BY DEF IInv, TypeInv
<1>1. CASE UNCHANGED vars
  BY <1>1 DEF vars, vmVars, callVars, workVars, timerVars, TypeRest
<1>2. ASSUME NEW c \in Callers,
             CallerStep(c) \/ Enter(c) \/ Release(c) \/ ClearBy(c) \/ \E t \in Timers : Add(c, t)
      PROVE  TypeRest'
  <2>1. \/ bridgeOwner' = bridgeOwner \/ bridgeOwner' = c \/ bridgeOwner' = Nobody
    BY <1>2 DEF CallerStep, Lock, LockFails, LuaEnd, Submit, Insert, ClearBy, Release, Leave,
          EndClear, EndStop, EndReset, EndJoin, Add, Enter, vmVars
  <2>2. calls' = calls \/ (calls < MaxCalls /\ calls' = calls + 1)
    BY <1>2 DEF CallerStep, Lock, LockFails, LuaEnd, Submit, Insert, ClearBy, Release, Leave,
          EndClear, EndStop, EndReset, EndJoin, Add, Enter, vmVars
  <2>3. \/ tries' = tries \/ tries' = [tries EXCEPT ![c] = 0]
        \/ /\ tries[c] + 1 < RetryCount
           /\ tries' = [tries EXCEPT ![c] = tries[c] + 1]
    BY <1>2 DEF CallerStep, Lock, LockFails, LuaEnd, Submit, Insert, ClearBy, Release, Leave,
          EndClear, EndStop, EndReset, EndJoin, Add, Enter, callVars
  <2>4. stopping' = stopping \/ stopping' = stopping \cup ({executor} \ {0})
    BY <1>2 DEF CallerStep, Lock, LockFails, LuaEnd, Submit, Insert, ClearBy, Release, Leave,
          EndClear, EndStop, EndReset, EndJoin, Add, Enter, workVars
  <2>5. lost' = lost \/ \E t \in Timers : lost' = lost \cup {t}
    BY <1>2 DEF CallerStep, Lock, LockFails, LuaEnd, Submit, Insert, ClearBy, Release, Leave,
          EndClear, EndStop, EndReset, EndJoin, Add, NewTimer, Enter, timerVars
  <2>6. exposed' = exposed \/ exposed' = exposed \cup {t \in registered : Coming(t)}
    BY <1>2 DEF CallerStep, Lock, LockFails, LuaEnd, Submit, Insert, ClearBy, Release, Leave,
          EndClear, EndStop, EndReset, EndJoin, Add, Enter, Clear, timerVars
  <2>7. stopFlag' = stopFlag \/ stopFlag' = FALSE \/ stopFlag' = (stopFlag \/ armed # {})
    BY <1>2 DEF CallerStep, Lock, LockFails, LuaEnd, Submit, Insert, ClearBy, Release, Leave,
          EndClear, EndStop, EndReset, EndJoin, Add, Enter, MakeVM, timerVars
  <2>8. crossed' = crossed \/ crossed' = (crossed \/ \E u \in VMs : Alive(u))
    BY <1>2 DEF CallerStep, Lock, LockFails, LuaEnd, Submit, Insert, ClearBy, Release, Leave,
          EndClear, EndStop, EndReset, EndJoin, Add, Enter, MakeVM, vmVars
  <2>9. bridgeOwner' \in Callers \cup {Nobody} /\ calls' \in 0 .. MaxCalls
    BY <2>1, <2>2 DEF TypeRest
  <2>10. tries' \in [Callers -> 0 .. RetryCount - 1]
    <3>1. tries \in [Callers -> 0 .. RetryCount - 1] /\ 0 \in 0 .. RetryCount - 1
      BY DEF TypeRest
    <3>2. tries[c] + 1 < RetryCount => tries[c] + 1 \in 0 .. RetryCount - 1
      BY <3>1
    <3> QED BY <2>3, <3>1, <3>2
  <2>11. stopping' \subseteq VMs /\ lost' \subseteq Timers /\ exposed' \subseteq Timers
    <3>1. {executor} \ {0} \subseteq VMs
      BY <1>0
    <3>2. stopping' \subseteq VMs
      BY <2>4, <3>1 DEF TypeRest
    <3>3. lost' \subseteq Timers
      BY <2>5 DEF TypeRest
    <3>4. exposed' \subseteq Timers
      BY <1>0, <2>6 DEF TypeRest
    <3> QED BY <3>2, <3>3, <3>4
  <2>12. stopFlag' \in BOOLEAN /\ crossed' \in BOOLEAN
    BY <2>7, <2>8 DEF TypeRest
  <2> QED BY <2>9, <2>10, <2>11, <2>12 DEF TypeRest
<1>3. ASSUME NEW w \in VMs,
             WorkerStep(w) \/ CallbackClears(w) \/ \E t \in Timers : CallbackAdds(w, t)
      PROVE  TypeRest'
  <2>1. UNCHANGED <<vmVars, callVars, stopping>>
    BY <1>3 DEF WorkerStep, Start, Due, Callback, CallbackEnd, RunEnd, CallbackClears,
                CallbackAdds, workVars
  <2>2. /\ stopFlag' = stopFlag \/ stopFlag' = FALSE
        /\ lost' = lost \/ \E t \in Timers : lost' = lost \cup {t}
        /\ exposed' = exposed \/ exposed' = exposed \cup {t \in registered : Coming(t)}
    BY <1>3 DEF WorkerStep, Start, Due, Callback, CallbackEnd, RunEnd, CallbackClears,
                CallbackAdds, NewTimer, Clear, timerVars
  <2> QED BY <1>0, <2>1, <2>2 DEF TypeRest, vmVars, callVars
<1> QED BY <1>1, <1>2, <1>3 DEF Next

(* The list holds timers, and so does what was freed at its ends. *)
LEMMA LinksKept == IInv /\ TypeLinks /\ [Next]_vars => TypeLinks'
<1> SUFFICES ASSUME IInv, TypeLinks, [Next]_vars PROVE TypeLinks'
  OBVIOUS
<1>0. /\ queue \in [VMs -> Seq(Timers)] /\ freed \subseteq Timers /\ registered \subseteq Timers
  BY DEF IInv, TypeInv
<1>1. ASSUME NEW c \in Callers,
             CallerStep(c) \/ Enter(c) \/ Release(c) \/ ClearBy(c) \/ \E t \in Timers : Add(c, t)
      PROVE  TypeLinks'
  <2>1. /\ first' \in {first, NoTimer} /\ last' \in {last, NoTimer}
        /\ atEnd' \subseteq atEnd \cup registered /\ written' \subseteq written \cup freed
    BY <1>1 DEF CallerStep, Lock, LockFails, LuaEnd, Submit, Insert, ClearBy, Release, Leave,
          EndClear, EndStop, EndReset, EndJoin, Add, Enter, MakeVM, Clear, timerVars, linkVars
  <2>2. met' \subseteq met \cup VMs
    BY <1>1 DEF CallerStep, Lock, LockFails, LuaEnd, Submit, Insert, ClearBy, Release, Leave,
          EndClear, EndStop, EndReset, EndJoin, Add, Enter, Unref, timerVars
  <2> QED BY <1>0, <2>1, <2>2 DEF TypeLinks
<1>2. ASSUME NEW w \in VMs, Start(w) PROVE TypeLinks'
  <2> DEFINE t == Head(queue[w])
  <2>1. t \in Timers
    BY <1>0, <1>2, InTail DEF Start
  <2>2. /\ first' \in {first, t} /\ last' = t /\ written' \subseteq written \cup freed
        /\ UNCHANGED <<atEnd, met>>
    BY <1>2 DEF Start, Link
  <2> HIDE DEF t
  <2> QED BY <1>0, <2>1, <2>2 DEF TypeLinks
<1>3. ASSUME NEW w \in VMs, ~Start(w),
             WorkerStep(w) \/ CallbackClears(w) \/ \E t \in Timers : CallbackAdds(w, t)
      PROVE  TypeLinks'
  <2>1. UNCHANGED <<first, last, written, met>> /\ atEnd' \subseteq atEnd \cup registered
    BY <1>3 DEF WorkerStep, Due, Callback, CallbackEnd, RunEnd, CallbackClears,
                CallbackAdds, Clear, timerVars, linkVars
  <2> QED BY <1>0, <2>1 DEF TypeLinks
<1>4. CASE UNCHANGED vars
  BY <1>4 DEF vars, timerVars, linkVars, TypeLinks
<1> QED BY <1>1, <1>2, <1>3, <1>4 DEF Next

(* For any number of threads, VMs, calls and timers every variable has its type. *)
TypeOK == TypeInv /\ TypeRest /\ TypeLinks /\ touched \subseteq Timers
THEOREM TypeCorrect == Spec => []TypeOK
<1>1. Init => TypeRest
  <2> SUFFICES ASSUME Init PROVE TypeRest
    OBVIOUS
  <2>1. calls \in 0 .. MaxCalls /\ tries \in [Callers -> 0 .. RetryCount - 1]
    <3>1. 0 \in 0 .. MaxCalls /\ 0 \in 0 .. RetryCount - 1
      OBVIOUS
    <3> QED BY <3>1 DEF Init
  <2> QED BY <2>1 DEF Init, TypeRest
<1>2. IInv /\ TypeRest /\ [Next]_vars => TypeRest'
  BY RestKept
<1>3. Init => TypeLinks
  BY DEF Init, TypeLinks
<1>4. IInv /\ TypeRest /\ TypeLinks => TypeOK
  BY DEF IInv, UseInv, TypeRest, TypeOK
<1> QED BY <1>1, <1>2, <1>3, <1>4, LinksKept, Invariance, PTL DEF Spec
-----------------------------------------------------------------------------
Ending == {"clear", "stop", "reset", "join"}

(* Whoever is inside refers to a VM that was made. *)
HoldInv ==
  /\ bridge <= made
  /\ \A c \in Callers : vm[c] <= made /\ (pc[c] = "idle" <=> vm[c] = 0)

(* The last reference destroys: nobody else has one, nor has the bridge. *)
GoneInv ==
  \A c \in Callers : pc[c] \in Ending =>
    vm[c] # bridge /\ \A d \in Callers \ {c} : vm[d] # vm[c]

(* One VM is alive, unless one was made before another was gone. *)
AliveInv == \A u, v \in VMs : Alive(u) /\ Alive(v) => u = v \/ crossed

VMInv == HoldInv /\ GoneInv /\ AliveInv /\ TimersServed

(* A step that leaves the VMs alone, and begins no destruction. *)
LEMMA SameVMs ==
  ASSUME VMInv, UNCHANGED <<bridge, made, vm, crossed, executor>>,
         \A d \in Callers : /\ pc'[d] = "idle" <=> pc[d] = "idle"
                            /\ pc'[d] \in Ending => pc[d] \in Ending
  PROVE  VMInv'
<1> USE DEF VMInv
<1>1. HoldInv'
  BY DEF HoldInv
<1>2. GoneInv'
  BY DEF GoneInv
<1>3. AliveInv'
  BY DEF AliveInv, Alive
<1>4. TimersServed'
  BY DEF TimersServed
<1> QED BY <1>1, <1>2, <1>3, <1>4

(* A caller in the middle of a call or of a destructor. *)
LEMMA InnerVMs ==
  ASSUME IInv, VMInv, NEW c \in Callers,
         \/ Lock(c) \/ LockFails(c) \/ LuaEnd(c) \/ Submit(c) \/ Insert(c) \/ ClearBy(c)
         \/ EndClear(c) \/ EndStop(c) \/ \E t \in Timers : Add(c, t)
  PROVE  VMInv'
<1>0. pc \in [Callers -> Places]
  BY DEF IInv, TypeInv
<1>1. UNCHANGED <<bridge, made, vm, crossed, executor>>
  BY DEF Lock, LockFails, LuaEnd, Submit, Insert, ClearBy, EndClear, EndStop, Add, vmVars
<1>2. \/ pc' = pc
      \/ /\ pc[c] \in Inside \cup {"lock"}
         /\ \E l \in {"lua", "leave", "insert", "submit"} : pc' = [pc EXCEPT ![c] = l]
      \/ /\ pc[c] \in {"clear", "stop"}
         /\ \E l \in {"stop", "reset"} : pc' = [pc EXCEPT ![c] = l]
  BY DEF Lock, LockFails, LuaEnd, Submit, Insert, ClearBy, EndClear, EndStop, Add, Goto, Inside, callVars
<1>3. \A d \in Callers : /\ pc'[d] = "idle" <=> pc[d] = "idle"
                         /\ pc'[d] \in Ending => pc[d] \in Ending
  BY <1>0, <1>2 DEF Ending, Inside
<1> QED BY <1>1, <1>3, SameVMs

(* A caller enters. *)
LEMMA EnterVMs ==
  ASSUME IInv, VMInv, NEW c \in Callers, Enter(c)
  PROVE  VMInv'
<1> USE DEF VMInv
<1>0. /\ bridge \in 0 .. MaxVMs /\ made \in 0 .. MaxVMs /\ vm \in [Callers -> 0 .. MaxVMs]
      /\ pc \in [Callers -> Places]
  BY DEF IInv, TypeInv
<1>1. /\ pc[c] = "idle" /\ vm' = [vm EXCEPT ![c] = bridge'] /\ pc' = [pc EXCEPT ![c] = "lock"]
      /\ vm'[c] = bridge' /\ pc'[c] = "lock"
      /\ \A d \in Callers \ {c} : vm'[d] = vm[d] /\ pc'[d] = pc[d]
  BY <1>0 DEF Enter
<1>2. CASE bridge # 0 /\ UNCHANGED <<bridge, made, crossed, executor>>
  <2>1. HoldInv'
    BY <1>0, <1>1, <1>2 DEF HoldInv
  <2>2. GoneInv'
    BY <1>1, <1>2 DEF GoneInv, Ending
  <2>3. \A u \in VMs : Alive(u)' => Alive(u)
    BY <1>1, <1>2 DEF Alive
  <2>4. AliveInv'
    BY <1>2, <2>3 DEF AliveInv
  <2>5. TimersServed'
    BY <1>2 DEF TimersServed
  <2> QED BY <2>1, <2>2, <2>4, <2>5
<1>3. CASE bridge = 0 /\ made < MaxVMs /\ MakeVM(made + 1)
  <2>1. /\ bridge' = made + 1 /\ made' = made + 1 /\ executor' = made + 1
        /\ crossed' = (crossed \/ \E u \in VMs : Alive(u))
    BY <1>3 DEF MakeVM
  <2>2. HoldInv'
    <3>1. \A d \in Callers : vm'[d] <= made' /\ (pc'[d] = "idle" <=> vm'[d] = 0)
      BY <1>0, <1>1, <2>1 DEF HoldInv
    <3> QED BY <1>0, <2>1, <3>1 DEF HoldInv
  <2>3. GoneInv'
    BY <1>0, <1>1, <2>1 DEF GoneInv, HoldInv, Ending
  <2>4. \A u \in VMs : Alive(u)' => Alive(u) \/ u = made + 1
    BY <1>1, <2>1 DEF Alive
  <2>5. AliveInv'
    BY <2>1, <2>4 DEF AliveInv
  <2>6. TimersServed'
    BY <1>0, <2>1 DEF TimersServed
  <2> QED BY <2>2, <2>3, <2>5, <2>6
<1> QED BY <1>2, <1>3 DEF Enter

(* A VM is released, and its last reference dropped. *)
LEMMA LeaveVMs ==
  ASSUME IInv, VMInv, NEW c \in Callers, Release(c) \/ Leave(c)
  PROVE  VMInv'
<1> USE DEF VMInv
<1>0. /\ bridge \in 0 .. MaxVMs /\ made \in 0 .. MaxVMs /\ vm \in [Callers -> 0 .. MaxVMs]
      /\ pc \in [Callers -> Places]
  BY DEF IInv, TypeInv
<1>1. CASE Release(c)
  <2>1. /\ pc[c] = "idle" /\ bridge # 0 /\ bridge' = 0
        /\ UNCHANGED <<made, crossed, executor>>
        /\ \/ /\ \A d \in Callers : vm[d] # bridge
              /\ vm' = [vm EXCEPT ![c] = bridge] /\ pc' = [pc EXCEPT ![c] = "clear"]
           \/ vm' = vm /\ pc' = pc
    BY <1>1 DEF Release
  <2>2. HoldInv'
    BY <1>0, <2>1 DEF HoldInv
  <2>3. GoneInv'
    <3>1. CASE vm' = vm /\ pc' = pc
      BY <1>0, <2>1, <3>1 DEF GoneInv, HoldInv, Ending
    <3>2. CASE /\ \A d \in Callers : vm[d] # bridge
               /\ vm' = [vm EXCEPT ![c] = bridge] /\ pc' = [pc EXCEPT ![c] = "clear"]
      <4>1. /\ vm'[c] = bridge
            /\ \A d \in Callers \ {c} : vm'[d] = vm[d] /\ pc'[d] = pc[d]
        BY <1>0, <3>2
      <4>2. \A d \in Callers \ {c} : pc[d] \in Ending => vm[d] # 0
        BY DEF HoldInv, Ending
      <4> QED BY <2>1, <3>2, <4>1, <4>2 DEF GoneInv
    <3> QED BY <2>1, <3>1, <3>2
  <2>4. \A u \in VMs : Alive(u)' => Alive(u)
    BY <1>0, <2>1 DEF Alive
  <2>5. AliveInv'
    BY <2>1, <2>4 DEF AliveInv
  <2>6. TimersServed'
    BY <2>1 DEF TimersServed
  <2> QED BY <2>2, <2>3, <2>5, <2>6
<1>2. CASE Leave(c)
  <2>1. /\ pc[c] = "leave" /\ UNCHANGED <<bridge, made, crossed, executor>>
        /\ \/ vm' = [vm EXCEPT ![c] = 0] /\ pc' = [pc EXCEPT ![c] = "idle"]
           \/ /\ bridge # vm[c] /\ \A d \in Callers \ {c} : vm[d] # vm[c]
              /\ vm' = vm /\ pc' = [pc EXCEPT ![c] = "clear"]
    BY <1>2 DEF Leave
  <2>2. HoldInv'
    BY <1>0, <2>1 DEF HoldInv
  <2>3. GoneInv'
    <3>1. CASE vm' = [vm EXCEPT ![c] = 0] /\ pc' = [pc EXCEPT ![c] = "idle"]
      <4>1. \A d \in Callers : pc[d] \in Ending => vm[d] # 0
        BY DEF HoldInv, Ending
      <4> QED BY <1>0, <2>1, <3>1, <4>1 DEF GoneInv, Ending
    <3>2. CASE /\ bridge # vm[c] /\ \A d \in Callers \ {c} : vm[d] # vm[c]
               /\ vm' = vm /\ pc' = [pc EXCEPT ![c] = "clear"]
      BY <1>0, <2>1, <3>2 DEF GoneInv
    <3> QED BY <2>1, <3>1, <3>2
  <2>4. \A u \in VMs : Alive(u)' => Alive(u)
    BY <1>0, <2>1 DEF Alive
  <2>5. AliveInv'
    BY <2>1, <2>4 DEF AliveInv
  <2>6. TimersServed'
    BY <2>1 DEF TimersServed
  <2> QED BY <2>2, <2>3, <2>5, <2>6
<1> QED BY <1>1, <1>2

(* The end of a destructor: the Executor that it takes may be another VM's. *)
LEMMA EndVMs ==
  ASSUME IInv, VMInv, NEW c \in Callers, EndReset(c) \/ EndJoin(c)
  PROVE  VMInv'
<1> USE DEF VMInv
<1>0. /\ bridge \in 0 .. MaxVMs /\ made \in 0 .. MaxVMs /\ vm \in [Callers -> 0 .. MaxVMs]
      /\ pc \in [Callers -> Places]
  BY DEF IInv, TypeInv
<1>1. CASE EndReset(c)
  <2>1. /\ pc[c] = "reset" /\ pc' = [pc EXCEPT ![c] = "join"] /\ executor' = 0
        /\ UNCHANGED <<bridge, made, vm, crossed>>
    BY <1>1 DEF EndReset, Goto, vmVars
  <2>2. HoldInv'
    BY <1>0, <2>1 DEF HoldInv
  <2>3. GoneInv'
    BY <1>0, <2>1 DEF GoneInv, Ending
  <2>4. AliveInv'
    BY <2>1 DEF AliveInv, Alive
  <2>5. TimersServed'
    <3>1. vm[c] \in VMs /\ Alive(vm[c]) /\ vm[c] # bridge
      BY <1>0, <2>1 DEF HoldInv, GoneInv, Ending, Alive
    <3>2. bridge # 0 => bridge \in VMs /\ Alive(bridge)
      BY <1>0 DEF Alive
    <3>3. bridge # 0 => crossed
      BY <3>1, <3>2 DEF AliveInv
    <3> QED BY <2>1, <3>3 DEF TimersServed
  <2> QED BY <2>2, <2>3, <2>4, <2>5
<1>2. CASE EndJoin(c)
  <2>1. /\ pc[c] = "join" /\ pc' = [pc EXCEPT ![c] = "idle"] /\ vm' = [vm EXCEPT ![c] = 0]
        /\ UNCHANGED <<bridge, made, crossed, executor>>
    BY <1>2 DEF EndJoin, Goto
  <2>2. HoldInv'
    BY <1>0, <2>1 DEF HoldInv
  <2>3. GoneInv'
    <3>1. \A d \in Callers : pc[d] \in Ending => vm[d] # 0
      BY DEF HoldInv, Ending
    <3> QED BY <1>0, <2>1, <3>1 DEF GoneInv, Ending
  <2>4. \A u \in VMs : Alive(u)' => Alive(u)
    BY <1>0, <2>1 DEF Alive
  <2>5. AliveInv'
    BY <2>1, <2>4 DEF AliveInv
  <2>6. TimersServed'
    BY <2>1 DEF TimersServed
  <2> QED BY <2>2, <2>3, <2>5, <2>6
<1> QED BY <1>1, <1>2

(* Every step keeps what is said of the VMs. *)
LEMMA StepVMs ==
  ASSUME IInv, VMInv, [Next]_vars
  PROVE  VMInv'
<1>1. CASE UNCHANGED vars
  BY <1>1, SameVMs DEF vars, vmVars, callVars
<1>2. ASSUME NEW c \in Callers,
             CallerStep(c) \/ Enter(c) \/ Release(c) \/ ClearBy(c) \/ \E t \in Timers : Add(c, t)
      PROVE  VMInv'
  BY <1>2, InnerVMs, EnterVMs, LeaveVMs, EndVMs DEF CallerStep
<1>3. ASSUME NEW w \in VMs,
             WorkerStep(w) \/ CallbackClears(w) \/ \E t \in Timers : CallbackAdds(w, t)
      PROVE  VMInv'
  <2>1. UNCHANGED <<vmVars, callVars, executor>>
    BY <1>3 DEF WorkerStep, Start, Due, Callback, CallbackEnd, RunEnd, CallbackClears, CallbackAdds
  <2> QED BY <2>1, SameVMs DEF vmVars, callVars
<1> QED BY <1>1, <1>2, <1>3 DEF Next

(* What is said of the VMs holds in every state. *)
LEMMA VMsInvariant == Spec => []VMInv
<1>1. Init => VMInv
  BY DEF Init, VMInv, HoldInv, GoneInv, AliveInv, Alive, TimersServed, Ending
<1>2. IInv /\ VMInv /\ [Next]_vars => VMInv'
  BY StepVMs
<1> QED BY <1>1, <1>2, Invariance, PTL DEF Spec

(* For any number of threads and VMs: the bridge holds a VM that has no        *)
(* Executor for its timers only after a VM was made while another was alive.   *)
THEOREM TimersAreServed == Spec => []TimersServed
<1>1. VMInv => TimersServed
  BY DEF VMInv
<1> QED BY <1>1, VMsInvariant, PTL
-----------------------------------------------------------------------------
(* Somebody may still clear the timers, or at least reset the Executor. *)
Done == {"idle", "stop", "reset", "join"}
Open == bridge # 0 \/ \E c \in Callers : pc[c] \notin Done
Resets == bridge # 0 \/ \E c \in Callers : pc[c] \notin {"idle", "join"}

(* The Executor that is there will be reset; a Worker that is there is its    *)
(* Worker, or one that a destructor has stopped and joins.                    *)
Busy(w) == wpc[w] \notin {"none", "idle"}
Joins(c, w) == pc[c] = "join" /\ worker[c] = w
ExecInv == executor # 0 => Resets
WorkInv == \A w \in VMs : wpc[w] # "none" => w = executor \/ \E c \in Callers : Joins(c, w)
JoinInv == \A c \in Callers : pc[c] = "join" => worker[c] \in stopping \cup {0}
RunInv == \A w \in VMs : Busy(w) => executor \in {0, w}
WorkerInv == ExecInv /\ WorkInv /\ JoinInv /\ RunInv

(* A VM that has been there is cleared by whoever drops it last. *)
LEMMA OpenStays ==
  ASSUME IInv, VMInv, [Next]_vars
  PROVE  /\ Open => Open' \/ registered' = {}
         /\ Resets => Resets' \/ executor' = 0
<1>0. /\ vm \in [Callers -> 0 .. MaxVMs] /\ pc \in [Callers -> Places] /\ made \in 0 .. MaxVMs
  BY DEF IInv, TypeInv
<1>1. CASE UNCHANGED <<vmVars, callVars>>
  BY <1>1 DEF vmVars, callVars, Open, Resets
<1>2. ASSUME NEW c \in Callers,
             \/ Lock(c) \/ LockFails(c) \/ LuaEnd(c) \/ Submit(c) \/ Insert(c) \/ ClearBy(c)
             \/ \E t \in Timers : Add(c, t)
      PROVE  (Open => Open') /\ (Resets => Resets')
  <2>1. /\ bridge' = bridge
        /\ \/ pc' = pc
           \/ \E l \in {"lua", "leave", "insert", "submit"} : pc' = [pc EXCEPT ![c] = l]
    BY <1>2 DEF Lock, LockFails, LuaEnd, Submit, Insert, ClearBy, Add, Goto, vmVars, callVars
  <2>2. CASE pc' = pc
    BY <2>1, <2>2 DEF Open, Resets
  <2>3. CASE \E l \in {"lua", "leave", "insert", "submit"} : pc' = [pc EXCEPT ![c] = l]
    <3>1. pc'[c] \notin Done /\ pc'[c] \notin {"idle", "join"}
      BY <1>0, <2>3 DEF Done
    <3> QED BY <3>1 DEF Open, Resets
  <2> QED BY <2>1, <2>2, <2>3
<1>3. ASSUME NEW c \in Callers, Enter(c) PROVE Open' /\ Resets'
  <2>1. pc' = [pc EXCEPT ![c] = "lock"]
    BY <1>3 DEF Enter
  <2>2. pc'[c] \notin Done /\ pc'[c] \notin {"idle", "join"}
    BY <1>0, <2>1 DEF Done
  <2> QED BY <2>2 DEF Open, Resets
<1>4. ASSUME NEW c \in Callers, Release(c) PROVE Open' /\ Resets'
  <2>1. CASE \A d \in Callers : vm[d] # bridge
    <3>1. pc' = [pc EXCEPT ![c] = "clear"]
      BY <1>4, <2>1 DEF Release
    <3>2. pc'[c] \notin Done /\ pc'[c] \notin {"idle", "join"}
      BY <1>0, <3>1 DEF Done
    <3> QED BY <3>2 DEF Open, Resets
  <2>2. ASSUME NEW d \in Callers, vm[d] = bridge PROVE Open' /\ Resets'
    <3>1. pc' = pc /\ bridge # 0
      BY <1>4, <2>2 DEF Release
    <3>2. pc[d] \notin Done /\ pc[d] \notin {"idle", "join"}
      BY <2>2, <3>1 DEF VMInv, HoldInv, GoneInv, Ending, Done
    <3> QED BY <3>1, <3>2 DEF Open, Resets
  <2> QED BY <2>1, <2>2
<1>5. ASSUME NEW c \in Callers, Leave(c) PROVE Open' /\ Resets'
  <2>0. pc[c] = "leave" /\ bridge' = bridge /\ vm[c] # 0
    BY <1>5 DEF Leave, VMInv, HoldInv
  <2>1. CASE bridge = vm[c]
    BY <2>0, <2>1 DEF Open, Resets
  <2>2. ASSUME NEW d \in Callers \ {c}, vm[d] = vm[c] PROVE Open' /\ Resets'
    <3>1. pc[d] \notin Done /\ pc[d] \notin {"idle", "join"}
      BY <2>0, <2>2 DEF VMInv, HoldInv, GoneInv, Ending, Done
    <3>2. pc'[d] = pc[d]
      BY <1>0, <1>5 DEF Leave
    <3> QED BY <3>1, <3>2 DEF Open, Resets
  <2>3. CASE bridge # vm[c] /\ \A d \in Callers \ {c} : vm[d] # vm[c]
    <3>1. pc' = [pc EXCEPT ![c] = "clear"]
      BY <1>5, <2>3 DEF Leave
    <3>2. pc'[c] \notin Done /\ pc'[c] \notin {"idle", "join"}
      BY <1>0, <3>1 DEF Done
    <3> QED BY <3>2 DEF Open, Resets
  <2> QED BY <2>1, <2>2, <2>3
<1>6. ASSUME NEW c \in Callers, EndClear(c) \/ EndStop(c) PROVE Resets => Resets'
  <2>1. \E l \in {"stop", "reset"} : pc' = [pc EXCEPT ![c] = l]
    BY <1>6 DEF EndClear, EndStop, Goto
  <2>2. pc'[c] \notin {"idle", "join"}
    BY <1>0, <2>1
  <2> QED BY <2>2 DEF Resets
<1>7. ASSUME NEW c \in Callers, EndStop(c) \/ EndReset(c) \/ EndJoin(c) PROVE Open => Open'
  <2>1. /\ pc[c] \in Done /\ bridge' = bridge
        /\ \E l \in Done : pc' = [pc EXCEPT ![c] = l]
    BY <1>7 DEF EndStop, EndReset, EndJoin, Goto, Done, vmVars
  <2>2. \A d \in Callers : pc[d] \notin Done => pc'[d] = pc[d]
    BY <1>0, <2>1
  <2> QED BY <2>1, <2>2 DEF Open
<1>8. ASSUME NEW c \in Callers, EndJoin(c) PROVE Resets => Resets'
  <2>1. pc[c] = "join" /\ bridge' = bridge /\ pc' = [pc EXCEPT ![c] = "idle"]
    BY <1>8 DEF EndJoin, Goto
  <2>2. \A d \in Callers : pc[d] \notin {"idle", "join"} => pc'[d] = pc[d]
    BY <1>0, <2>1
  <2> QED BY <2>1, <2>2 DEF Resets
<1>9. ASSUME NEW w \in VMs,
             WorkerStep(w) \/ CallbackClears(w) \/ \E t \in Timers : CallbackAdds(w, t)
      PROVE  UNCHANGED <<vmVars, callVars>>
  BY <1>9 DEF WorkerStep, Start, Due, Callback, CallbackEnd, RunEnd, CallbackClears, CallbackAdds
<1>a. ASSUME NEW c \in Callers,
             CallerStep(c) \/ Enter(c) \/ Release(c) \/ ClearBy(c) \/ \E t \in Timers : Add(c, t)
      PROVE  /\ Open => Open' \/ registered' = {}
             /\ Resets => Resets' \/ executor' = 0
  <2>1. EndClear(c) => registered' = {}
    BY DEF EndClear, Clear
  <2>2. EndReset(c) => executor' = 0
    BY DEF EndReset
  <2> QED BY <1>a, <1>2, <1>3, <1>4, <1>5, <1>6, <1>7, <1>8, <2>1, <2>2 DEF CallerStep
<1>b. CASE UNCHANGED vars
  BY <1>1, <1>b DEF vars
<1> QED BY <1>1, <1>9, <1>a, <1>b DEF Next

(* A step that leaves the Executor, its Workers and who joins them alone. *)
LEMMA SameWorkers ==
  ASSUME WorkerInv, Resets => Resets' \/ executor' = 0, UNCHANGED <<executor, stopping, wpc>>,
         \A d \in Callers : /\ pc'[d] = "join" <=> pc[d] = "join"
                            /\ pc[d] = "join" => worker'[d] = worker[d]
  PROVE  WorkerInv'
<1>1. ExecInv'
  BY DEF WorkerInv, ExecInv
<1>2. WorkInv'
  BY DEF WorkerInv, WorkInv, Joins
<1>3. JoinInv' /\ RunInv'
  BY DEF WorkerInv, JoinInv, RunInv, Busy
<1> QED BY <1>1, <1>2, <1>3 DEF WorkerInv

(* Every step keeps what is said of the Workers. *)
LEMMA StepWorkers ==
  ASSUME IInv, VMInv, WorkerInv, [Next]_vars
  PROVE  WorkerInv'
<1>0. /\ pc \in [Callers -> Places] /\ worker \in [Callers -> 0 .. MaxVMs]
      /\ executor \in 0 .. MaxVMs
      /\ wpc \in [VMs -> {"none", "idle", "run", "due", "callback", "stuck"}]
  BY DEF IInv, TypeInv
<1>1. ASSUME NEW c \in Callers,
             \/ Lock(c) \/ LockFails(c) \/ LuaEnd(c) \/ Submit(c) \/ Insert(c) \/ ClearBy(c)
             \/ Release(c) \/ Leave(c) \/ EndClear(c) \/ EndStop(c)
             \/ \E t \in Timers : Add(c, t)
      PROVE  WorkerInv'
  <2>1. UNCHANGED <<executor, stopping, wpc>>
    BY <1>1 DEF Lock, LockFails, LuaEnd, Submit, Insert, ClearBy, Release, Leave, EndClear,
                EndStop, Add, workVars
  <2>2. /\ pc' = pc \/ \E l \in Places \ {"join"} : pc[c] # "join" /\ pc' = [pc EXCEPT ![c] = l]
        /\ worker' = worker \/ \E v \in 0 .. MaxVMs : pc[c] # "join" /\ worker' = [worker EXCEPT ![c] = v]
    <3>1. pc' = pc \/ \E l \in Places \ {"join"} : pc[c] # "join" /\ pc' = [pc EXCEPT ![c] = l]
      BY <1>1 DEF Lock, LockFails, LuaEnd, Submit, Insert, ClearBy, Release, Leave, EndClear,
                  EndStop, Add, Goto, Places, callVars
    <3>2. worker' = worker \/ \E v \in 0 .. MaxVMs : pc[c] # "join" /\ worker' = [worker EXCEPT ![c] = v]
      BY <1>0, <1>1 DEF Lock, LockFails, LuaEnd, Submit, Insert, ClearBy, Release, Leave, EndClear,
                  EndStop, Add, callVars
    <3> QED BY <3>1, <3>2
  <2>3. \A d \in Callers : /\ pc'[d] = "join" <=> pc[d] = "join"
                           /\ pc[d] = "join" => worker'[d] = worker[d]
    BY <1>0, <2>2
  <2> QED BY <2>1, <2>3, OpenStays, SameWorkers
<1>2. ASSUME NEW c \in Callers, Enter(c) PROVE WorkerInv'
  <2>1. /\ pc[c] = "idle" /\ pc' = [pc EXCEPT ![c] = "lock"] /\ UNCHANGED <<worker, stopping>>
    BY <1>2 DEF Enter
  <2>2. \A d \in Callers : /\ pc'[d] = "join" <=> pc[d] = "join"
                           /\ pc[d] = "join" => worker'[d] = worker[d]
    BY <1>0, <2>1
  <2>3. Resets'
    <3>1. pc'[c] = "lock"
      BY <1>0, <2>1
    <3> QED BY <3>1 DEF Resets
  <2>4. CASE UNCHANGED <<executor, wpc>>
    BY <2>1, <2>2, <2>3, <2>4, SameWorkers
  <2>5. CASE MakeVM(made + 1)
    <3> DEFINE v == made + 1
    <3>1. /\ \A w \in VMs : wpc[w] \in {"none", "idle"}
          /\ executor' = v
          /\ wpc' = [w \in VMs |-> IF w = v THEN "idle" ELSE IF w = executor THEN "none" ELSE wpc[w]]
      BY <2>5 DEF MakeVM
    <3>2. ExecInv' /\ JoinInv'
      BY <2>1, <2>2, <2>3 DEF WorkerInv, ExecInv, JoinInv
    <3>3. WorkInv'
      BY <2>2, <3>1 DEF WorkerInv, WorkInv, Joins
    <3>4. RunInv'
      <4>1. \A w \in VMs : wpc'[w] \in {"none", "idle"}
        BY <3>1
      <4> QED BY <4>1 DEF RunInv, Busy
    <3> QED BY <3>2, <3>3, <3>4 DEF WorkerInv
  <2> QED BY <1>2, <2>4, <2>5 DEF Enter
<1>3. ASSUME NEW c \in Callers, EndReset(c) PROVE WorkerInv'
  <2>1. /\ pc[c] = "reset" /\ pc' = [pc EXCEPT ![c] = "join"] /\ executor' = 0
        /\ worker' = [worker EXCEPT ![c] = executor]
        /\ stopping' = stopping \cup ({executor} \ {0}) /\ wpc' = wpc
    BY <1>3 DEF EndReset, Goto
  <2>2. /\ pc'[c] = "join" /\ worker'[c] = executor
        /\ \A d \in Callers \ {c} : pc'[d] = pc[d] /\ worker'[d] = worker[d]
    BY <1>0, <2>1
  <2>3. ExecInv' /\ RunInv'
    BY <2>1 DEF ExecInv, RunInv
  <2>4. WorkInv'
    BY <2>1, <2>2 DEF WorkerInv, WorkInv, Joins
  <2>5. JoinInv'
    BY <2>1, <2>2 DEF WorkerInv, JoinInv
  <2> QED BY <2>3, <2>4, <2>5 DEF WorkerInv
<1>4. ASSUME NEW c \in Callers, EndJoin(c) PROVE WorkerInv'
  <2>1. /\ pc[c] = "join" /\ pc' = [pc EXCEPT ![c] = "idle"]
        /\ worker' = [worker EXCEPT ![c] = 0] /\ UNCHANGED <<executor, stopping>>
        /\ wpc' = [w \in VMs |-> IF w = worker[c] THEN "none" ELSE wpc[w]]
    BY <1>4 DEF EndJoin, Goto
  <2>2. /\ pc'[c] = "idle"
        /\ \A d \in Callers \ {c} : pc'[d] = pc[d] /\ worker'[d] = worker[d]
    BY <1>0, <2>1
  <2>3. ExecInv'
    BY <2>1, OpenStays DEF WorkerInv, ExecInv
  <2>4. WorkInv'
    BY <2>1, <2>2 DEF WorkerInv, WorkInv, Joins
  <2>5. JoinInv' /\ RunInv'
    BY <2>1, <2>2 DEF WorkerInv, JoinInv, RunInv, Busy
  <2> QED BY <2>3, <2>4, <2>5 DEF WorkerInv
<1>5. ASSUME NEW w \in VMs,
             WorkerStep(w) \/ CallbackClears(w) \/ \E t \in Timers : CallbackAdds(w, t)
      PROVE  WorkerInv'
  <2>1. UNCHANGED <<vmVars, callVars, executor, stopping>>
    BY <1>5 DEF WorkerStep, Start, Due, Callback, CallbackEnd, RunEnd, CallbackClears,
                CallbackAdds, workVars
  <2>2. \/ wpc' = wpc
        \/ /\ Busy(w) \/ (wpc[w] = "idle" /\ w \notin stopping)
           /\ \E l \in {"run", "due", "callback", "idle", "stuck"} : wpc' = [wpc EXCEPT ![w] = l]
    <3>1. CASE CallbackClears(w)
      BY <3>1 DEF CallbackClears, workVars
    <3>2. ASSUME WorkerStep(w)
          PROVE  /\ (wpc[w] = "idle" /\ w \notin stopping) \/ wpc[w] \in {"run", "due", "callback"}
                 /\ \/ wpc' = [wpc EXCEPT ![w] = "run"] \/ wpc' = [wpc EXCEPT ![w] = "due"]
                    \/ wpc' = [wpc EXCEPT ![w] = "callback"] \/ wpc' = [wpc EXCEPT ![w] = "idle"]
      BY <3>2 DEF WorkerStep, Start, Due, Callback, CallbackEnd, RunEnd
    <3>3. ASSUME NEW t \in Timers, CallbackAdds(w, t)
          PROVE  /\ wpc[w] = "callback"
                 /\ wpc' = [wpc EXCEPT ![w] = "callback"] \/ wpc' = [wpc EXCEPT ![w] = "stuck"]
      <4>1. wpc[w] = "callback" /\ wpc' = [wpc EXCEPT ![w] = IF executor = 0 THEN @ ELSE "stuck"]
        BY <3>3 DEF CallbackAdds
      <4>2. CASE executor = 0
        <5>1. wpc' = [wpc EXCEPT ![w] = wpc[w]]
          BY <4>1, <4>2
        <5> QED BY <4>1, <5>1
      <4>3. CASE executor # 0
        <5>1. wpc' = [wpc EXCEPT ![w] = "stuck"]
          BY <4>1, <4>3
        <5> QED BY <4>1, <5>1
      <4> QED BY <4>2, <4>3
    <3> QED BY <1>5, <3>1, <3>2, <3>3 DEF Busy
  <2>3. ExecInv' /\ JoinInv'
    BY <2>1 DEF WorkerInv, ExecInv, JoinInv, Resets, vmVars, callVars
  <2>4. CASE wpc' = wpc
    BY <2>1, <2>3, <2>4 DEF WorkerInv, WorkInv, Joins, RunInv, Busy, callVars
  <2>5. CASE /\ Busy(w) \/ (wpc[w] = "idle" /\ w \notin stopping)
             /\ \E l \in {"run", "due", "callback", "idle", "stuck"} : wpc' = [wpc EXCEPT ![w] = l]
    <3>1. wpc[w] # "none" /\ \A u \in VMs \ {w} : wpc'[u] = wpc[u]
      BY <1>0, <2>5 DEF Busy
    <3>2. WorkInv'
      BY <2>1, <3>1 DEF WorkerInv, WorkInv, Joins, callVars
    <3>3. executor \in {0, w}
      <4>1. CASE Busy(w)
        BY <4>1 DEF WorkerInv, RunInv
      <4>2. CASE wpc[w] = "idle" /\ w \notin stopping
        BY <4>2 DEF WorkerInv, WorkInv, JoinInv, Joins
      <4> QED BY <2>5, <4>1, <4>2
    <3>4. RunInv'
      BY <2>1, <3>1, <3>3 DEF WorkerInv, RunInv, Busy
    <3> QED BY <2>3, <3>2, <3>4 DEF WorkerInv
  <2> QED BY <2>2, <2>4, <2>5
<1>6. CASE UNCHANGED vars
  BY <1>6, SameWorkers DEF vars, vmVars, callVars, workVars, Resets
<1>7. ASSUME NEW c \in Callers,
             CallerStep(c) \/ Enter(c) \/ Release(c) \/ ClearBy(c) \/ \E t \in Timers : Add(c, t)
      PROVE  WorkerInv'
  BY <1>7, <1>1, <1>2, <1>3, <1>4 DEF CallerStep
<1> QED BY <1>5, <1>6, <1>7 DEF Next

(* What is said of the Workers holds in every state. *)
LEMMA WorkersInvariant == Spec => []WorkerInv
<1>1. Init => WorkerInv
  BY DEF Init, WorkerInv, ExecInv, WorkInv, JoinInv, RunInv, Busy
<1>2. IInv /\ VMInv /\ WorkerInv /\ [Next]_vars => WorkerInv'
  BY StepWorkers
<1> QED BY <1>1, <1>2, Invariance, VMsInvariant, PTL DEF Spec
-----------------------------------------------------------------------------
(* Where a timer that was added can be. *)
Inserts(c, t) == pc[c] = "insert" /\ adding[c] = t
Adds(c, t) == Adding(c) /\ adding[c] = t
Queued(t) == t \in armed \/ \E w \in VMs : t \in In(queue[w])
OpenInv == registered # {} => Open
WhereInv ==
  \A t \in Timers : born[t] # 0 =>
    t \in registered \cup freed \cup lost \/ Stuck \/ \E c \in Callers : Adds(c, t)
QueuedInv ==
  \A t \in Timers : Queued(t) =>
    t \in registered \cup freed \/ \E c \in Callers : Inserts(c, t)

(* The loop is told to stop once nobody may add a timer any more; and between *)
(* two tasks it has none.                                                     *)
StopInv == stopFlag => crossed \/ ~Open
RestInv == crossed \/ armed \subseteq freed \/ \E w \in VMs : Busy(w)
OneInv == crossed \/ \A t, u \in armed \ freed : t = u

TimerInv == OpenInv /\ WhereInv /\ QueuedInv /\ StopInv /\ RestInv /\ OneInv

(* With nobody left to add timers, those in the loop or to come are freed. *)
LEMMA ClosedFreed ==
  ASSUME IInv, OpenInv, QueuedInv, ~Open
  PROVE  \A t \in Timers : Queued(t) => t \in freed
<1>1. registered = {}
  BY DEF OpenInv
<1>2. \A c \in Callers : pc[c] # "insert"
  BY DEF Open, Done
<1> QED BY <1>1, <1>2 DEF QueuedInv, Inserts

(* What every step keeps. *)
LEMMA Grows ==
  ASSUME IInv, [Next]_vars
  PROVE  /\ crossed => crossed'
         /\ freed \subseteq freed' /\ registered \cup freed \subseteq registered' \cup freed'
         /\ lost \subseteq lost'
<1>1. CASE UNCHANGED vars
  BY <1>1 DEF vars, vmVars, timerVars
<1>2. ASSUME NEW c \in Callers,
             CallerStep(c) \/ Enter(c) \/ Release(c) \/ ClearBy(c) \/ \E t \in Timers : Add(c, t)
      PROVE  /\ crossed => crossed'
             /\ freed \subseteq freed' /\ registered \cup freed \subseteq registered' \cup freed'
             /\ lost \subseteq lost'
  <2>1. crossed => crossed'
    BY <1>2 DEF CallerStep, Lock, LockFails, LuaEnd, Submit, Insert, ClearBy, Release, Leave,
                EndClear, EndStop, EndReset, EndJoin, Add, Enter, MakeVM, vmVars
  <2>2. freed \subseteq freed' /\ registered \cup freed \subseteq registered' \cup freed'
    BY <1>2 DEF CallerStep, Lock, LockFails, LuaEnd, Submit, Insert, ClearBy, Release, Leave,
                EndClear, EndStop, EndReset, EndJoin, Add, NewTimer, Enter, Clear, timerVars
  <2>3. lost \subseteq lost'
    BY <1>2 DEF CallerStep, Lock, LockFails, LuaEnd, Submit, Insert, ClearBy, Release, Leave,
                EndClear, EndStop, EndReset, EndJoin, Add, NewTimer, Enter, timerVars
  <2> QED BY <2>1, <2>2, <2>3
<1>3. ASSUME NEW w \in VMs,
             WorkerStep(w) \/ CallbackClears(w) \/ \E t \in Timers : CallbackAdds(w, t)
      PROVE  /\ crossed => crossed'
             /\ freed \subseteq freed' /\ registered \cup freed \subseteq registered' \cup freed'
             /\ lost \subseteq lost'
  BY <1>3 DEF WorkerStep, Start, Due, Callback, CallbackEnd, RunEnd, CallbackClears,
              CallbackAdds, NewTimer, Clear, vmVars, timerVars
<1> QED BY <1>1, <1>2, <1>3 DEF Next

(* A Worker that is in a loop can be neither joined nor replaced, and one that *)
(* is stuck there never leaves it.                                             *)
Stays(w) == IF wpc[w] = "stuck" THEN wpc'[w] = "stuck" ELSE Busy(w)' \/ RunEnd(w)
LEMMA BusyStays ==
  ASSUME IInv, NEW w \in VMs, Busy(w), [Next]_vars
  PROVE  Stays(w)
<1>0. wpc \in [VMs -> {"none", "idle", "run", "due", "callback", "stuck"}]
      /\ worker \in [Callers -> 0 .. MaxVMs]
  BY DEF IInv, TypeInv
<1>s. wpc'[w] = wpc[w] => Stays(w)
  BY DEF Stays, Busy
<1>1. CASE UNCHANGED vars
  BY <1>s, <1>1 DEF vars, workVars
<1>2. ASSUME NEW c \in Callers,
             CallerStep(c) \/ Enter(c) \/ Release(c) \/ ClearBy(c) \/ \E t \in Timers : Add(c, t)
      PROVE  wpc'[w] = wpc[w]
  <2>1. CASE EndJoin(c)
    <3>1. worker[c] # w /\ wpc' = [u \in VMs |-> IF u = worker[c] THEN "none" ELSE wpc[u]]
      BY <2>1 DEF EndJoin, Busy
    <3> QED BY <3>1
  <2>2. CASE ~EndJoin(c)
    <3>1. wpc' = wpc
      BY <1>2, <2>2 DEF CallerStep, Lock, LockFails, LuaEnd, Submit, Insert, ClearBy, Release,
                  Leave, EndClear, EndStop, EndReset, Add, Enter, MakeVM, workVars, Busy
    <3> QED BY <3>1
  <2> QED BY <2>1, <2>2
<1>3. ASSUME NEW v \in VMs,
             WorkerStep(v) \/ CallbackClears(v) \/ \E t \in Timers : CallbackAdds(v, t)
      PROVE  Stays(w)
  <2>1. CASE CallbackClears(v)
    BY <1>s, <2>1 DEF CallbackClears, workVars
  <2>2. CASE ~CallbackClears(v) /\ v # w
    <3>1. \A u \in VMs \ {v} : wpc'[u] = wpc[u]
      BY <1>0, <1>3, <2>2 DEF WorkerStep, Start, Due, Callback, CallbackEnd, RunEnd, CallbackAdds
    <3> QED BY <1>s, <2>2, <3>1
  <2>3. CASE ~CallbackClears(w) /\ v = w
    <3>1. wpc[w] # "stuck"
      BY <1>3, <2>3 DEF WorkerStep, Start, Due, Callback, CallbackEnd, RunEnd, CallbackAdds
    <3>2. ASSUME WorkerStep(w), ~RunEnd(w)
          PROVE  wpc'[w] \in {"run", "due", "callback"}
      BY <1>0, <3>2 DEF WorkerStep, Start, Due, Callback, CallbackEnd
    <3>3. ASSUME NEW t \in Timers, CallbackAdds(w, t)
          PROVE  wpc'[w] \in {"callback", "stuck"}
      BY <1>0, <3>3 DEF CallbackAdds
    <3> QED BY <1>3, <2>3, <3>1, <3>2, <3>3 DEF Stays, Busy
  <2> QED BY <1>3, <2>1, <2>2, <2>3
<1> QED BY <1>s, <1>1, <1>2, <1>3 DEF Next

(* Timers are registered only by a caller inside, and cleared by the last. *)
LEMMA OpenStep ==
  ASSUME IInv, VMInv, TimerInv, [Next]_vars
  PROVE  OpenInv'
<1>0. pc \in [Callers -> Places]
  BY DEF IInv, TypeInv
<1>1. ASSUME NEW c \in Callers, Insert(c) PROVE OpenInv'
  <2>1. pc' = [pc EXCEPT ![c] = "lua"]
    BY <1>1 DEF Insert, Goto
  <2>2. pc'[c] \notin Done
    BY <1>0, <2>1 DEF Done
  <2> QED BY <2>2 DEF OpenInv, Open
<1>2. CASE ~\E c \in Callers : Insert(c)
  <2>1. registered' \subseteq registered
    <3>1. CASE UNCHANGED vars
      BY <3>1 DEF vars, timerVars
    <3>2. ASSUME NEW c \in Callers,
                 CallerStep(c) \/ Enter(c) \/ Release(c) \/ ClearBy(c) \/ \E t \in Timers : Add(c, t)
          PROVE  registered' \subseteq registered
      BY <1>2, <3>2 DEF CallerStep, Lock, LockFails, LuaEnd, Submit, ClearBy, Release, Leave,
                EndClear, EndStop, EndReset, EndJoin, Add, NewTimer, Enter, Clear, timerVars
    <3>3. ASSUME NEW w \in VMs,
                 WorkerStep(w) \/ CallbackClears(w) \/ \E t \in Timers : CallbackAdds(w, t)
          PROVE  registered' \subseteq registered
      BY <3>3 DEF WorkerStep, Start, Due, Callback, CallbackEnd, RunEnd, CallbackClears,
                  CallbackAdds, NewTimer, Clear, timerVars
    <3> QED BY <3>1, <3>2, <3>3 DEF Next
  <2> QED BY <2>1, OpenStays DEF TimerInv, OpenInv
<1> QED BY <1>1, <1>2

(* A timer that is being added goes on to be registered. *)
LEMMA AddsStay ==
  ASSUME IInv, NEW t \in Timers, NEW c \in Callers, Adds(c, t), [Next]_vars
  PROVE  /\ Adds(c, t)' \/ t \in registered'
         /\ Inserts(c, t) => Inserts(c, t)' \/ t \in registered'
<1>0. pc \in [Callers -> Places] /\ adding \in [Callers -> Timers \cup {NoTimer}]
  BY DEF IInv, TypeInv
<1>1. pc[c] \in {"submit", "insert"} /\ adding[c] = t
  BY DEF Adds, Adding
<1>2. CASE UNCHANGED <<pc, adding>>
  BY <1>2 DEF Adds, Adding, Inserts
<1>3. CASE Insert(c)
  BY <1>1, <1>3 DEF Insert
<1>4. CASE Submit(c)
  <2>1. pc[c] = "submit" /\ pc' = [pc EXCEPT ![c] = "insert"] /\ adding' = adding
    BY <1>4 DEF Submit, Goto
  <2> QED BY <1>0, <1>1, <2>1 DEF Adds, Adding, Inserts
<1>5. ASSUME NEW d \in Callers,
             CallerStep(d) \/ Enter(d) \/ Release(d) \/ ClearBy(d) \/ \E u \in Timers : Add(d, u),
             ~Insert(c), ~Submit(c)
      PROVE  /\ Adds(c, t)' \/ t \in registered'
             /\ Inserts(c, t) => Inserts(c, t)' \/ t \in registered'
  <2>1. pc' = pc \/ \E l \in Places : pc' = [pc EXCEPT ![d] = l]
    BY <1>5 DEF CallerStep, Lock, LockFails, LuaEnd, Submit, Insert, ClearBy, Release, Leave,
          EndClear, EndStop, EndReset, EndJoin, Add, Enter, Goto, Places, callVars
  <2>2. adding' = adding \/ \E u \in Timers \cup {NoTimer} : adding' = [adding EXCEPT ![d] = u]
    BY <1>5 DEF CallerStep, Lock, LockFails, LuaEnd, Submit, Insert, ClearBy, Release, Leave,
          EndClear, EndStop, EndReset, EndJoin, Add, Enter, callVars
  <2>3. CASE d # c
    <3>1. pc'[c] = pc[c] /\ adding'[c] = adding[c]
      BY <1>0, <2>1, <2>2, <2>3
    <3> QED BY <1>1, <3>1 DEF Adds, Adding, Inserts
  <2>4. CASE d = c
    <3>1. UNCHANGED <<pc, adding>>
      BY <1>1, <1>5, <2>4 DEF CallerStep, Lock, LockFails, LuaEnd, ClearBy, Release, Leave,
            EndClear, EndStop, EndReset, EndJoin, Add, Enter
    <3> QED BY <1>2, <3>1
  <2> QED BY <2>3, <2>4
<1>6. ASSUME NEW w \in VMs,
             WorkerStep(w) \/ CallbackClears(w) \/ \E u \in Timers : CallbackAdds(w, u)
      PROVE  UNCHANGED <<pc, adding>>
  BY <1>6 DEF WorkerStep, Start, Due, Callback, CallbackEnd, RunEnd, CallbackClears,
              CallbackAdds, callVars
<1>7. CASE UNCHANGED vars
  BY <1>2, <1>7 DEF vars, callVars
<1> QED BY <1>2, <1>3, <1>4, <1>5, <1>6, <1>7 DEF Next

(* A timer is added, or was: it is somewhere. *)
LEMMA WhereStep ==
  ASSUME IInv, TimerInv, [Next]_vars
  PROVE  WhereInv'
<1>0. /\ pc \in [Callers -> Places] /\ adding \in [Callers -> Timers \cup {NoTimer}]
      /\ born \in [Timers -> 0 .. MaxVMs]
      /\ wpc \in [VMs -> {"none", "idle", "run", "due", "callback", "stuck"}]
  BY DEF IInv, TypeInv
<1>s. Stuck => Stuck'
  BY BusyStays DEF Stuck, Stays, Busy
<1>a. ASSUME NEW t \in Timers, NEW c \in Callers, Adds(c, t)
      PROVE  Adds(c, t)' \/ t \in registered'
  BY <1>a, AddsStay
<1>n. ASSUME NEW t \in Timers, born[t] = 0, born'[t] # 0
      PROVE  t \in lost' \/ Stuck' \/ \E c \in Callers : Adds(c, t)'
  <2>1. ASSUME NEW c \in Callers, NEW u \in Timers, Add(c, u)
        PROVE  u = t /\ (t \in lost' \/ Adds(c, t)')
    <3>1. born' = [born EXCEPT ![u] = vm[c]]
      BY <2>1 DEF Add, NewTimer
    <3>2. u = t
      BY <1>0, <1>n, <3>1
    <3>3. CASE executor = 0
      BY <2>1, <3>2, <3>3 DEF Add, NewTimer
    <3>4. CASE executor # 0
      <4>1. pc' = [pc EXCEPT ![c] = "submit"] /\ adding' = [adding EXCEPT ![c] = t]
        BY <2>1, <3>2, <3>4 DEF Add, Goto
      <4> QED BY <1>0, <3>2, <4>1 DEF Adds, Adding
    <3> QED BY <3>2, <3>3, <3>4
  <2>2. ASSUME NEW w \in VMs, NEW u \in Timers, CallbackAdds(w, u)
        PROVE  t \in lost' \/ Stuck'
    <3>1. /\ born' = [born EXCEPT ![u] = born[now[w]]]
          /\ wpc' = [wpc EXCEPT ![w] = IF executor = 0 THEN @ ELSE "stuck"]
          /\ lost' = IF executor = 0 THEN lost \cup {u} ELSE lost
      BY <2>2 DEF CallbackAdds, NewTimer
    <3>2. u = t
      BY <1>0, <1>n, <3>1
    <3>3. CASE executor = 0
      BY <3>1, <3>2, <3>3
    <3>4. CASE executor # 0
      <4>1. wpc'[w] = "stuck"
        BY <1>0, <3>1, <3>4
      <4> QED BY <4>1 DEF Stuck
    <3> QED BY <3>3, <3>4
  <2>3. ASSUME ~\E c \in Callers, u \in Timers : Add(c, u),
               ~\E w \in VMs, u \in Timers : CallbackAdds(w, u)
        PROVE  born' = born
    <3>1. CASE UNCHANGED vars
      BY <3>1 DEF vars, timerVars
    <3>2. ASSUME NEW c \in Callers, CallerStep(c) \/ Enter(c) \/ Release(c) \/ ClearBy(c)
          PROVE  born' = born
      BY <3>2 DEF CallerStep, Lock, LockFails, LuaEnd, Submit, Insert, ClearBy, Release, Leave,
                EndClear, EndStop, EndReset, EndJoin, Enter, timerVars
    <3>3. ASSUME NEW w \in VMs, WorkerStep(w) \/ CallbackClears(w)
          PROVE  born' = born
      BY <3>3 DEF WorkerStep, Start, Due, Callback, CallbackEnd, RunEnd, CallbackClears, timerVars
    <3> QED BY <2>3, <3>1, <3>2, <3>3 DEF Next
  <2> QED BY <1>n, <2>1, <2>2, <2>3
<1>1. SUFFICES ASSUME NEW t \in Timers, born'[t] # 0
      PROVE  t \in registered' \cup freed' \cup lost' \/ Stuck' \/ \E c \in Callers : Adds(c, t)'
  BY DEF WhereInv, Stuck, Adds, Adding
<1>2. CASE born[t] = 0
  BY <1>1, <1>2, <1>n
<1>3. CASE born[t] # 0
  <2>1. CASE t \in registered \cup freed \cup lost \/ Stuck
    BY <2>1, <1>s, Grows
  <2>2. ASSUME NEW c \in Callers, Adds(c, t) PROVE Adds(c, t)' \/ t \in registered'
    BY <2>2, <1>a
  <2> QED BY <1>3, <2>1, <2>2 DEF TimerInv, WhereInv
<1> QED BY <1>2, <1>3

(* What is queued or armed came through a caller that adds it. *)
LEMMA QueuedFrom ==
  ASSUME IInv, [Next]_vars, NEW t \in Timers, Queued(t)'
  PROVE  Queued(t) \/ \E c \in Callers : Inserts(c, t)'
<1>0. /\ pc \in [Callers -> Places] /\ queue \in [VMs -> Seq(Timers)]
  BY DEF IInv, TypeInv
<1>e. In(<<>>) = {}
  BY EmptySeq DEF In
<1>k. ASSUME armed' \subseteq armed,
             \A w \in VMs : queue'[w] = queue[w] \/ queue'[w] = <<>>
      PROVE  Queued(t)
  BY <1>e, <1>k DEF Queued
<1>1. CASE UNCHANGED vars
  BY <1>1, <1>k DEF vars, workVars, timerVars
<1>2. ASSUME NEW c \in Callers, Submit(c)
      PROVE  Queued(t) \/ Inserts(c, t)'
  <2>1. /\ pc' = [pc EXCEPT ![c] = "insert"] /\ UNCHANGED <<adding, armed>>
        /\ adding[c] \in Timers
        /\ queue' = [queue EXCEPT ![worker[c]] = Append(@, adding[c])]
    BY <1>2 DEF Submit, Goto, timerVars, IInv, AddingInv, Adding
  <2>2. ASSUME NEW w \in VMs PROVE In(queue'[w]) \subseteq In(queue[w]) \cup {adding[c]}
    <3>1. queue[w] \in Seq(Timers)
      BY <1>0
    <3>2. In(Append(queue[w], adding[c])) = In(queue[w]) \cup {adding[c]}
      BY <2>1, <3>1, InAppend
    <3>3. queue'[w] = queue[w] \/ queue'[w] = Append(queue[w], adding[c])
      BY <1>0, <2>1
    <3> QED BY <3>2, <3>3
  <2>3. pc'[c] = "insert"
    BY <1>0, <2>1
  <2>4. CASE adding[c] = t
    BY <2>1, <2>3, <2>4 DEF Inserts
  <2>5. CASE adding[c] # t
    BY <2>1, <2>2, <2>5 DEF Queued
  <2> QED BY <2>4, <2>5
<1>3. ASSUME NEW c \in Callers,
             CallerStep(c) \/ Enter(c) \/ Release(c) \/ ClearBy(c) \/ \E u \in Timers : Add(c, u),
             ~Submit(c)
      PROVE  Queued(t)
  <2>1. armed' \subseteq armed
    BY <1>3 DEF CallerStep, Lock, LockFails, LuaEnd, Insert, ClearBy, Release, Leave,
          EndClear, EndStop, EndReset, EndJoin, Add, Enter, MakeVM, Clear, timerVars
  <2>2. CASE Enter(c) \/ EndJoin(c)
    <3>1. \/ queue' = queue
          \/ queue' = [w \in VMs |-> IF w = executor THEN <<>> ELSE queue[w]]
          \/ queue' = [w \in VMs |-> IF w = worker[c] THEN <<>> ELSE queue[w]]
      BY <2>2 DEF Enter, MakeVM, EndJoin
    <3>2. \A w \in VMs : queue'[w] = queue[w] \/ queue'[w] = <<>>
      BY <3>1
    <3> QED BY <1>k, <2>1, <3>2
  <2>3. CASE ~(Enter(c) \/ EndJoin(c))
    <3>1. queue' = queue
      BY <1>3, <2>3 DEF CallerStep, Lock, LockFails, LuaEnd, Insert, ClearBy, Release, Leave,
            EndClear, EndStop, EndReset, Add, workVars
    <3> QED BY <1>k, <2>1, <3>1
  <2> QED BY <2>2, <2>3
<1>4. ASSUME NEW w \in VMs, Start(w) PROVE Queued(t)
  <2>1. /\ queue[w] # <<>> /\ queue' = [queue EXCEPT ![w] = Tail(queue[w])]
        /\ armed' = armed \cup {Head(queue[w])}
    BY <1>4 DEF Start
  <2>2. In(queue[w]) = {Head(queue[w])} \cup In(Tail(queue[w]))
    BY <1>0, <2>1, InTail
  <2>3. \A u \in VMs : In(queue'[u]) \subseteq In(queue[u])
    BY <1>0, <2>1, <2>2
  <2> QED BY <2>1, <2>2, <2>3 DEF Queued
<1>5. ASSUME NEW w \in VMs,
             WorkerStep(w) \/ CallbackClears(w) \/ \E u \in Timers : CallbackAdds(w, u),
             ~Start(w)
      PROVE  Queued(t)
  <2>1. armed' \subseteq armed /\ queue' = queue
    BY <1>5 DEF WorkerStep, Due, Callback, CallbackEnd, RunEnd, CallbackClears,
                CallbackAdds, Clear, workVars, timerVars
  <2> QED BY <1>k, <2>1
<1> QED BY <1>1, <1>2, <1>3, <1>4, <1>5 DEF Next

(* A queued or armed timer is registered, freed or just being added. *)
LEMMA QueuedStep ==
  ASSUME IInv, TimerInv, [Next]_vars
  PROVE  QueuedInv'
<1>1. SUFFICES ASSUME NEW t \in Timers, Queued(t)'
      PROVE  t \in registered' \cup freed' \/ \E c \in Callers : Inserts(c, t)'
  BY DEF QueuedInv, Queued, Inserts
<1>2. CASE Queued(t)
  <2>1. CASE t \in registered \cup freed
    BY <2>1, Grows
  <2>2. ASSUME NEW c \in Callers, Inserts(c, t) PROVE Inserts(c, t)' \/ t \in registered'
    BY <2>2, AddsStay DEF Inserts, Adds, Adding
  <2> QED BY <1>2, <2>1, <2>2 DEF TimerInv, QueuedInv
<1> QED BY <1>1, <1>2, QueuedFrom

(* Only the task of a timer arms one. *)
LEMMA ArmedFrom ==
  ASSUME [Next]_vars
  PROVE  armed' \subseteq armed \/ \E w \in VMs : Start(w)
<1>1. CASE UNCHANGED vars
  BY <1>1 DEF vars, timerVars
<1>2. ASSUME NEW c \in Callers,
             CallerStep(c) \/ Enter(c) \/ Release(c) \/ ClearBy(c) \/ \E t \in Timers : Add(c, t)
      PROVE  armed' \subseteq armed
  BY <1>2 DEF CallerStep, Lock, LockFails, LuaEnd, Submit, Insert, ClearBy, Release, Leave,
        EndClear, EndStop, EndReset, EndJoin, Add, Enter, MakeVM, Clear, timerVars
<1>3. ASSUME NEW w \in VMs,
             WorkerStep(w) \/ CallbackClears(w) \/ \E t \in Timers : CallbackAdds(w, t)
      PROVE  armed' \subseteq armed \/ Start(w)
  BY <1>3 DEF WorkerStep, Due, Callback, CallbackEnd, RunEnd, CallbackClears,
              CallbackAdds, Clear, timerVars
<1> QED BY <1>1, <1>2, <1>3 DEF Next

(* Once nobody is left to add timers, only a new VM opens the library again, *)
(* and that one starts with the loop as it is initialised.                   *)
LEMMA ClosedStays ==
  ASSUME IInv, ~Open, [Next]_vars
  PROVE  ~Open' \/ ~stopFlag'
<1>0. pc \in [Callers -> Places]
  BY DEF IInv, TypeInv
<1>1. bridge = 0 /\ \A c \in Callers : pc[c] \in Done
  BY DEF Open
<1>2. CASE UNCHANGED <<vmVars, callVars>>
  BY <1>1, <1>2 DEF Open, vmVars, callVars
<1>3. CASE UNCHANGED vars
  BY <1>2, <1>3 DEF vars
<1>4. ASSUME NEW c \in Callers, Enter(c) PROVE ~stopFlag'
  BY <1>1, <1>4 DEF Enter, MakeVM
<1>5. ASSUME NEW c \in Callers,
             CallerStep(c) \/ Release(c) \/ ClearBy(c) \/ \E t \in Timers : Add(c, t)
      PROVE  ~Open'
  <2>1. EndStop(c) \/ EndReset(c) \/ EndJoin(c)
    BY <1>1, <1>5 DEF CallerStep, Lock, LockFails, LuaEnd, Submit, Insert, ClearBy, Release, Leave,
          EndClear, Add, Done
  <2>2. bridge' = bridge /\ \E l \in Done : pc' = [pc EXCEPT ![c] = l]
    BY <2>1 DEF EndStop, EndReset, EndJoin, Goto, vmVars, Done
  <2> QED BY <1>0, <1>1, <2>2 DEF Open
<1>6. ASSUME NEW w \in VMs,
             WorkerStep(w) \/ CallbackClears(w) \/ \E t \in Timers : CallbackAdds(w, t)
      PROVE  UNCHANGED <<vmVars, callVars>>
  BY <1>6 DEF WorkerStep, Start, Due, Callback, CallbackEnd, RunEnd, CallbackClears, CallbackAdds
<1> QED BY <1>2, <1>3, <1>4, <1>5, <1>6 DEF Next

(* A destructor that has cleared the timers is alone with them. *)
LEMMA EndsAlone ==
  ASSUME IInv, VMInv, NEW c \in Callers, pc[c] \in {"stop", "reset", "join"}, ~crossed
  PROVE  ~Open
<1>0. bridge \in 0 .. MaxVMs /\ vm \in [Callers -> 0 .. MaxVMs]
  BY DEF IInv, TypeInv
<1>1. vm[c] \in VMs /\ Alive(vm[c]) /\ vm[c] # bridge
  BY <1>0 DEF VMInv, HoldInv, GoneInv, Ending, Alive
<1>2. bridge = 0
  <2>1. bridge # 0 => bridge \in VMs /\ Alive(bridge)
    BY <1>0 DEF Alive
  <2> QED BY <1>1, <2>1 DEF VMInv, AliveInv
<1>3. ASSUME NEW d \in Callers, pc[d] \notin Done PROVE FALSE
  <2>1. d # c /\ vm[d] \in VMs /\ Alive(vm[d]) /\ vm[d] # vm[c]
    BY <1>0, <1>3 DEF VMInv, HoldInv, GoneInv, Ending, Alive, Done
  <2> QED BY <1>1, <2>1 DEF VMInv, AliveInv
<1> QED BY <1>2, <1>3 DEF Open

(* The loop is told to stop by a destructor that is alone. *)
LEMMA StopStep ==
  ASSUME IInv, VMInv, TimerInv, [Next]_vars
  PROVE  StopInv'
<1>1. SUFFICES ASSUME stopFlag' PROVE crossed' \/ ~Open'
  BY DEF StopInv
<1>2. CASE stopFlag
  BY <1>1, <1>2, Grows, ClosedStays DEF TimerInv, StopInv
<1>3. ASSUME NEW c \in Callers, EndStop(c) PROVE crossed' \/ ~Open'
  <2>1. crossed \/ ~Open
    BY <1>3, EndsAlone DEF EndStop
  <2> QED BY <1>1, <2>1, Grows, ClosedStays
<1>4. CASE ~stopFlag /\ ~\E c \in Callers : EndStop(c)
  <2>1. CASE UNCHANGED vars
    BY <1>1, <1>4, <2>1 DEF vars, timerVars
  <2>2. ASSUME NEW c \in Callers,
               CallerStep(c) \/ Enter(c) \/ Release(c) \/ ClearBy(c) \/ \E t \in Timers : Add(c, t)
        PROVE  FALSE
    BY <1>1, <1>4, <2>2 DEF CallerStep, Lock, LockFails, LuaEnd, Submit, Insert, ClearBy, Release,
          Leave, EndClear, EndReset, EndJoin, Add, Enter, MakeVM, timerVars
  <2>3. ASSUME NEW w \in VMs,
               WorkerStep(w) \/ CallbackClears(w) \/ \E t \in Timers : CallbackAdds(w, t)
        PROVE  FALSE
    BY <1>1, <1>4, <2>3 DEF WorkerStep, Start, Due, Callback, CallbackEnd, RunEnd, CallbackClears,
          CallbackAdds, timerVars
  <2> QED BY <2>1, <2>2, <2>3 DEF Next
<1> QED BY <1>2, <1>3, <1>4

(* A loop that has ended leaves no timer but freed ones. *)
LEMMA RestStep ==
  ASSUME IInv, TimerInv, [Next]_vars
  PROVE  RestInv'
<1>0. armed \subseteq Timers /\ wpc \in [VMs -> {"none", "idle", "run", "due", "callback", "stuck"}]
  BY DEF IInv, TypeInv
<1>1. SUFFICES ASSUME ~crossed PROVE armed' \subseteq freed' \/ \E w \in VMs : Busy(w)'
  BY Grows DEF RestInv, Busy
<1>2. ASSUME NEW w \in VMs, Start(w) PROVE Busy(w)'
  BY <1>0, <1>2 DEF Start, Busy
<1>3. CASE armed \subseteq freed
  BY <1>2, <1>3, Grows, ArmedFrom
<1>4. ASSUME NEW w \in VMs, RunEnd(w) PROVE armed' \subseteq freed'
  <2>1. armed' = armed /\ (armed = {} \/ stopFlag)
    BY <1>4 DEF RunEnd
  <2>2. stopFlag => armed \subseteq freed
    BY <1>0, <1>1, ClosedFreed DEF TimerInv, StopInv, Queued
  <2> QED BY <2>1, <2>2, Grows
<1>5. ASSUME NEW w \in VMs, Busy(w) PROVE Busy(w)' \/ RunEnd(w)
  BY <1>5, BusyStays DEF Stays, Busy
<1> QED BY <1>1, <1>3, <1>4, <1>5 DEF TimerInv, RestInv

(* A task starts only on the Worker of the Executor, with no loop running. *)
LEMMA StartsAlone ==
  ASSUME WorkerInv, NEW w \in VMs, Start(w)
  PROVE  \A u \in VMs : ~Busy(u)
<1>1. wpc[w] = "idle" /\ w \notin stopping
  BY DEF Start
<1>2. w = executor
  BY <1>1 DEF WorkerInv, WorkInv, JoinInv, Joins
<1> QED BY <1>1, <1>2 DEF WorkerInv, RunInv, Busy

(* So a second timer is not armed before the first is through. *)
LEMMA OneStep ==
  ASSUME IInv, WorkerInv, TimerInv, [Next]_vars
  PROVE  OneInv'
<1>1. SUFFICES ASSUME ~crossed PROVE \A t, u \in armed' \ freed' : t = u
  BY Grows DEF OneInv
<1>2. CASE armed' \subseteq armed
  BY <1>1, <1>2, Grows DEF TimerInv, OneInv
<1>3. ASSUME NEW w \in VMs, Start(w) PROVE \A t, u \in armed' \ freed' : t = u
  <2>1. armed \subseteq freed
    BY <1>1, <1>3, StartsAlone DEF TimerInv, RestInv
  <2>2. armed' = armed \cup {Head(queue[w])}
    BY <1>3 DEF Start
  <2> QED BY <2>1, <2>2, Grows
<1> QED BY <1>2, <1>3, ArmedFrom

(* What is said of the timers holds in every state. *)
LEMMA TimersInvariant == Spec => []TimerInv
<1>1. Init => TimerInv
  <2> SUFFICES ASSUME Init PROVE TimerInv
    OBVIOUS
  <2>1. \A t \in Timers : ~Queued(t)
    BY EmptySeq DEF Init, Queued, In
  <2> QED BY <2>1 DEF Init, TimerInv, OpenInv, WhereInv, QueuedInv, StopInv, RestInv, OneInv
<1>2. IInv /\ VMInv /\ WorkerInv /\ TimerInv /\ [Next]_vars => TimerInv'
  BY OpenStep, WhereStep, QueuedStep, StopStep, RestStep, OneStep DEF TimerInv
<1> QED BY <1>1, <1>2, Invariance, VMsInvariant, WorkersInvariant, PTL DEF Spec

(* For any number of threads, VMs and timers: when no VM is left every timer   *)
(* is freed, except those added while there was no Executor.                   *)
THEOREM AllAreFreed == Spec => []AllFreed
<1>1. IInv /\ VMInv /\ WorkerInv /\ TimerInv => AllFreed
  <2> SUFFICES ASSUME IInv, VMInv, WorkerInv, TimerInv, \A v \in VMs : ~Alive(v),
                      NEW t \in Timers, born[t] # 0
               PROVE  t \in freed \cup lost
    BY DEF AllFreed
  <2>0. /\ bridge \in 0 .. MaxVMs /\ executor \in 0 .. MaxVMs /\ vm \in [Callers -> 0 .. MaxVMs]
    BY DEF IInv, TypeInv
  <2>1. bridge = 0 /\ \A c \in Callers : vm[c] = 0 /\ pc[c] = "idle"
    BY <2>0 DEF Alive, VMInv, HoldInv
  <2>2. ~Open /\ ~Resets
    BY <2>1 DEF Open, Resets, Done
  <2>3. registered = {}
    BY <2>2 DEF TimerInv, OpenInv
  <2>4. executor = 0
    BY <2>2 DEF WorkerInv, ExecInv
  <2>5. \A w \in VMs : wpc[w] = "none"
    BY <2>1, <2>4 DEF WorkerInv, WorkInv, Joins
  <2> QED BY <2>1, <2>3, <2>5 DEF TimerInv, WhereInv, Stuck, Adds, Adding
<1> QED BY <1>1, Invariance, VMsInvariant, WorkersInvariant, TimersInvariant, PTL

(* For any number of timers: unless VMs overlap, the loop has at most one      *)
(* timer that is not freed.                                                    *)
THEOREM TimersOneByOne == Spec => []OneArmed
<1>1. TimerInv => OneArmed
  <2> SUFFICES ASSUME TimerInv, ~crossed PROVE Cardinality(armed \ freed) <= 1
    BY DEF OneArmed
  <2>1. CASE armed \ freed = {}
    BY <2>1, FS_EmptySet
  <2>2. ASSUME NEW t \in armed \ freed PROVE Cardinality(armed \ freed) <= 1
    <3>1. armed \ freed = {t}
      BY <2>2 DEF TimerInv, OneInv
    <3>2. Cardinality({t}) = 1
      BY FS_Singleton
    <3> QED BY <3>1, <3>2
  <2> QED BY <2>1, <2>2
<1> QED BY <1>1, TimersInvariant, PTL
-----------------------------------------------------------------------------
(* A native thread that clears timers is alone in its own VM, and there is no *)
(* other unless VMs overlap; and only one Worker is ever in a loop.           *)
MetInv == met # {} => crossed
LoneInv == \A w, u \in VMs : Busy(w) /\ Busy(u) => w = u

(* Who clears meets another native thread only if VMs overlap. *)
LEMMA UnrefAlone ==
  ASSUME IInv, VMInv, NEW c \in Callers, pc[c] \in {"lua", "clear"}, ~crossed, Unref(c)
  PROVE  met' = met
<1>1. SUFFICES ASSUME NEW v \in VMs, NEW d \in InLua(v) \ {c} PROVE FALSE
  BY DEF Unref
<1>2. /\ d \in Callers /\ vm[d] = v /\ pc[d] \in Inside /\ vm[c] \in 0 .. MaxVMs
  BY DEF InLua, Inside, IInv, TypeInv
<1>3. vm[c] \in VMs
  BY <1>2 DEF VMInv, HoldInv
<1>4. vm[c] = v
  BY <1>2, <1>3 DEF VMInv, AliveInv, Alive
<1>5. CASE pc[c] = "lua"
  BY <1>2, <1>4, <1>5 DEF IInv, OwnerInv, Inside
<1>6. CASE pc[c] = "clear"
  BY <1>2, <1>4, <1>6 DEF VMInv, GoneInv, Ending
<1> QED BY <1>5, <1>6

(* Every step keeps that. *)
LEMMA MetStep == IInv /\ VMInv /\ MetInv /\ [Next]_vars => MetInv'
<1> SUFFICES ASSUME IInv, VMInv, MetInv, ~crossed, [Next]_vars PROVE met' = met
  BY Grows DEF MetInv
<1>1. ASSUME NEW c \in Callers, ClearBy(c) \/ EndClear(c) PROVE met' = met
  <2>1. pc[c] \in {"lua", "clear"} /\ Unref(c)
    BY <1>1 DEF ClearBy, EndClear
  <2> QED BY <2>1, UnrefAlone
<1>2. ASSUME NEW c \in Callers,
             CallerStep(c) \/ Enter(c) \/ Release(c) \/ ClearBy(c) \/ \E t \in Timers : Add(c, t)
      PROVE  met' = met
  BY <1>1, <1>2 DEF CallerStep, Lock, LockFails, LuaEnd, Submit, Insert, Release, Leave,
        EndStop, EndReset, EndJoin, Add, Enter, timerVars
<1>3. ASSUME NEW w \in VMs,
             WorkerStep(w) \/ CallbackClears(w) \/ \E t \in Timers : CallbackAdds(w, t)
      PROVE  met' = met
  BY <1>3 DEF WorkerStep, Start, Due, Callback, CallbackEnd, RunEnd, CallbackClears,
              CallbackAdds, timerVars
<1>4. CASE UNCHANGED vars
  BY <1>4 DEF vars, timerVars
<1> QED BY <1>2, <1>3, <1>4 DEF Next

(* A Worker gets busy only by a task. *)
LEMMA LoneStep == IInv /\ WorkerInv /\ LoneInv /\ [Next]_vars => LoneInv'
<1> SUFFICES ASSUME IInv, WorkerInv, LoneInv, [Next]_vars PROVE LoneInv'
  OBVIOUS
<1>0. wpc \in [VMs -> {"none", "idle", "run", "due", "callback", "stuck"}]
  BY DEF IInv, TypeInv
<1>1. ASSUME NEW w \in VMs, Start(w) PROVE LoneInv'
  <2>1. \A u \in VMs \ {w} : ~Busy(u)'
    BY <1>0, <1>1, StartsAlone DEF Start, Busy
  <2> QED BY <2>1 DEF LoneInv
<1>2. ASSUME \A u \in VMs : Busy(u)' => Busy(u) PROVE LoneInv'
  BY <1>2 DEF LoneInv
<1>3. ASSUME NEW c \in Callers,
             CallerStep(c) \/ Enter(c) \/ Release(c) \/ ClearBy(c) \/ \E t \in Timers : Add(c, t)
      PROVE  \A u \in VMs : Busy(u)' => Busy(u)
  <2>1. \/ wpc' = wpc
        \/ wpc' = [w \in VMs |-> IF w = worker[c] THEN "none" ELSE wpc[w]]
        \/ wpc' = [w \in VMs |-> IF w = made + 1 THEN "idle" ELSE IF w = executor THEN "none" ELSE wpc[w]]
    BY <1>3 DEF CallerStep, Lock, LockFails, LuaEnd, Submit, Insert, ClearBy, Release, Leave,
          EndClear, EndStop, EndReset, EndJoin, Add, Enter, MakeVM, workVars
  <2> QED BY <2>1 DEF Busy
<1>4. ASSUME NEW w \in VMs, ~Start(w),
             WorkerStep(w) \/ CallbackClears(w) \/ \E t \in Timers : CallbackAdds(w, t)
      PROVE  \A u \in VMs : Busy(u)' => Busy(u)
  <2>1. \/ wpc' = wpc
        \/ Busy(w) /\ \E l \in {"run", "due", "callback", "stuck", "idle"} : wpc' = [wpc EXCEPT ![w] = l]
    <3>1. CASE \E t \in Timers : CallbackAdds(w, t)
      <4>1. wpc[w] = "callback" /\ wpc' = [wpc EXCEPT ![w] = IF executor = 0 THEN @ ELSE "stuck"]
        BY <3>1 DEF CallbackAdds
      <4> QED BY <1>0, <4>1 DEF Busy
    <3>2. CASE CallbackClears(w)
      BY <3>2 DEF CallbackClears, workVars
    <3>3. CASE WorkerStep(w)
      BY <1>4, <3>3 DEF WorkerStep, Due, Callback, CallbackEnd, RunEnd, Busy
    <3> QED BY <1>4, <3>1, <3>2, <3>3
  <2> QED BY <1>0, <2>1 DEF Busy
<1>5. CASE UNCHANGED vars
  BY <1>2, <1>5 DEF vars, workVars, Busy
<1> QED BY <1>1, <1>2, <1>3, <1>4, <1>5 DEF Next

(* For any number of native threads and VMs: at most one native thread runs    *)
(* Lua code of a VM, the one that holds its vmMutex; at most one Worker is in  *)
(* a callback; and clearing timers brings two native threads together in a Lua *)
(* state only after a VM was made while another was alive.                     *)
THEOREM NativeThreadsApart == Spec => []AloneInLua
<1>1. Init => MetInv /\ LoneInv
  BY DEF Init, MetInv, LoneInv, Busy
<1>2. IInv /\ MetInv /\ LoneInv => AloneInLua
  <2> SUFFICES ASSUME IInv, MetInv, LoneInv PROVE AloneInLua
    OBVIOUS
  <2>1. \A v \in VMs : InLua(v) \subseteq {owner[v]}
    BY DEF IInv, OwnerInv, InLua, Inside
  <2>2. \A w \in InCallback : w \in VMs /\ Busy(w)
    BY DEF InCallback, Busy
  <2> QED BY <2>1, <2>2 DEF MetInv, LoneInv, AloneInLua
<1> QED BY <1>1, <1>2, MetStep, LoneStep, Invariance, VMsInvariant, WorkersInvariant, PTL DEF Spec
-----------------------------------------------------------------------------
(* The vmMutex of a VM is held by a native thread that is in its Lua state. *)
OwnedInv ==
  \A v \in VMs, c \in Callers : owner[v] = c => pc[c] \in Inside /\ vm[c] = v

(* Every step keeps that. *)
LEMMA OwnedStep == IInv /\ OwnedInv /\ [Next]_vars => OwnedInv'
<1> SUFFICES ASSUME IInv, OwnedInv, [Next]_vars PROVE OwnedInv'
  OBVIOUS
<1>0. /\ vm \in [Callers -> 0 .. MaxVMs] /\ pc \in [Callers -> Places]
      /\ owner \in [VMs -> Callers \cup {Nobody}] /\ Nobody \notin Callers
  BY DEF IInv, TypeInv
<1>1. ASSUME UNCHANGED <<owner, vm, pc>> PROVE OwnedInv'
  BY <1>1 DEF OwnedInv
<1>2. ASSUME NEW c \in Callers, pc[c] \notin Inside, owner' = owner,
             \A d \in Callers \ {c} : pc'[d] = pc[d] /\ vm'[d] = vm[d]
      PROVE  OwnedInv'
  BY <1>2 DEF OwnedInv
<1>3. ASSUME NEW c \in Callers,
             Enter(c) \/ Release(c) \/ Leave(c) \/ EndClear(c) \/ EndStop(c) \/ EndReset(c) \/ EndJoin(c) \/ LockFails(c)
      PROVE  OwnedInv'
  <2>1. pc[c] \notin Inside /\ owner' = owner
    BY <1>3 DEF Inside, Enter, Release, Leave, EndClear, EndStop, EndReset, EndJoin, LockFails, vmVars
  <2>2. ASSUME NEW d \in Callers \ {c} PROVE pc'[d] = pc[d] /\ vm'[d] = vm[d]
    BY <1>0, <1>3 DEF Enter, Release, Leave, EndClear, EndStop, EndReset, EndJoin, LockFails, Goto, vmVars
  <2> QED BY <1>2, <2>1, <2>2
<1>4. ASSUME NEW c \in Callers, Lock(c) PROVE OwnedInv'
  <2>1. /\ owner' = [owner EXCEPT ![vm[c]] = c] /\ vm' = vm /\ pc[c] = "lock"
        /\ pc' = [pc EXCEPT ![c] = "lua"]
    BY <1>4 DEF Lock, Goto
  <2>2. pc'[c] = "lua" /\ \A d \in Callers \ {c} : pc'[d] = pc[d]
    BY <1>0, <2>1
  <2> QED BY <1>0, <2>1, <2>2 DEF OwnedInv, Inside
<1>5. ASSUME NEW c \in Callers, LuaEnd(c) PROVE OwnedInv'
  <2>1. /\ owner' = [owner EXCEPT ![vm[c]] = Nobody] /\ vm' = vm /\ pc[c] = "lua"
        /\ pc' = [pc EXCEPT ![c] = "leave"]
    BY <1>5 DEF LuaEnd, Goto
  <2>2. \A d \in Callers \ {c} : pc'[d] = pc[d]
    BY <1>0, <2>1
  <2> QED BY <1>0, <2>1, <2>2 DEF OwnedInv
<1>6. ASSUME NEW c \in Callers,
             Submit(c) \/ Insert(c) \/ ClearBy(c) \/ \E t \in Timers : Add(c, t)
      PROVE  OwnedInv'
  <2>1. /\ UNCHANGED <<owner, vm>>
        /\ pc' = pc \/ \E l \in Inside : pc' = [pc EXCEPT ![c] = l]
    BY <1>6 DEF Submit, Insert, ClearBy, Add, Goto, Inside, vmVars, callVars
  <2>2. \A d \in Callers : pc[d] \in Inside => pc'[d] \in Inside
    BY <1>0, <2>1
  <2> QED BY <2>1, <2>2 DEF OwnedInv
<1>7. ASSUME NEW w \in VMs,
             WorkerStep(w) \/ CallbackClears(w) \/ \E t \in Timers : CallbackAdds(w, t)
      PROVE  OwnedInv'
  <2>1. UNCHANGED <<vmVars, callVars>>
    BY <1>7 DEF WorkerStep, Start, Due, Callback, CallbackEnd, RunEnd, CallbackClears, CallbackAdds
  <2> QED BY <1>1, <2>1 DEF vmVars, callVars
<1>8. CASE UNCHANGED vars
  BY <1>1, <1>8 DEF vars, vmVars, callVars
<1>9. ASSUME NEW c \in Callers,
             CallerStep(c) \/ Enter(c) \/ Release(c) \/ ClearBy(c) \/ \E t \in Timers : Add(c, t)
      PROVE  OwnedInv'
  BY <1>3, <1>4, <1>5, <1>6, <1>9 DEF CallerStep
<1> QED BY <1>7, <1>8, <1>9 DEF Next

(* Who waits for a Worker that is there, and that nobody else takes away. *)
PoolInv ==
  /\ executor # 0 => wpc[executor] # "none" /\ executor <= made
  /\ \A c \in Callers :
       /\ worker[c] <= made
       /\ worker[c] # 0 => pc[c] \in {"submit", "insert", "join"}
       /\ pc[c] = "submit" => wpc[worker[c]] # "none"
       /\ pc[c] = "join" /\ worker[c] # 0 =>
            /\ wpc[worker[c]] # "none" /\ worker[c] # executor
            /\ \A d \in Callers \ {c} : pc[d] = "join" => worker[d] # worker[c]

(* Every step keeps that. *)
LEMMA PoolStep == IInv /\ PoolInv /\ [Next]_vars => PoolInv'
<1> SUFFICES ASSUME IInv, PoolInv, [Next]_vars PROVE PoolInv'
  OBVIOUS
<1>0. /\ pc \in [Callers -> Places] /\ worker \in [Callers -> 0 .. MaxVMs]
      /\ executor \in 0 .. MaxVMs /\ made \in 0 .. MaxVMs
      /\ wpc \in [VMs -> {"none", "idle", "run", "due", "callback", "stuck"}]
  BY DEF IInv, TypeInv
<1>1. ASSUME UNCHANGED <<executor, made, worker, wpc, pc>> PROVE PoolInv'
  BY <1>1 DEF PoolInv
<1>2. ASSUME NEW c \in Callers, NEW l \in Places, pc[c] \notin {"submit", "insert", "join"},
             l \notin {"submit", "join"}, pc' = [pc EXCEPT ![c] = l],
             UNCHANGED <<executor, made, worker, wpc>>
      PROVE  PoolInv'
  <2>1. worker[c] = 0
    BY <1>0, <1>2 DEF PoolInv
  <2>2. pc'[c] = l /\ \A d \in Callers \ {c} : pc'[d] = pc[d]
    BY <1>0, <1>2
  <2> QED BY <1>2, <2>1, <2>2 DEF PoolInv
<1>3. ASSUME NEW c \in Callers,
             Release(c) \/ Leave(c) \/ Lock(c) \/ LockFails(c) \/ LuaEnd(c) \/ EndClear(c) \/ EndStop(c) \/ ClearBy(c)
      PROVE  PoolInv'
  <2>1. UNCHANGED <<executor, made, worker, wpc>>
    BY <1>3 DEF Release, Leave, Lock, LockFails, LuaEnd, EndClear, EndStop, ClearBy, vmVars, callVars, workVars
  <2>2. \/ pc' = pc
        \/ /\ pc[c] \notin {"submit", "insert", "join"}
           /\ \E l \in Places \ {"submit", "join"} : pc' = [pc EXCEPT ![c] = l]
    BY <1>3 DEF Release, Leave, Lock, LockFails, LuaEnd, EndClear, EndStop, ClearBy, Goto, Places, callVars
  <2> QED BY <1>1, <1>2, <2>1, <2>2
<1>4. ASSUME NEW c \in Callers, NEW t \in Timers, Add(c, t) PROVE PoolInv'
  <2>1. CASE executor = 0
    BY <1>1, <1>4, <2>1 DEF Add, vmVars, workVars
  <2>2. CASE executor # 0
    <3>1. /\ pc[c] = "lua" /\ pc' = [pc EXCEPT ![c] = "submit"]
          /\ worker' = [worker EXCEPT ![c] = executor] /\ UNCHANGED <<executor, made, wpc>>
      BY <1>4, <2>2 DEF Add, Goto, vmVars, workVars
    <3>2. /\ pc'[c] = "submit" /\ worker'[c] = executor
          /\ \A d \in Callers \ {c} : pc'[d] = pc[d] /\ worker'[d] = worker[d]
      BY <1>0, <3>1
    <3> QED BY <1>0, <2>2, <3>1, <3>2 DEF PoolInv
  <2> QED BY <2>1, <2>2
<1>5. ASSUME NEW c \in Callers, Submit(c) PROVE PoolInv'
  <2>1. /\ pc[c] = "submit" /\ pc' = [pc EXCEPT ![c] = "insert"]
        /\ UNCHANGED <<executor, made, worker, wpc>>
    BY <1>5 DEF Submit, Goto, vmVars
  <2>2. pc'[c] = "insert" /\ \A d \in Callers \ {c} : pc'[d] = pc[d]
    BY <1>0, <2>1
  <2> QED BY <2>1, <2>2 DEF PoolInv
<1>6. ASSUME NEW c \in Callers, Insert(c) PROVE PoolInv'
  <2>1. /\ pc[c] = "insert" /\ pc' = [pc EXCEPT ![c] = "lua"]
        /\ worker' = [worker EXCEPT ![c] = 0] /\ UNCHANGED <<executor, made, wpc>>
    BY <1>6 DEF Insert, Goto, vmVars, workVars
  <2>2. /\ pc'[c] = "lua" /\ worker'[c] = 0
        /\ \A d \in Callers \ {c} : pc'[d] = pc[d] /\ worker'[d] = worker[d]
    BY <1>0, <2>1
  <2> QED BY <1>0, <2>1, <2>2 DEF PoolInv
<1>7. ASSUME NEW c \in Callers, Enter(c) PROVE PoolInv'
  <2>1. pc[c] = "idle" /\ pc' = [pc EXCEPT ![c] = "lock"] /\ worker' = worker
    BY <1>7 DEF Enter
  <2>2. CASE UNCHANGED <<executor, made, wpc>>
    BY <1>2, <2>1, <2>2 DEF Places
  <2>3. CASE MakeVM(made + 1)
    <3> DEFINE v == made + 1
    <3>1. /\ \A d \in Callers : pc[d] # "submit"
          /\ executor' = v /\ made' = v
          /\ wpc' = [w \in VMs |-> IF w = v THEN "idle" ELSE IF w = executor THEN "none" ELSE wpc[w]]
      BY <2>3 DEF MakeVM
    <3>2. v \in VMs
      <4>1. bridge' \in 0 .. MaxVMs /\ made < MaxVMs
        BY <1>0, <1>7, <2>3 DEF Enter, MakeVM
      <4> QED BY <1>0, <4>1
    <3>3. pc'[c] = "lock" /\ \A d \in Callers \ {c} : pc'[d] = pc[d]
      BY <1>0, <2>1
    <3>4. worker[c] = 0
      BY <1>0, <2>1 DEF PoolInv
    <3>5. executor' # 0 => wpc'[executor'] # "none" /\ executor' <= made'
      BY <1>0, <3>1, <3>2
    <3>6. ASSUME NEW d \in Callers
          PROVE  /\ worker'[d] <= made'
                 /\ worker'[d] # 0 => pc'[d] \in {"submit", "insert", "join"}
                 /\ pc'[d] # "submit"
      BY <1>0, <2>1, <3>1, <3>3, <3>4 DEF PoolInv
    <3>7. ASSUME NEW d \in Callers, pc'[d] = "join", worker'[d] # 0
          PROVE  /\ wpc'[worker'[d]] # "none" /\ worker'[d] # executor'
                 /\ \A e \in Callers \ {d} : pc'[e] = "join" => worker'[e] # worker'[d]
      <4>1. d # c /\ pc[d] = "join" /\ worker'[d] = worker[d] /\ worker[d] \in VMs
        BY <1>0, <2>1, <3>3, <3>7
      <4>2. wpc[worker[d]] # "none" /\ worker[d] # executor /\ worker[d] <= made
        BY <4>1 DEF PoolInv
      <4>3. worker[d] # v
        BY <1>0, <4>1, <4>2
      <4>4. wpc'[worker[d]] = wpc[worker[d]]
        BY <3>1, <4>1, <4>2, <4>3
      <4>5. \A e \in Callers \ {d} : pc'[e] = "join" => worker'[e] # worker'[d]
        BY <2>1, <3>3, <3>7, <4>1 DEF PoolInv
      <4> QED BY <3>1, <4>1, <4>2, <4>3, <4>4, <4>5
    <3> HIDE DEF v
    <3> QED BY <3>5, <3>6, <3>7 DEF PoolInv
  <2> QED BY <1>7, <2>2, <2>3 DEF Enter
<1>8. ASSUME NEW c \in Callers, EndReset(c) PROVE PoolInv'
  <2>1. /\ pc[c] = "reset" /\ pc' = [pc EXCEPT ![c] = "join"] /\ executor' = 0
        /\ worker' = [worker EXCEPT ![c] = executor] /\ UNCHANGED <<wpc, made>>
    BY <1>8 DEF EndReset, Goto, vmVars
  <2>2. /\ pc'[c] = "join" /\ worker'[c] = executor
        /\ \A d \in Callers \ {c} : pc'[d] = pc[d] /\ worker'[d] = worker[d]
    BY <1>0, <2>1
  <2> QED BY <1>0, <2>1, <2>2 DEF PoolInv
<1>9. ASSUME NEW c \in Callers, EndJoin(c) PROVE PoolInv'
  <2>1. /\ pc[c] = "join" /\ pc' = [pc EXCEPT ![c] = "idle"]
        /\ worker' = [worker EXCEPT ![c] = 0] /\ UNCHANGED <<executor, made>>
        /\ wpc' = [w \in VMs |-> IF w = worker[c] THEN "none" ELSE wpc[w]]
        /\ worker[c] # 0 => \A d \in Callers \ {c} : worker[d] # worker[c]
    BY <1>9 DEF EndJoin, Goto
  <2>2. /\ pc'[c] = "idle" /\ worker'[c] = 0
        /\ \A d \in Callers \ {c} : pc'[d] = pc[d] /\ worker'[d] = worker[d]
    BY <1>0, <2>1
  <2>3. \A w \in VMs : w # worker[c] => wpc'[w] = wpc[w]
    BY <2>1
  <2>4. executor # 0 => executor \in VMs /\ executor # worker[c]
    BY <1>0, <2>1 DEF PoolInv
  <2>5. \A d \in Callers \ {c} : worker[d] # 0 => worker[d] \in VMs /\ worker[d] # worker[c]
    BY <1>0, <2>1
  <2>6. ASSUME NEW d \in Callers
        PROVE  /\ worker'[d] <= made'
               /\ worker'[d] # 0 => pc'[d] \in {"submit", "insert", "join"}
    BY <1>0, <2>1, <2>2 DEF PoolInv
  <2>7. ASSUME NEW d \in Callers, pc'[d] = "submit" PROVE wpc'[worker'[d]] # "none"
    <3>1. d # c /\ pc[d] = "submit" /\ worker'[d] = worker[d] /\ worker[d] \in VMs
      BY <2>2, <2>7 DEF IInv, AddingInv, Adding
    <3> QED BY <2>3, <2>5, <3>1 DEF PoolInv
  <2>8. ASSUME NEW d \in Callers, pc'[d] = "join", worker'[d] # 0
        PROVE  /\ wpc'[worker'[d]] # "none" /\ worker'[d] # executor'
               /\ \A e \in Callers \ {d} : pc'[e] = "join" => worker'[e] # worker'[d]
    <3>1. d # c /\ pc[d] = "join" /\ worker'[d] = worker[d] /\ worker[d] # 0
      BY <2>2, <2>8
    <3>2. wpc'[worker[d]] = wpc[worker[d]]
      BY <2>3, <2>5, <3>1
    <3>3. \A e \in Callers \ {d} : pc'[e] = "join" => worker'[e] # worker'[d]
      BY <2>2, <3>1 DEF PoolInv
    <3> QED BY <2>1, <3>1, <3>2, <3>3 DEF PoolInv
  <2> QED BY <2>1, <2>3, <2>4, <2>6, <2>7, <2>8 DEF PoolInv
<1>a. ASSUME NEW w \in VMs,
             WorkerStep(w) \/ CallbackClears(w) \/ \E t \in Timers : CallbackAdds(w, t)
      PROVE  PoolInv'
  <2>1. UNCHANGED <<vmVars, callVars, executor>>
    BY <1>a DEF WorkerStep, Start, Due, Callback, CallbackEnd, RunEnd, CallbackClears, CallbackAdds
  <2>2. \/ wpc' = wpc
        \/ wpc[w] # "none" /\ wpc'[w] # "none" /\ \A u \in VMs \ {w} : wpc'[u] = wpc[u]
    BY <1>0, <1>a DEF WorkerStep, Start, Due, Callback, CallbackEnd, RunEnd, CallbackClears,
                      CallbackAdds, workVars
  <2>3. \A u : wpc[u] # "none" /\ u \in VMs => wpc'[u] # "none"
    BY <2>2
  <2>4. /\ executor # 0 => executor \in VMs
        /\ \A c \in Callers : (worker[c] # 0 => worker[c] \in VMs) /\ (pc[c] = "submit" => worker[c] \in VMs)
    BY <1>0 DEF IInv, AddingInv, Adding
  <2> QED BY <2>1, <2>3, <2>4 DEF PoolInv, vmVars, callVars
<1>b. CASE UNCHANGED vars
  BY <1>1, <1>b DEF vars, vmVars, callVars, workVars
<1>c. ASSUME NEW c \in Callers,
             CallerStep(c) \/ Enter(c) \/ Release(c) \/ ClearBy(c) \/ \E t \in Timers : Add(c, t)
      PROVE  PoolInv'
  BY <1>3, <1>4, <1>5, <1>6, <1>7, <1>8, <1>9, <1>c DEF CallerStep
<1> QED BY <1>a, <1>b, <1>c DEF Next

(* The guards of CallerStep, and those of what a Worker in its loop does. *)
CanGoOn(c) ==
  \/ pc[c] \in {"lua", "insert", "leave", "clear", "stop", "reset"}
  \/ pc[c] = "lock" /\ (c \in Loaders => owner[vm[c]] = Nobody)
  \/ pc[c] = "submit" /\ wpc[worker[c]] = "idle"
  \/ /\ pc[c] = "join"
     /\ worker[c] # 0 => wpc[worker[c]] = "idle" /\ \A d \in Callers \ {c} : worker[d] # worker[c]
InLoop(w) == wpc[w] \in {"run", "due", "callback"}

(* Native threads wait for vmMutex, for the Worker that is to take a timer,   *)
(* and for the one that they join, each of which another thread may hold or   *)
(* hand on.  They never all wait for each other: as long as a thread is       *)
(* inside the library, one of those can go on, or a Worker can in its loop    *)
(* (for ever, when a timer repeats), or a callback has called Timer.add and   *)
(* is stuck.                                                                  *)
THEOREM OnlyCallbacksBlock ==
  Spec => []((\E c \in Callers : pc[c] # "idle") =>
               \/ \E c \in Callers : CanGoOn(c)
               \/ \E w \in VMs : InLoop(w)
               \/ Stuck)
<1>1. ASSUME IInv, PoolInv, NEW w \in VMs, wpc[w] \notin {"none", "idle"}
      PROVE  InLoop(w) \/ Stuck
  BY <1>1 DEF IInv, TypeInv, InLoop, Stuck
<1>2. ASSUME IInv, PoolInv, NEW c \in Callers, pc[c] \in Inside
      PROVE  CanGoOn(c) \/ Stuck \/ \E w \in VMs : InLoop(w)
  <2>1. CASE pc[c] = "submit"
    <3>1. worker[c] \in VMs /\ wpc[worker[c]] # "none"
      BY <1>2, <2>1 DEF IInv, AddingInv, Adding, PoolInv
    <3> QED BY <1>1, <1>2, <2>1, <3>1 DEF CanGoOn
  <2> QED BY <1>2, <2>1 DEF Inside, CanGoOn
<1>3. ASSUME IInv, OwnedInv, PoolInv, NEW c \in Callers, pc[c] = "lock"
      PROVE  \/ \E d \in Callers : CanGoOn(d)
             \/ Stuck \/ \E w \in VMs : InLoop(w)
  <2>1. CASE owner[vm[c]] = Nobody
    BY <1>3, <2>1 DEF CanGoOn
  <2>2. CASE owner[vm[c]] # Nobody
    <3>1. vm[c] \in VMs /\ owner[vm[c]] \in Callers
      BY <1>3, <2>2 DEF IInv, OwnerInv, TypeInv
    <3>2. pc[owner[vm[c]]] \in Inside
      BY <1>3, <3>1 DEF OwnedInv
    <3> QED BY <1>2, <1>3, <3>1, <3>2
  <2> QED BY <2>1, <2>2
<1>4. ASSUME IInv, PoolInv, NEW c \in Callers, pc[c] = "join"
      PROVE  \/ \E d \in Callers : CanGoOn(d)
             \/ Stuck \/ \E w \in VMs : InLoop(w)
  <2>1. CASE worker[c] = 0
    BY <1>4, <2>1 DEF CanGoOn
  <2>2. CASE worker[c] # 0
    <3>1. worker[c] \in VMs /\ wpc[worker[c]] # "none"
      BY <1>4, <2>2 DEF IInv, TypeInv, PoolInv
    <3>2. CASE wpc[worker[c]] # "idle"
      BY <1>1, <1>4, <3>1, <3>2
    <3>3. ASSUME NEW d \in Callers \ {c}, worker[d] = worker[c]
          PROVE  CanGoOn(d) \/ Stuck \/ \E w \in VMs : InLoop(w)
      <4>1. pc[d] \in {"submit", "insert"}
        BY <1>4, <2>2, <3>3 DEF PoolInv
      <4> QED BY <1>2, <1>4, <4>1 DEF Inside
    <3> QED BY <1>4, <2>2, <3>2, <3>3 DEF CanGoOn
  <2> QED BY <2>1, <2>2
<1>5. IInv /\ OwnedInv /\ PoolInv =>
        ((\E c \in Callers : pc[c] # "idle") =>
           \/ \E c \in Callers : CanGoOn(c)
           \/ \E w \in VMs : InLoop(w)
           \/ Stuck)
  <2> SUFFICES ASSUME IInv, OwnedInv, PoolInv, NEW c \in Callers, pc[c] # "idle"
               PROVE  \/ \E d \in Callers : CanGoOn(d)
                      \/ Stuck \/ \E w \in VMs : InLoop(w)
    OBVIOUS
  <2>1. pc[c] \in Inside \cup {"lock", "leave", "clear", "stop", "reset", "join"}
    BY DEF IInv, TypeInv, Places, Inside
  <2>2. CASE pc[c] \in {"leave", "clear", "stop", "reset"}
    BY <2>2 DEF CanGoOn
  <2> QED BY <1>2, <1>3, <1>4, <2>1, <2>2
<1>6. Init => OwnedInv /\ PoolInv
  BY DEF Init, OwnedInv, PoolInv
<1> QED BY <1>5, <1>6, OwnedStep, PoolStep, Invariance, PTL DEF Spec

(* And a callback that is stuck stays there: no destructor gets past joining *)
(* its Worker, and no new VM takes the place of the one that it is in.       *)
THEOREM StuckForEver == Spec => [](Stuck => []Stuck)
<1>1. IInv /\ Stuck /\ [Next]_vars => Stuck'
  <2> SUFFICES ASSUME IInv, [Next]_vars, NEW w \in VMs, wpc[w] = "stuck" PROVE wpc'[w] = "stuck"
    BY DEF Stuck
  <2>0. wpc \in [VMs -> {"none", "idle", "run", "due", "callback", "stuck"}]
    BY DEF IInv, TypeInv
  <2>1. ASSUME NEW c \in Callers, Enter(c) PROVE wpc'[w] = "stuck"
    BY <2>1 DEF Enter, MakeVM
  <2>2. ASSUME NEW c \in Callers, EndJoin(c) PROVE wpc'[w] = "stuck"
    BY <2>2 DEF EndJoin
  <2>3. ASSUME NEW c \in Callers,
               \/ Lock(c) \/ LockFails(c) \/ LuaEnd(c) \/ Submit(c) \/ Insert(c) \/ ClearBy(c)
               \/ Release(c) \/ Leave(c) \/ EndClear(c) \/ EndStop(c) \/ EndReset(c)
               \/ \E t \in Timers : Add(c, t)
        PROVE  wpc' = wpc
    BY <2>3 DEF Lock, LockFails, LuaEnd, Submit, Insert, ClearBy, Release, Leave, EndClear,
                EndStop, EndReset, Add, workVars
  <2>4. ASSUME NEW u \in VMs,
               WorkerStep(u) \/ CallbackClears(u) \/ \E t \in Timers : CallbackAdds(u, t)
        PROVE  wpc'[w] = "stuck"
    BY <2>0, <2>4 DEF WorkerStep, Start, Due, Callback, CallbackEnd, RunEnd, CallbackClears,
                      CallbackAdds, workVars
  <2>5. CASE UNCHANGED vars
    BY <2>5 DEF vars, workVars
  <2> QED BY <2>1, <2>2, <2>3, <2>4, <2>5 DEF Next, CallerStep
<1> QED BY <1>1, Invariance, PTL DEF Spec
=============================================================================
