---------------------------- MODULE ExecutorProofs ---------------------------
(***************************************************************************)
(* Proofs about Executor for every number of clients, tasks and Workers:   *)
(* types, round robin, one place for each task, the end of ~Executor, and  *)
(* the one way in which operator>> can block for good.                     *)
(***************************************************************************)
EXTENDS Executor, FiniteSetTheorems, SequenceTheorems, TLAPS

USE ExecutorAssumption DEF ExecutorAssumption, Threads, Workers

(* Executor::mutex is held by the thread that is inside operator>>, and by it alone. *)
Inner == {"grow", "dispatch", "leave"}
MutexInv == \A p \in Threads : pc[p] \in Inner <=> emtx = p

(* Whoever is inside operator>> is there with a task that it called with. *)
ArgInv == \A p \in Threads : pc[p] # "idle" => arg[p] \in known

(* The turn is below the capacity, which only an empty pool lets be 0. *)
TurnInv == capacity > 0 => index < capacity

(* A Worker is inside operator>> only for the task that it runs. *)
NestInv ==
  \A w \in Workers : pc[w] # "idle" => running[w] # NoTask /\ Child[running[w]] = arg[w]

IInv == TypeOK /\ MutexInv /\ ArgInv /\ NestInv /\ TurnInv /\ IndexInPool

(* The variables start with their types. *)
LEMMA InitIInv == Init => IInv
<1> SUFFICES ASSUME Init PROVE IInv
  OBVIOUS
<1>1. capacity \in 0 .. Largest /\ size = 0 /\ index = 0
  BY DEF Init
<1>2. TypeOK
  BY <1>1 DEF Init, TypeOK
<1>3. MutexInv /\ ArgInv /\ NestInv
  BY DEF Init, MutexInv, ArgInv, NestInv, Inner
<1>4. TurnInv /\ IndexInPool
  BY <1>1 DEF Init, TurnInv, IndexInPool
<1> QED BY <1>2, <1>3, <1>4 DEF IInv

(* The next turn: one more, or the first Worker after the last. *)
LEMMA NextTurn ==
  ASSUME NEW c \in Nat, NEW i \in Nat, i < c
  PROVE  (i + 1) % c = IF i + 1 < c THEN i + 1 ELSE 0
OBVIOUS

(* Types.  Only the steps that move tasks need facts about sequences. *)
LEMMA TypeStep == IInv /\ [Next]_vars => TypeOK'
<1> SUFFICES ASSUME IInv, [Next]_vars PROVE TypeOK'
  OBVIOUS
<1> USE DEF IInv, TypeOK, taskVars, callVars, endVars
<1>1. ASSUME NEW c \in Clients, NEW t \in Tasks, Call(c, t) PROVE TypeOK'
  BY <1>1 DEF Call, Enter
<1>2. ASSUME NEW w \in Workers, NestedCall(w) PROVE TypeOK'
  <2>1. Child[running[w]] \in Tasks
    BY <1>2 DEF NestedCall, HasToCall
  <2> QED BY <1>2, <2>1 DEF NestedCall, Enter
<1>3. ASSUME NEW p \in Threads, Lock(p) PROVE TypeOK'
  BY <1>3 DEF Lock, ArgInv
<1>4. ASSUME NEW p \in Threads, Inside(p) PROVE TypeOK'
  <2>1. CASE Grow(p) BY <2>1 DEF Grow
  <2>2. CASE GrowFails(p) BY <2>2 DEF GrowFails, ArgInv
  <2>3. CASE Full(p) BY <2>3 DEF Full
  <2>4. CASE DispatchOutOfRange(p) BY <2>4 DEF DispatchOutOfRange, ArgInv
  <2>5. CASE Leave(p) BY <2>5 DEF Leave
  <2> QED BY <1>4, <2>1, <2>2, <2>3, <2>4, <2>5 DEF Inside
<1>5. ASSUME NEW p \in Threads, Dispatch(p) PROVE TypeOK'
  <2>a. arg[p] \in Tasks /\ index \in Workers
    BY <1>5 DEF Dispatch, ArgInv
  <2>b. waiting[index] \in Seq(Tasks)
    BY <2>a
  <2>1. Append(waiting[index], arg[p]) \in Seq(Tasks)
    <3> HIDE DEF IInv
    <3> QED BY <2>a, <2>b, AppendProperties
  <2>2. (index + 1) % capacity \in 0 .. Largest
    BY <1>5, NextTurn DEF Dispatch, TurnInv
  <2> QED BY <1>5, <2>a, <2>1, <2>2 DEF Dispatch
<1>6. ASSUME NEW w \in Workers, Begin(w) PROVE TypeOK'
  <2>1. Head(waiting[w]) \in Tasks /\ Tail(waiting[w]) \in Seq(Tasks)
    BY <1>6, HeadTailProperties DEF Begin
  <2> QED BY <1>6, <2>1 DEF Begin
<1>7. ASSUME NEW w \in Workers, End(w) PROVE TypeOK'
  <2>1. running[w] \in Tasks /\ done[w] \in Seq(Tasks)
    BY <1>7 DEF End
  <2>2. Append(done[w], running[w]) \in Seq(Tasks)
    BY <2>1, AppendProperties
  <2> QED BY <1>7, <2>2 DEF End
<1>8. ASSUME NEW w \in Workers, StopWorker(w) \/ Close(w) \/ JoinWorker(w) PROVE TypeOK'
  BY <1>8 DEF StopWorker, Close, JoinWorker
<1>9. CASE DestroyCall \/ DestroyReturn
  BY <1>9 DEF DestroyCall, DestroyReturn
<1>10. CASE UNCHANGED vars BY <1>10 DEF vars
<1> QED BY <1>1, <1>2, <1>3, <1>4, <1>5, <1>6, <1>7, <1>8, <1>9, <1>10 DEF Next

(* The mutex, the arguments and the turn.  A step of one thread inside       *)
(* operator>> finds no other there.  Growing and the turn drift apart only   *)
(* between grow and dispatch of one thread.                                  *)
CallInv == MutexInv /\ ArgInv /\ NestInv /\ TurnInv /\ IndexInPool

(* What holds of the threads inside operator>> is kept by every step. *)
LEMMA CallStep == IInv /\ [Next]_vars => CallInv'
<1> SUFFICES ASSUME IInv, [Next]_vars PROVE CallInv'
  OBVIOUS
<1> USE DEF IInv, TypeOK, CallInv, MutexInv, ArgInv, NestInv, TurnInv, IndexInPool, Inner
<1> USE DEF taskVars, callVars, endVars
<1>1. ASSUME NEW p \in Threads, NEW t \in Tasks, pc[p] = "idle", Enter(p, t),
             p \in Workers => running[p] # NoTask /\ Child[running[p]] = t
      PROVE  CallInv'
  BY <1>1 DEF Enter
<1>2. ASSUME NEW p \in Threads, Lock(p) PROVE CallInv'
  BY <1>2 DEF Lock
<1>3. ASSUME NEW p \in Threads, Grow(p) PROVE CallInv'
  BY <1>3 DEF Grow
<1>4. ASSUME NEW p \in Threads, GrowFails(p) PROVE CallInv'
  BY <1>4 DEF GrowFails
<1>5. ASSUME NEW p \in Threads, Full(p) PROVE CallInv'
  BY <1>5 DEF Full
<1>6. ASSUME NEW p \in Threads, DispatchOutOfRange(p) PROVE CallInv'
  BY <1>6 DEF DispatchOutOfRange
<1>7. ASSUME NEW p \in Threads, Leave(p) PROVE CallInv'
  BY <1>7 DEF Leave
<1>8. ASSUME NEW p \in Threads, Dispatch(p) PROVE CallInv'
  <2>1. capacity > 0 /\ index < capacity
    BY <1>8 DEF Dispatch
  <2>a. capacity \in Nat /\ index \in Nat
    OBVIOUS
  <2> HIDE DEF IInv
  <2>2. (index + 1) % capacity = IF index + 1 < capacity THEN index + 1 ELSE 0
    BY <2>1, <2>a, NextTurn
  <2> USE DEF IInv
  <2>3. /\ index' = (IF index + 1 < capacity THEN index + 1 ELSE 0)
        /\ UNCHANGED <<capacity, size, running, arg, known, emtx>>
        /\ pc' = [pc EXCEPT ![p] = "leave"]
        /\ pc[p] = "dispatch" /\ \A q \in Threads \ {p} : pc[q] # "dispatch"
    BY <1>8, <2>2 DEF Dispatch
  <2>4. MutexInv' /\ ArgInv' /\ NestInv'
    BY <2>3
  <2>5. TurnInv' /\ IndexInPool'
    BY <2>1, <2>3
  <2> QED BY <2>4, <2>5
<1>9. ASSUME NEW c \in Clients, NEW t \in Tasks, Call(c, t) PROVE CallInv'
  BY <1>1, <1>9 DEF Call
<1>10. ASSUME NEW w \in Workers, NestedCall(w) PROVE CallInv'
  <2>a. running[w] # NoTask /\ Child[running[w]] \notin known \cup {NoTask}
    BY <1>10 DEF NestedCall, HasToCall
  <2>b. running[w] \in Tasks
    BY <2>a
  <2>c. Child[running[w]] \in Tasks
    BY <2>a, <2>b
  <2>d. pc[w] # "idle" => Child[running[w]] = arg[w] /\ arg[w] \in known
    OBVIOUS
  <2>1. running[w] # NoTask /\ Child[running[w]] \in Tasks /\ pc[w] = "idle"
    BY <2>a, <2>c, <2>d
  <2>2. Enter(w, Child[running[w]])
    BY <1>10 DEF NestedCall
  <2>3. w \in Threads
    OBVIOUS
  <2> HIDE DEF CallInv, IInv
  <2> QED BY <1>1, <2>1, <2>2, <2>3
<1>11. ASSUME NEW w \in Workers, Begin(w) PROVE CallInv'
  <2>1. UNCHANGED <<pc, arg, known, emtx, capacity, size, index>> /\ pc[w] = "idle"
    BY <1>11 DEF Begin
  <2>2. \A v \in Workers \ {w} : running'[v] = running[v]
    BY <1>11 DEF Begin
  <2> QED BY <2>1, <2>2
<1>12. ASSUME NEW w \in Workers, End(w) PROVE CallInv'
  <2>1. UNCHANGED <<pc, arg, known, emtx, capacity, size, index>> /\ pc[w] = "idle"
    BY <1>12 DEF End
  <2>2. \A v \in Workers \ {w} : running'[v] = running[v]
    BY <1>12 DEF End
  <2> QED BY <2>1, <2>2
<1>13. ASSUME UNCHANGED <<pc, arg, known, emtx, capacity, size, index, running>> PROVE CallInv'
  BY <1>13
<1>14. ASSUME NEW w \in Workers, StopWorker(w) \/ Close(w) \/ JoinWorker(w) PROVE CallInv'
  BY <1>13, <1>14 DEF StopWorker, Close, JoinWorker
<1>15. CASE DestroyCall \/ DestroyReturn \/ UNCHANGED vars
  BY <1>13, <1>15 DEF DestroyCall, DestroyReturn, vars
<1> QED BY <1>2, <1>3, <1>4, <1>5, <1>6, <1>7, <1>8, <1>9, <1>10, <1>11, <1>12, <1>14, <1>15 DEF Next, Inside

(* The inductive invariant holds in every state. *)
LEMMA Invariance == Spec => []IInv
<1>1. IInv /\ [Next]_vars => IInv'
  BY TypeStep, CallStep DEF IInv, CallInv
<1> QED BY InitIInv, <1>1, PTL DEF Spec

(* Every variable keeps its type, whatever fails on the way. *)
THEOREM TypeCorrect == Spec => []TypeOK
BY Invariance, PTL DEF IInv

(* The turn names a Worker whenever a task is handed out. *)
THEOREM TurnIsInPool == Spec => []IndexInPool
BY Invariance, PTL DEF IInv
-----------------------------------------------------------------------------
(* How many tasks each Worker has taken, as one function. *)
Counts == [w \in Workers |-> Taken(w)]
Busy(t) == IF t = NoTask THEN 0 ELSE 1
Size(s) == Len(s)

(* A Worker that runs a task counts one. *)
LEMMA BusyIs == \A t : Busy(t) \in Nat /\ (t = NoTask => Busy(t) = 0) /\ (t # NoTask => Busy(t) = 1)
BY DEF Busy

(* What a Worker has taken, in terms of its queue. *)
LEMMA CountsIs ==
  ASSUME NEW w \in Workers
  PROVE  Counts[w] = Size(waiting[w]) + Size(done[w]) + Busy(running[w])
BY DEF Counts, Taken, Busy, Size

(* The same, after a step. *)
LEMMA CountsNext ==
  ASSUME NEW w \in Workers
  PROVE  Counts'[w] = Size(waiting'[w]) + Size(done'[w]) + Busy(running'[w])
BY DEF Counts, Taken, Busy, Size

(* How the length of a queue changes. *)
LEMMA SizeIs ==
  ASSUME NEW s \in Seq(Tasks)
  PROVE  /\ Size(s) \in Nat
         /\ \A t \in Tasks : Size(Append(s, t)) = Size(s) + 1
         /\ s # <<>> => Size(Tail(s)) = Size(s) - 1
BY LenProperties, AppendProperties, HeadTailProperties DEF Size

(* A Worker has taken a number of tasks. *)
LEMMA CountsType == ASSUME TypeOK, NEW w \in Workers PROVE Counts[w] \in Nat
<1>1. Size(waiting[w]) \in Nat /\ Size(done[w]) \in Nat
  BY SizeIs DEF TypeOK
<1> QED BY <1>1, CountsIs, BusyIs

(* Taking a task counts one more; beginning and ending one counts the same. *)
LEMMA CountsDispatch ==
  ASSUME IInv, NEW p \in Threads, Dispatch(p)
  PROVE  /\ index \in Workers /\ Counts'[index] = Counts[index] + 1
         /\ \A w \in Workers \ {index} : Counts'[w] = Counts[w]
<1>1. index \in Workers /\ arg[p] \in Tasks
  BY DEF Dispatch, IInv, TypeOK, ArgInv
<1>2. /\ waiting'[index] = Append(waiting[index], arg[p])
      /\ \A w \in Workers \ {index} : waiting'[w] = waiting[w]
      /\ UNCHANGED <<running, done>>
  BY <1>1 DEF Dispatch, IInv, TypeOK
<1>3. /\ Size(waiting'[index]) = Size(waiting[index]) + 1
      /\ Size(waiting[index]) \in Nat /\ Size(done[index]) \in Nat
  BY <1>1, <1>2, SizeIs DEF IInv, TypeOK
<1>4. Counts'[index] = Counts[index] + 1
  <2>1. Counts[index] = Size(waiting[index]) + Size(done[index]) + Busy(running[index])
    BY <1>1, CountsIs
  <2>2. Counts'[index] = Size(waiting'[index]) + Size(done[index]) + Busy(running[index])
    BY <1>1, <1>2, CountsNext
  <2>3. Busy(running[index]) \in Nat
    BY BusyIs
  <2> QED BY <1>3, <2>1, <2>2, <2>3
<1>5. \A w \in Workers \ {index} : Counts'[w] = Counts[w]
  BY <1>2, CountsIs, CountsNext
<1> QED BY <1>1, <1>4, <1>5

(* Beginning a task changes no count. *)
LEMMA CountsBegin ==
  ASSUME IInv, NEW v \in Workers, Begin(v), NEW w \in Workers
  PROVE  Counts'[w] = Counts[w]
<1>1. /\ waiting'[v] = Tail(waiting[v]) /\ running'[v] = Head(waiting[v])
      /\ \A u \in Workers \ {v} : waiting'[u] = waiting[u] /\ running'[u] = running[u]
      /\ done' = done /\ running[v] = NoTask
  BY DEF Begin, IInv, TypeOK
<1>2. /\ running'[v] # NoTask
      /\ Size(waiting'[v]) = Size(waiting[v]) - 1 /\ Size(waiting[v]) \in Nat /\ Size(done[v]) \in Nat
  BY <1>1, SizeIs, HeadTailProperties DEF Begin, IInv, TypeOK
<1>3. CASE w = v
  BY <1>1, <1>2, <1>3, CountsIs, CountsNext, BusyIs
<1>4. CASE w # v
  BY <1>1, <1>4, CountsIs, CountsNext
<1> QED BY <1>3, <1>4

(* Ending a task changes no count. *)
LEMMA CountsEnd ==
  ASSUME IInv, NEW v \in Workers, End(v), NEW w \in Workers
  PROVE  Counts'[w] = Counts[w]
<1>1. running[v] \in Tasks /\ running[v] # NoTask /\ done[v] \in Seq(Tasks) /\ waiting[v] \in Seq(Tasks)
  BY DEF End, IInv, TypeOK
<1>2. /\ done'[v] = Append(done[v], running[v]) /\ running'[v] = NoTask
      /\ \A u \in Workers \ {v} : done'[u] = done[u] /\ running'[u] = running[u]
      /\ waiting' = waiting
  BY DEF End, IInv, TypeOK
<1>3. Size(done'[v]) = Size(done[v]) + 1 /\ Size(waiting[v]) \in Nat /\ Size(done[v]) \in Nat
  BY <1>1, <1>2, SizeIs
<1>4. CASE w = v
  <2>1. Counts[v] = Size(waiting[v]) + Size(done[v]) + 1
    BY <1>1, CountsIs, BusyIs
  <2>2. Counts'[v] = Size(waiting[v]) + Size(done'[v]) + 0
    BY <1>2, CountsNext, BusyIs
  <2> QED BY <1>3, <1>4, <2>1, <2>2
<1>5. CASE w # v
  BY <1>2, <1>5, CountsIs, CountsNext
<1> QED BY <1>4, <1>5

(* RoundRobin, of Counts. *)
TurnsInv ==
  capacity > 0 =>
    \A v, w \in 0 .. capacity - 1 :
      Counts[v] - Counts[w] = (IF v < index /\ w >= index THEN 1
                               ELSE IF v >= index /\ w < index THEN -1 ELSE 0)

(* Only a dispatch counts, at the turn, and it moves the turn on. *)
LEMMA RoundStep == IInv /\ TurnsInv /\ [Next]_vars => TurnsInv'
<1> SUFFICES ASSUME IInv, TurnsInv, [Next]_vars PROVE TurnsInv'
  OBVIOUS
<1>0. capacity \in 0 .. Largest /\ Largest \in Nat /\ TypeOK
  BY DEF IInv, TypeOK
<1>1. ASSUME \A w \in Workers : Counts'[w] = Counts[w], index' = index, capacity' = capacity
      PROVE  TurnsInv'
  <2>1. \A w \in 0 .. capacity - 1 : Counts'[w] = Counts[w]
    BY <1>0, <1>1
  <2> QED BY <1>1, <2>1 DEF TurnsInv
<1>2. ASSUME UNCHANGED <<waiting, running, done, index, capacity>> PROVE TurnsInv'
  BY <1>1, <1>2, CountsIs, CountsNext
<1>3. ASSUME NEW p \in Threads, Dispatch(p) PROVE TurnsInv'
  <2>1. capacity > 0 /\ index < capacity /\ index \in Nat /\ capacity \in Nat
    BY <1>0, <1>3 DEF Dispatch, IInv, TypeOK, TurnInv
  <2>2. (index + 1) % capacity = IF index + 1 < capacity THEN index + 1 ELSE 0
    BY <2>1, NextTurn
  <2>3. index' = (IF index + 1 < capacity THEN index + 1 ELSE 0) /\ capacity' = capacity
    BY <1>3, <2>2 DEF Dispatch
  <2> SUFFICES ASSUME NEW v \in 0 .. capacity - 1, NEW w \in 0 .. capacity - 1
               PROVE  Counts'[v] - Counts'[w] = (IF v < index' /\ w >= index' THEN 1
                                                 ELSE IF v >= index' /\ w < index' THEN -1 ELSE 0)
    BY <2>3 DEF TurnsInv
  <2>4. v \in Workers /\ w \in Workers
    BY <1>0
  <2>5. Counts[v] \in Nat /\ Counts[w] \in Nat
    BY <1>0, <2>4, CountsType
  <2>6. /\ Counts'[index] = Counts[index] + 1
        /\ v # index => Counts'[v] = Counts[v]
        /\ w # index => Counts'[w] = Counts[w]
    BY <1>3, <2>4, CountsDispatch
  <2>7. Counts[v] - Counts[w] = (IF v < index /\ w >= index THEN 1
                                 ELSE IF v >= index /\ w < index THEN -1 ELSE 0)
    BY <2>1 DEF TurnsInv
  <2>8. CASE v = index BY <2>1, <2>3, <2>5, <2>6, <2>7, <2>8
  <2>9. CASE v # index BY <2>1, <2>3, <2>5, <2>6, <2>7, <2>9
  <2> QED BY <2>8, <2>9
<1>4. ASSUME NEW w \in Workers, Begin(w) \/ End(w) PROVE TurnsInv'
  <2>1. \A v \in Workers : Counts'[v] = Counts[v]
    BY <1>4, CountsBegin, CountsEnd
  <2> QED BY <1>1, <1>4, <2>1 DEF Begin, End
<1>5. ASSUME NEW c \in Clients, NEW t \in Tasks, Call(c, t) PROVE TurnsInv'
  BY <1>2, <1>5 DEF Call, Enter, taskVars
<1>6. ASSUME NEW w \in Workers, NestedCall(w) PROVE TurnsInv'
  BY <1>2, <1>6 DEF NestedCall, Enter, taskVars
<1>7. ASSUME NEW p \in Threads, Lock(p) \/ Inside(p) PROVE TurnsInv'
  BY <1>2, <1>7 DEF Lock, Inside, Grow, GrowFails, Full, DispatchOutOfRange, Leave, taskVars
<1>8. ASSUME NEW w \in Workers, StopWorker(w) \/ Close(w) \/ JoinWorker(w) PROVE TurnsInv'
  BY <1>2, <1>8 DEF StopWorker, Close, JoinWorker, taskVars
<1>9. CASE DestroyCall \/ DestroyReturn \/ UNCHANGED vars
  BY <1>2, <1>9 DEF DestroyCall, DestroyReturn, taskVars, vars
<1> QED BY <1>3, <1>4, <1>5, <1>6, <1>7, <1>8, <1>9 DEF Next

(* The Workers before the turn have taken exactly one task more than the     *)
(* others, for every size of the pool, whatever was ignored or has failed.   *)
THEOREM TurnsAreFair == Spec => []RoundRobin
<1>1. Init => TurnsInv
  <2> SUFFICES ASSUME Init PROVE TurnsInv
    OBVIOUS
  <2>1. index = 0 /\ capacity \in 0 .. Largest
    BY DEF Init
  <2>2. \A w \in Workers : waiting[w] = <<>> /\ done[w] = <<>> /\ running[w] = NoTask
    BY DEF Init
  <2>3. \A w \in Workers : Counts[w] = 0
    <3>1. Size(<<>>) = 0 /\ Busy(NoTask) = 0
      BY EmptySeq, BusyIs DEF Size
    <3> QED BY <2>2, <3>1, CountsIs
  <2>4. \A w \in 0 .. capacity - 1 : Counts[w] = 0
    BY <2>1, <2>3
  <2> QED BY <2>1, <2>4 DEF TurnsInv
<1>2. IInv /\ TurnsInv => RoundRobin
  <2> SUFFICES ASSUME IInv, TurnsInv PROVE RoundRobin
    OBVIOUS
  <2>1. \A w \in 0 .. capacity - 1 : w \in Workers
    BY DEF IInv, TypeOK
  <2>2. \A w \in 0 .. capacity - 1 : Counts[w] = Taken(w)
    BY <2>1 DEF Counts
  <2> QED BY <2>2 DEF RoundRobin, TurnsInv
<1> QED BY <1>1, <1>2, RoundStep, Invariance, PTL DEF Spec
-----------------------------------------------------------------------------
In(s) == {s[i] : i \in DOMAIN s}

(* What a queue holds once a task has joined it. *)
LEMMA InAppend ==
  ASSUME NEW S, NEW s \in Seq(S), NEW e \in S
  PROVE  In(Append(s, e)) = In(s) \cup {e}
<1>1. /\ Len(Append(s, e)) = Len(s) + 1 /\ Len(s) \in Nat
      /\ DOMAIN s = 1 .. Len(s) /\ DOMAIN Append(s, e) = 1 .. Len(s) + 1
      /\ \A i \in 1 .. Len(s) : Append(s, e)[i] = s[i]
      /\ Append(s, e)[Len(s) + 1] = e
  BY LenProperties
<1> QED BY <1>1 DEF In

(* What a queue holds once its first task has left it. *)
LEMMA InTail ==
  ASSUME NEW S, NEW s \in Seq(S), s # <<>>
  PROVE  In(s) = {Head(s)} \cup In(Tail(s))
<1>1. /\ Len(s) \in Nat \ {0} /\ DOMAIN s = 1 .. Len(s) /\ Head(s) = s[1]
      /\ DOMAIN Tail(s) = 1 .. Len(s) - 1
      /\ \A i \in 1 .. Len(s) - 1 : Tail(s)[i] = s[i + 1]
  BY LenProperties, EmptySeq, HeadTailProperties
<1>2. ASSUME NEW i \in 1 .. Len(s) PROVE s[i] = Head(s) \/ s[i] \in In(Tail(s))
  <2>1. CASE i = 1 BY <1>1, <2>1
  <2>2. CASE i # 1
    <3>1. i - 1 \in DOMAIN Tail(s) /\ Tail(s)[i - 1] = s[i]
      BY <1>1, <2>2
    <3> QED BY <3>1 DEF In
  <2> QED BY <2>1, <2>2
<1>3. Head(s) \in In(s)
  BY <1>1 DEF In
<1>4. In(Tail(s)) \subseteq In(s)
  BY <1>1 DEF In
<1>5. In(s) \subseteq {Head(s)} \cup In(Tail(s))
  BY <1>1, <1>2 DEF In
<1> QED BY <1>3, <1>4, <1>5

(* The tasks each Worker has, as one function. *)
Have == [w \in Workers |-> Held(w) \ {NoTask}]

(* A Worker has the tasks that wait, run or have ended there. *)
LEMMA HaveIs ==
  ASSUME NEW w \in Workers
  PROVE  /\ Have[w] = (In(waiting[w]) \cup {running[w]} \cup In(done[w])) \ {NoTask}
         /\ Have'[w] = (In(waiting'[w]) \cup {running'[w]} \cup In(done'[w])) \ {NoTask}
BY DEF Have, Held, In

(* Dispatching a task adds it to one Worker. *)
LEMMA HaveDispatch ==
  ASSUME IInv, NEW p \in Threads, Dispatch(p), NEW w \in Workers
  PROVE  /\ w = index => Have'[w] = Have[w] \cup {arg[p]}
         /\ w # index => Have'[w] = Have[w]
<1>1. index \in Workers /\ arg[p] \in Tasks /\ waiting[index] \in Seq(Tasks)
  BY DEF Dispatch, IInv, TypeOK, ArgInv
<1>2. /\ waiting'[index] = Append(waiting[index], arg[p])
      /\ \A v \in Workers \ {index} : waiting'[v] = waiting[v]
      /\ UNCHANGED <<running, done>>
  BY <1>1 DEF Dispatch, IInv, TypeOK
<1>3. In(waiting'[index]) = In(waiting[index]) \cup {arg[p]} /\ arg[p] # NoTask
  BY <1>1, <1>2, InAppend
<1>4. CASE w = index
  <2>1. Have[index] = (In(waiting[index]) \cup {running[index]} \cup In(done[index])) \ {NoTask}
    BY <1>1, HaveIs
  <2>2. Have'[index] = (In(waiting[index]) \cup {arg[p]} \cup {running[index]} \cup In(done[index])) \ {NoTask}
    BY <1>1, <1>2, <1>3, HaveIs
  <2> QED BY <1>3, <1>4, <2>1, <2>2
<1>5. CASE w # index BY <1>2, <1>5, HaveIs
<1> QED BY <1>4, <1>5

(* Beginning a task leaves it with its Worker. *)
LEMMA HaveBegin ==
  ASSUME IInv, NEW v \in Workers, Begin(v), NEW w \in Workers
  PROVE  Have'[w] = Have[w]
<1>1. /\ waiting'[v] = Tail(waiting[v]) /\ running'[v] = Head(waiting[v])
      /\ \A u \in Workers \ {v} : waiting'[u] = waiting[u] /\ running'[u] = running[u]
      /\ done' = done /\ running[v] = NoTask
  BY DEF Begin, IInv, TypeOK
<1>2. In(waiting[v]) = {Head(waiting[v])} \cup In(Tail(waiting[v]))
  BY InTail DEF Begin, IInv, TypeOK
<1>3. CASE w = v
  <2>1. Have[v] = (In(waiting[v]) \cup {NoTask} \cup In(done[v])) \ {NoTask}
    BY <1>1, HaveIs
  <2>2. Have'[v] = (In(Tail(waiting[v])) \cup {Head(waiting[v])} \cup In(done[v])) \ {NoTask}
    BY <1>1, HaveIs
  <2> QED BY <1>2, <1>3, <2>1, <2>2
<1>4. CASE w # v
  <2>1. Have[w] = (In(waiting[w]) \cup {running[w]} \cup In(done[w])) \ {NoTask}
    BY HaveIs
  <2>2. Have'[w] = (In(waiting[w]) \cup {running[w]} \cup In(done[w])) \ {NoTask}
    BY <1>1, <1>4, HaveIs
  <2> QED BY <2>1, <2>2
<1> QED BY <1>3, <1>4

(* Ending a task leaves it with its Worker. *)
LEMMA HaveEnd ==
  ASSUME IInv, NEW v \in Workers, End(v), NEW w \in Workers
  PROVE  Have'[w] = Have[w]
<1>1. running[v] \in Tasks /\ done[v] \in Seq(Tasks)
  BY DEF End, IInv, TypeOK
<1>2. /\ done'[v] = Append(done[v], running[v]) /\ running'[v] = NoTask
      /\ \A u \in Workers \ {v} : done'[u] = done[u] /\ running'[u] = running[u]
      /\ waiting' = waiting
  BY DEF End, IInv, TypeOK
<1>3. In(done'[v]) = In(done[v]) \cup {running[v]}
  BY <1>1, <1>2, InAppend
<1>4. CASE w = v
  <2>1. Have[v] = (In(waiting[v]) \cup {running[v]} \cup In(done[v])) \ {NoTask}
    BY HaveIs
  <2>2. Have'[v] = (In(waiting[v]) \cup {NoTask} \cup (In(done[v]) \cup {running[v]})) \ {NoTask}
    BY <1>2, <1>3, HaveIs
  <2> QED BY <1>4, <2>1, <2>2
<1>5. CASE w # v
  <2>1. waiting'[w] = waiting[w] /\ running'[w] = running[w] /\ done'[w] = done[w]
    BY <1>2, <1>5
  <2>2. Have[w] = (In(waiting[w]) \cup {running[w]} \cup In(done[w])) \ {NoTask}
    BY HaveIs
  <2>3. Have'[w] = (In(waiting'[w]) \cup {running'[w]} \cup In(done'[w])) \ {NoTask}
    BY HaveIs
  <2> QED BY <2>1, <2>2, <2>3
<1> QED BY <1>4, <1>5

(* Where a task can be: with one Worker, refused, or on its way with one     *)
(* thread that is inside operator>>; a known task is in one of these places. *)
Going == {"lock", "grow", "dispatch"}
OneWorkerInv == \A v, w \in Workers : \A t \in Tasks : t \in Have[v] /\ t \in Have[w] => v = w
HaveKnownInv == \A w \in Workers : Have[w] \subseteq known
OneCallerInv == \A p, q \in Threads : pc[p] # "idle" /\ pc[q] # "idle" /\ arg[p] = arg[q] => p = q
GoingInv ==
  \A p \in Threads : pc[p] \in Going => arg[p] \notin refused /\ \A w \in Workers : arg[p] \notin Have[w]
RefusedInv == refused \subseteq known /\ \A t \in refused : \A w \in Workers : t \notin Have[w]
PlacedInv ==
  \A t \in known : \/ t \in refused
                   \/ \E w \in Workers : t \in Have[w]
                   \/ \E p \in Threads : pc[p] \in Going /\ arg[p] = t
PlaceInv == OneWorkerInv /\ HaveKnownInv /\ OneCallerInv /\ GoingInv /\ RefusedInv /\ PlacedInv

(* At first no task is anywhere. *)
LEMMA InitPlace == Init => PlaceInv
<1> SUFFICES ASSUME Init PROVE PlaceInv
  OBVIOUS
<1>1. ASSUME NEW w \in Workers PROVE Have[w] = {}
  <2>1. waiting[w] = <<>> /\ done[w] = <<>> /\ running[w] = NoTask
    BY DEF Init
  <2>2. In(<<>>) = {}
    BY DEF In
  <2> QED BY <2>1, <2>2, HaveIs
<1> QED BY <1>1 DEF Init, PlaceInv, OneWorkerInv, HaveKnownInv, OneCallerInv, GoingInv, RefusedInv, PlacedInv, Going

(* A task moves from a call to a Worker, or from a call to the refused ones. *)
LEMMA PlaceStep == IInv /\ PlaceInv /\ [Next]_vars => PlaceInv'
<1> SUFFICES ASSUME IInv, PlaceInv, [Next]_vars PROVE PlaceInv'
  OBVIOUS
<1>t. /\ pc \in [Threads -> {"idle", "lock", "grow", "dispatch", "leave"}]
      /\ arg \in [Threads -> Tasks \cup {NoTask}]
      /\ known \subseteq Tasks /\ \A p \in Threads : pc[p] # "idle" => arg[p] \in known
  BY DEF IInv, TypeOK, ArgInv
<1>h. ASSUME UNCHANGED <<waiting, running, done>>
      PROVE  Have' = Have
  BY <1>h DEF Have, Held
<1>n. Have = [w \in Workers |-> Have[w]] /\ Have' = [w \in Workers |-> Have'[w]]
  BY DEF Have
<1> USE DEF PlaceInv, OneWorkerInv, HaveKnownInv, OneCallerInv, GoingInv, RefusedInv, PlacedInv, Going
<1>0. ASSUME Have' = Have, UNCHANGED <<pc, arg, known, refused>> PROVE PlaceInv'
  BY <1>0
<1>1. ASSUME NEW p \in Threads, NEW t \in Tasks, pc[p] = "idle", t \notin known, Enter(p, t)
      PROVE  PlaceInv'
  <2>1. Have' = Have
    BY <1>1, <1>h DEF Enter, taskVars
  <2>2. /\ pc' = [pc EXCEPT ![p] = "lock"] /\ arg' = [arg EXCEPT ![p] = t]
        /\ known' = known \cup {t} /\ refused' = refused
    BY <1>1 DEF Enter
  <2> QED BY <1>1, <1>t, <2>1, <2>2
<1>2. ASSUME NEW p \in Threads, pc[p] \in Going, Have' = Have,
             UNCHANGED <<arg, known>>, NEW x \in {"grow", "dispatch"},
             pc' = [pc EXCEPT ![p] = x], refused' = refused
      PROVE  PlaceInv'
  BY <1>2, <1>t
<1>3. ASSUME NEW p \in Threads, pc[p] \in Going, Have' = Have,
             UNCHANGED <<arg, known>>,
             pc' = [pc EXCEPT ![p] = "leave"], refused' = refused \cup {arg[p]}
      PROVE  PlaceInv'
  BY <1>3, <1>t
<1>4. ASSUME NEW p \in Threads, Lock(p) PROVE PlaceInv'
  <2>1. Have' = Have
    BY <1>4, <1>h DEF Lock, taskVars
  <2>2. CASE arg[p] \in Empty BY <1>3, <1>4, <2>1, <2>2 DEF Lock
  <2>3. CASE arg[p] \notin Empty BY <1>2, <1>4, <2>1, <2>3 DEF Lock
  <2> QED BY <2>2, <2>3
<1>5. ASSUME NEW p \in Threads, Grow(p) \/ Full(p) PROVE PlaceInv'
  <2>1. Have' = Have
    BY <1>5, <1>h DEF Grow, Full, taskVars
  <2> QED BY <1>2, <1>5, <2>1 DEF Grow, Full
<1>6. ASSUME NEW p \in Threads, GrowFails(p) \/ DispatchOutOfRange(p) PROVE PlaceInv'
  <2>1. Have' = Have
    BY <1>6, <1>h DEF GrowFails, DispatchOutOfRange, taskVars
  <2> QED BY <1>3, <1>6, <2>1 DEF GrowFails, DispatchOutOfRange
<1>7. ASSUME NEW p \in Threads, Leave(p) PROVE PlaceInv'
  <2>1. Have' = Have
    BY <1>7, <1>h DEF Leave, taskVars
  <2>2. /\ pc[p] = "leave" /\ pc' = [pc EXCEPT ![p] = "idle"]
        /\ arg' = [arg EXCEPT ![p] = NoTask] /\ known' = known /\ refused' = refused
    BY <1>7 DEF Leave
  <2> QED BY <1>t, <2>1, <2>2
<1>8. ASSUME NEW p \in Threads, Dispatch(p) PROVE PlaceInv'
  <2>1. /\ index \in Workers
        /\ \A w \in Workers : \A t : t \in Have'[w] <=> t \in Have[w] \/ (w = index /\ t = arg[p])
    <3>1. ASSUME NEW w \in Workers, NEW t
          PROVE  t \in Have'[w] <=> t \in Have[w] \/ (w = index /\ t = arg[p])
      <4>1. CASE w = index BY <1>8, <4>1, HaveDispatch
      <4>2. CASE w # index BY <1>8, <4>2, HaveDispatch
      <4> QED BY <4>1, <4>2
    <3> QED BY <1>8, <3>1, CountsDispatch
  <2>2. /\ pc[p] = "dispatch" /\ pc' = [pc EXCEPT ![p] = "leave"]
        /\ UNCHANGED <<arg, known, refused>>
    BY <1>8 DEF Dispatch
  <2>3. OneWorkerInv' BY <1>t, <2>1, <2>2
  <2>4. HaveKnownInv' BY <1>t, <2>1, <2>2
  <2>5. OneCallerInv' BY <1>t, <2>1, <2>2
  <2>6. GoingInv' BY <1>t, <2>1, <2>2
  <2>7. RefusedInv' BY <1>t, <2>1, <2>2
  <2>8. PlacedInv'
    <3> SUFFICES ASSUME NEW t \in known, t \notin refused, \A w \in Workers : t \notin Have'[w]
                 PROVE  \E q \in Threads : pc'[q] \in Going /\ arg'[q] = t
      BY <2>2
    <3>1. PICK q \in Threads : pc[q] \in Going /\ arg[q] = t
      BY <2>1
    <3>2. q # p
      BY <2>1, <3>1
    <3> QED BY <1>t, <2>2, <3>1, <3>2
  <2> QED BY <2>3, <2>4, <2>5, <2>6, <2>7, <2>8
<1>9. ASSUME NEW v \in Workers, Begin(v) \/ End(v) PROVE PlaceInv'
  <2>1. \A w \in Workers : Have'[w] = Have[w]
    BY <1>9, HaveBegin, HaveEnd
  <2>2. Have' = Have
    BY <1>n, <2>1
  <2> QED BY <1>0, <1>9, <2>2 DEF Begin, End, callVars
<1>10. ASSUME NEW c \in Clients, NEW t \in Tasks, Call(c, t) PROVE PlaceInv'
  BY <1>1, <1>10 DEF Call
<1>11. ASSUME NEW w \in Workers, NestedCall(w) PROVE PlaceInv'
  <2>1. running[w] \in Tasks /\ Child[running[w]] \in Tasks \ known
    BY <1>11 DEF NestedCall, HasToCall, IInv, TypeOK
  <2>2. pc[w] = "idle"
    BY <1>t, <2>1 DEF IInv, NestInv
  <2>3. Enter(w, Child[running[w]]) /\ w \in Threads
    BY <1>11 DEF NestedCall
  <2> HIDE DEF PlaceInv
  <2> QED BY <1>1, <2>1, <2>2, <2>3
<1>12. ASSUME NEW w \in Workers, StopWorker(w) \/ Close(w) \/ JoinWorker(w) PROVE PlaceInv'
  BY <1>0, <1>h, <1>12 DEF StopWorker, Close, JoinWorker, taskVars, callVars
<1>13. CASE DestroyCall \/ DestroyReturn \/ UNCHANGED vars
  BY <1>0, <1>h, <1>13 DEF DestroyCall, DestroyReturn, taskVars, callVars, vars
<1> HIDE DEF PlaceInv
<1> QED BY <1>4, <1>5, <1>6, <1>7, <1>8, <1>9, <1>10, <1>11, <1>12, <1>13 DEF Next, Inside

(* The tasks are kept apart in every state. *)
LEMMA Place == Spec => []PlaceInv
BY InitPlace, PlaceStep, Invariance, PTL DEF Spec

(* A task is never lost and never with two Workers, for any number of        *)
(* threads that submit, also from inside tasks.                              *)
THEOREM TasksHaveOnePlace == Spec => []OnePlace
<1>1. IInv /\ PlaceInv => OnePlace
  <2> SUFFICES ASSUME IInv, PlaceInv, NEW t \in known
               PROVE  LET places == {w \in Workers : t \in Held(w)} IN
                      /\ Cardinality(places) <= 1
                      /\ t \in refused => places = {}
                      /\ t \notin refused /\ places = {} =>
                           \E p \in Threads : arg[p] = t /\ pc[p] \in {"lock", "grow", "dispatch"}
    BY DEF OnePlace
  <2> DEFINE places == {w \in Workers : t \in Held(w)}
  <2>1. t \in Tasks /\ t # NoTask
    BY DEF IInv, TypeOK
  <2>2. \A w \in Workers : w \in places <=> t \in Have[w]
    BY <2>1 DEF Have
  <2>3. Cardinality(places) <= 1
    <3>0. Cardinality({}) = 0 /\ \A w \in Workers : Cardinality({w}) = 1
      BY FS_EmptySet, FS_Singleton
    <3>1. CASE places = {}
      <4> HIDE DEF places
      <4> QED BY <3>0, <3>1
    <3>2. CASE places # {}
      <4>1. PICK w \in Workers : w \in places
        BY <3>2
      <4>2. places = {w}
        BY <2>1, <2>2, <4>1 DEF PlaceInv, OneWorkerInv
      <4> HIDE DEF places
      <4> QED BY <3>0, <4>1, <4>2
    <3> QED BY <3>1, <3>2
  <2>4. t \in refused => places = {}
    BY <2>2 DEF PlaceInv, RefusedInv
  <2>5. t \notin refused /\ places = {} => \E p \in Threads : arg[p] = t /\ pc[p] \in Going
    BY <2>2 DEF PlaceInv, PlacedInv
  <2> QED BY <2>3, <2>4, <2>5 DEF Going
<1> QED BY <1>1, Invariance, Place, PTL
-----------------------------------------------------------------------------
(* ~Executor begins when nobody will call again, and nobody does: what waits  *)
(* or runs then has no task of its own to submit.                             *)
QuietInv ==
  /\ closed # {} \/ stopping # -1 \/ gone # {} => destroyer # "none"
  /\ destroyer # "none" =>
       /\ \A p \in Threads : pc[p] = "idle"
       /\ \A w \in Workers :
            /\ running[w] # NoTask => Child[running[w]] \in known \cup {NoTask}
            /\ \A t \in In(waiting[w]) : Child[t] = NoTask
  /\ gone \subseteq closed
  /\ \A w \in closed : running[w] = NoTask
  /\ destroyer = "destroyed" => \A w \in Workers : w < size => w \in closed

(* Every step keeps the end of the Executor quiet. *)
LEMMA QuietStep == IInv /\ QuietInv /\ [Next]_vars => QuietInv'
<1> SUFFICES ASSUME IInv, QuietInv, [Next]_vars PROVE QuietInv'
  OBVIOUS
<1>0. ASSUME UNCHANGED <<pc, running, waiting, known, closed, gone, size, stopping, destroyer>>
      PROVE  QuietInv'
  BY <1>0 DEF QuietInv
<1>1. ASSUME NEW p \in Threads, pc[p] # "idle" \/ (p \in Workers /\ HasToCall(p)) \/ destroyer = "none",
             UNCHANGED <<running, closed, gone, stopping, destroyer>>
      PROVE  destroyer = "none" /\ QuietInv'
  <2>1. destroyer = "none"
    BY <1>1 DEF QuietInv, HasToCall
  <2> QED BY <1>1, <2>1 DEF QuietInv
<1>2. ASSUME NEW c \in Clients, NEW t \in Tasks, Call(c, t) PROVE QuietInv'
  BY <1>1, <1>2 DEF Call, Enter, taskVars, endVars
<1>3. ASSUME NEW w \in Workers, NestedCall(w) PROVE QuietInv'
  BY <1>1, <1>3 DEF NestedCall, Enter, taskVars, endVars
<1>4. ASSUME NEW p \in Threads, Lock(p) \/ Inside(p) \/ Dispatch(p) PROVE QuietInv'
  BY <1>1, <1>4 DEF Lock, Inside, Grow, GrowFails, Full, DispatchOutOfRange, Leave, Dispatch, taskVars, endVars
<1>5. ASSUME NEW w \in Workers, Begin(w) PROVE QuietInv'
  <2>1. waiting[w] \in Seq(Tasks) /\ waiting[w] # <<>> /\ w \notin closed
    BY <1>5 DEF Begin, IInv, TypeOK
  <2>2. In(waiting[w]) = {Head(waiting[w])} \cup In(Tail(waiting[w]))
    BY <2>1, InTail
  <2>3. /\ running'[w] = Head(waiting[w]) /\ waiting'[w] = Tail(waiting[w])
        /\ \A v \in Workers \ {w} : running'[v] = running[v] /\ waiting'[v] = waiting[v]
        /\ UNCHANGED <<pc, known, closed, gone, size, stopping, destroyer>>
    BY <1>5 DEF Begin, IInv, TypeOK, callVars, endVars
  <2>4. closed \subseteq Workers
    BY DEF IInv, TypeOK
  <2> QED BY <2>1, <2>2, <2>3, <2>4 DEF QuietInv
<1>6. ASSUME NEW w \in Workers, End(w) PROVE QuietInv'
  BY <1>6 DEF End, QuietInv, IInv, TypeOK, callVars, endVars
<1>7. ASSUME NEW w \in Workers, StopWorker(w) \/ Close(w) \/ JoinWorker(w) PROVE QuietInv'
  <2>1. CASE StopWorker(w)
    BY <2>1 DEF StopWorker, QuietInv, taskVars, callVars
  <2>2. CASE Close(w)
    <3>1. /\ w # -1 /\ destroyer # "none"
          /\ UNCHANGED <<pc, running, waiting, known, gone, size, stopping, destroyer>>
          /\ closed' = closed \cup {w} /\ running[w] = NoTask
      BY <2>2 DEF Close, QuietInv, callVars, endVars, Workers
    <3> QED BY <3>1 DEF QuietInv
  <2>3. CASE JoinWorker(w)
    <3>1. /\ destroyer # "none" /\ w \in closed
          /\ UNCHANGED <<pc, running, waiting, known, closed, size, destroyer>>
          /\ gone' = gone \cup {w}
      BY <2>3 DEF JoinWorker, QuietInv, taskVars, callVars
    <3> QED BY <3>1 DEF QuietInv
  <2> QED BY <1>7, <2>1, <2>2, <2>3
<1>8. CASE DestroyCall
  <2>1. \A w \in Workers : ~WillCall(w)
    BY <1>8 DEF DestroyCall
  <2>2. /\ \A p \in Threads : pc[p] = "idle"
        /\ \A w \in Workers :
             /\ running[w] # NoTask => Child[running[w]] \in known \cup {NoTask}
             /\ \A t \in In(waiting[w]) : Child[t] = NoTask
    BY <1>8, <2>1 DEF DestroyCall, WillCall, HasToCall, In
  <2> QED BY <1>8, <2>2 DEF DestroyCall, QuietInv, taskVars, callVars
<1>9. CASE DestroyReturn
  BY <1>9 DEF DestroyReturn, QuietInv, taskVars, callVars
<1>10. CASE UNCHANGED vars
  BY <1>0, <1>10 DEF vars, taskVars, callVars, endVars
<1> QED BY <1>2, <1>3, <1>4, <1>5, <1>6, <1>7, <1>8, <1>9, <1>10 DEF Next

(* The end of the Executor is quiet in every state. *)
LEMMA Quiet == Spec => []QuietInv
<1>1. Init => QuietInv
  BY DEF Init, QuietInv, In
<1> QED BY <1>1, QuietStep, Invariance, PTL DEF Spec

(* A Worker whose run loop has ended runs nothing, ever; and after ~Executor *)
(* they all have ended.                                                      *)
THEOREM NothingRunsLate == Spec => []NothingRunsAfterDestroy
<1>1. QuietInv => NothingRunsAfterDestroy
  BY DEF QuietInv, NothingRunsAfterDestroy
<1> QED BY <1>1, Quiet, PTL
-----------------------------------------------------------------------------
(* What a step is to one of the Workers. *)
LEMMA QueueStep ==
  ASSUME IInv, PlaceInv, QuietInv, [Next]_vars, NEW w \in Workers
  PROVE  [Queue(w)!Next]_(Queue(w)!vars)
<1> DEFINE Same == /\ waiting'[w] = waiting[w] /\ running'[w] = running[w]
                   /\ done'[w] = done[w] /\ ((w \in closed') = (w \in closed))
<1>t. /\ waiting \in [Workers -> Seq(Tasks)] /\ running \in [Workers -> Tasks \cup {NoTask}]
      /\ done \in [Workers -> Seq(Tasks)] /\ NoTask \notin Tasks
  BY ExecutorAssumption DEF IInv, TypeOK
<1>0. ASSUME Same PROVE [Queue(w)!Next]_(Queue(w)!vars)
  BY <1>0 DEF Queue!vars
<1>1. ASSUME NEW p \in Threads, Dispatch(p) PROVE [Queue(w)!Next]_(Queue(w)!vars)
  <2>1. CASE w # index
    <3>1. Same BY <1>1, <1>t, <2>1 DEF Dispatch
    <3> HIDE DEF Same
    <3> QED BY <1>0, <3>1
  <2>2. CASE w = index
    <3>1. /\ waiting'[w] = Append(waiting[w], arg[p]) /\ running'[w] = running[w]
          /\ done'[w] = done[w] /\ closed' = closed /\ pc[p] = "dispatch"
      BY <1>1, <1>t, <2>2 DEF Dispatch
    <3>2. w \notin closed
      BY <3>1 DEF QuietInv
    <3>3. arg[p] \in Tasks /\ arg[p] \notin Have[w]
      <4>1. arg[p] \in known /\ known \subseteq Tasks
        BY <3>1 DEF IInv, ArgInv, TypeOK
      <4>2. arg[p] \notin Have[w]
        BY <3>1 DEF PlaceInv, GoingInv, Going
      <4> QED BY <4>1, <4>2
    <3>4. arg[p] \notin Queue(w)!Elements(waiting[w]) \cup Queue(w)!Elements(done[w]) \cup {running[w]}
      BY <1>t, <3>3 DEF Have, Held, Queue!Elements
    <3>5. Queue(w)!Submit(arg[p])
      BY <3>1, <3>2, <3>4 DEF Queue!Submit
    <3> QED BY <3>3, <3>5 DEF Queue!Next
  <2> QED BY <2>1, <2>2
<1>2. ASSUME NEW v \in Workers, Begin(v) PROVE [Queue(w)!Next]_(Queue(w)!vars)
  <2>1. CASE w # v
    <3>1. Same BY <1>2, <1>t, <2>1 DEF Begin
    <3> HIDE DEF Same
    <3> QED BY <1>0, <3>1
  <2>2. CASE w = v
    <3>1. Queue(w)!Begin
      BY <1>2, <1>t, <2>2 DEF Begin, Queue!Begin
    <3> QED BY <3>1 DEF Queue!Next
  <2> QED BY <2>1, <2>2
<1>3. ASSUME NEW v \in Workers, End(v) PROVE [Queue(w)!Next]_(Queue(w)!vars)
  <2>1. CASE w # v
    <3>1. Same BY <1>3, <1>t, <2>1 DEF End
    <3> HIDE DEF Same
    <3> QED BY <1>0, <3>1
  <2>2. CASE w = v
    <3>1. Queue(w)!End
      BY <1>3, <1>t, <2>2 DEF End, Queue!End
    <3> QED BY <3>1 DEF Queue!Next
  <2> QED BY <2>1, <2>2
<1>4. ASSUME NEW v \in Workers, Close(v) PROVE [Queue(w)!Next]_(Queue(w)!vars)
  <2>1. CASE w # v
    <3>1. Same BY <1>4, <2>1 DEF Close
    <3> HIDE DEF Same
    <3> QED BY <1>0, <3>1
  <2>2. CASE w = v
    <3>1. Queue(w)!Close
      BY <1>4, <2>2 DEF Close, Queue!Close
    <3> QED BY <3>1 DEF Queue!Next
  <2> QED BY <2>1, <2>2
<1>5. CASE UNCHANGED taskVars
  <2>1. Same BY <1>5 DEF taskVars
  <2> HIDE DEF Same
  <2> QED BY <1>0, <2>1
<1>6. ASSUME NEW p \in Threads, Lock(p) \/ Inside(p) PROVE UNCHANGED taskVars
  BY <1>6 DEF Lock, Inside, Grow, GrowFails, Full, DispatchOutOfRange, Leave
<1>7. ASSUME NEW c \in Clients, NEW t \in Tasks, Call(c, t) PROVE UNCHANGED taskVars
  BY <1>7 DEF Call, Enter
<1>8. ASSUME NEW v \in Workers, NestedCall(v) \/ StopWorker(v) \/ JoinWorker(v) PROVE UNCHANGED taskVars
  BY <1>8 DEF NestedCall, Enter, StopWorker, JoinWorker
<1>9. CASE DestroyCall \/ DestroyReturn \/ UNCHANGED vars
  BY <1>5, <1>9 DEF DestroyCall, DestroyReturn, vars
<1> HIDE DEF Same
<1> QED BY <1>1, <1>2, <1>3, <1>4, <1>5, <1>6, <1>7, <1>8, <1>9 DEF Next

(* Each Worker of the pool implements TaskQueue, for any number of Workers and *)
(* of threads that submit: the pool never hands a task to a Worker that was    *)
(* closed, nor the same task twice, and the turn reorders nothing.             *)
THEOREM PoolImplementsQueues == Spec => WorkersAreQueues
<1>1. Init => \A w \in Workers : Queue(w)!Init
  BY DEF Init, Queue!Init
<1>2. IInv /\ PlaceInv /\ QuietInv /\ [Next]_vars
        => [\A w \in Workers : [Queue(w)!Next]_(Queue(w)!vars)]_taskVars
  BY QueueStep
<1> QED BY <1>1, <1>2, Invariance, Place, Quiet, PTL DEF Spec, WorkersAreQueues
-----------------------------------------------------------------------------
(* Who waits for whom.  These guards are those of Lock, Inside and Dispatch,   *)
(* and of NestedCall and End.                                                  *)
AtMutex(p) == pc[p] = "lock" /\ emtx # NoOne
AtWorker(p) == pc[p] = "dispatch" /\ index < size /\ running[index] # NoTask
CanGoOn(p) == pc[p] # "idle" /\ ~AtMutex(p) /\ ~AtWorker(p)
TaskCanGoOn(w) == running[w] # NoTask /\ pc[w] = "idle"

(* A thread holds Executor::mutex and waits for a Worker, the task of which   *)
(* is that thread's own or waits for the same mutex.                          *)
Deadlocked == \E p \in Threads : AtWorker(p) /\ (p = index \/ AtMutex(index))

(* A task that submits to the Executor that runs it is the only thing that can *)
(* stop operator>>: as long as a thread is inside, one of the threads inside   *)
(* can go on, or the task can that the Worker in turn runs, or a thread waits  *)
(* there for a Worker whose task waits for the mutex of that very Executor.    *)
THEOREM OnlySelfSubmissionBlocks ==
  Spec => []((\E p \in Threads : pc[p] # "idle") =>
               \/ \E p \in Threads : CanGoOn(p)
               \/ index \in Workers /\ TaskCanGoOn(index)
               \/ Deadlocked)
<1>1. ASSUME IInv, NEW p \in Threads, pc[p] # "idle", \A q \in Threads : ~CanGoOn(q)
      PROVE  index \in Workers /\ (TaskCanGoOn(index) \/ Deadlocked)
  <2>0. /\ emtx \in Threads \cup {NoOne} /\ index \in Nat /\ size \in 0 .. Largest
        /\ \A q \in Threads : pc[q] \in Inner <=> emtx = q
    BY <1>1 DEF IInv, TypeOK, MutexInv
  <2>1. PICK q \in Threads : AtWorker(q)
    <3>1. CASE AtWorker(p)
      BY <3>1
    <3>2. CASE AtMutex(p)
      <4>1. emtx \in Threads /\ pc[emtx] \in Inner
        BY <2>0, <3>2 DEF AtMutex
      <4>2. pc[emtx] # "idle" /\ ~AtMutex(emtx)
        BY <4>1 DEF AtMutex, Inner
      <4> QED BY <1>1, <4>1, <4>2 DEF CanGoOn
    <3> QED BY <1>1, <3>1, <3>2 DEF CanGoOn
  <2>2. emtx = q /\ index \in Workers /\ running[index] # NoTask
    BY <2>0, <2>1 DEF AtWorker, Inner
  <2>3. ASSUME pc[index] # "idle" PROVE index = q \/ AtMutex(index)
    <3>1. index \in Threads
      BY <2>2
    <3>2. AtMutex(index) \/ AtWorker(index)
      BY <1>1, <2>3, <3>1 DEF CanGoOn
    <3> QED BY <2>0, <2>2, <3>1, <3>2 DEF AtWorker, Inner
  <2> QED BY <2>1, <2>2, <2>3 DEF TaskCanGoOn, Deadlocked
<1>2. IInv => ((\E p \in Threads : pc[p] # "idle") =>
                 \/ \E p \in Threads : CanGoOn(p)
                 \/ index \in Workers /\ TaskCanGoOn(index)
                 \/ Deadlocked)
  BY <1>1
<1> QED BY <1>2, Invariance, PTL

(* And that is for good: nothing that any other thread, Worker or ~Executor *)
(* does resolves it.                                                        *)
LEMMA DeadlockStep == IInv /\ Deadlocked /\ [Next]_vars => Deadlocked'
<1> SUFFICES ASSUME IInv, [Next]_vars,
                    NEW p \in Threads, AtWorker(p), p = index \/ AtMutex(index)
             PROVE  AtWorker(p)' /\ (p = index' \/ AtMutex(index)')
  BY DEF Deadlocked
<1> USE DEF IInv, TypeOK, AtWorker, AtMutex, taskVars, callVars, endVars
<1>1. /\ emtx = p /\ index \in Workers /\ index < size
      /\ running[index] # NoTask /\ pc[p] = "dispatch" /\ pc[index] # "idle"
      /\ \A q \in Threads : pc[q] \in Inner => q = p
      /\ p # index => pc[index] = "lock"
  BY DEF MutexInv, Inner
<1>2. ASSUME UNCHANGED <<index, size, emtx>>, running'[index] = running[index],
             pc'[p] = pc[p], pc'[index] = pc[index]
      PROVE  AtWorker(p)' /\ (p = index' \/ AtMutex(index)')
  BY <1>2
<1>3. ASSUME NEW q \in Threads, Lock(q) PROVE FALSE
  BY <1>1, <1>3 DEF Lock
<1>4. ASSUME NEW q \in Threads, Inside(q) \/ Dispatch(q) PROVE FALSE
  BY <1>1, <1>4 DEF Inside, Grow, GrowFails, Full, DispatchOutOfRange, Leave, Dispatch, Inner
<1>5. ASSUME NEW c \in Clients, NEW t \in Tasks, Call(c, t)
      PROVE  AtWorker(p)' /\ (p = index' \/ AtMutex(index)')
  BY <1>1, <1>2, <1>5 DEF Call, Enter
<1>6. ASSUME NEW w \in Workers, NestedCall(w)
      PROVE  AtWorker(p)' /\ (p = index' \/ AtMutex(index)')
  <2>1. pc[w] = "idle"
    BY <1>6 DEF NestedCall, HasToCall, NestInv, ArgInv
  <2> QED BY <1>1, <1>2, <1>6, <2>1 DEF NestedCall, Enter
<1>7. ASSUME NEW w \in Workers, Begin(w) \/ End(w)
      PROVE  AtWorker(p)' /\ (p = index' \/ AtMutex(index)')
  <2>1. w # index
    BY <1>1, <1>7 DEF Begin, End
  <2> QED BY <1>1, <1>2, <1>7, <2>1 DEF Begin, End
<1>8. ASSUME NEW w \in Workers, StopWorker(w) \/ Close(w) \/ JoinWorker(w)
      PROVE  AtWorker(p)' /\ (p = index' \/ AtMutex(index)')
  BY <1>2, <1>8 DEF StopWorker, Close, JoinWorker
<1>9. CASE DestroyCall \/ DestroyReturn \/ UNCHANGED vars
  BY <1>2, <1>9 DEF DestroyCall, DestroyReturn, vars
<1> QED BY <1>3, <1>4, <1>5, <1>6, <1>7, <1>8, <1>9 DEF Next

(* A submission that blocks on its own Executor blocks it for ever. *)
THEOREM SelfSubmissionBlocksForEver == Spec => [](Deadlocked => []Deadlocked)
BY DeadlockStep, Invariance, PTL DEF Spec
=============================================================================
