---------------------------- MODULE WorkerProofs ----------------------------
(***************************************************************************)
(* Proofs about Worker for every number of clients and tasks: type         *)
(* correctness, mutual exclusion on Daemon::mutex, the absence of lost     *)
(* wake-ups, the bound on tasks that begin after a stop, and first-in      *)
(* first-out execution.                                                    *)
(***************************************************************************)
EXTENDS Worker, SequenceTheorems, TLAPS

USE WorkerAssumption DEF WorkerAssumption

(* A task is held by the run loop exactly while it runs. *)
CurInv == cur # NoTask <=> loopPc = "run"

(* A client between its call and its emplace has a task to submit. *)
ArgInv == \A c \in Clients : clientPc[c] \in {"lock", "emplace"} => arg[c] \in Tasks

(* Which build the destructor's steps belong to, and what they left behind. *)
OwnerInv ==
  /\ ownerPc # "alive" => stopped
  /\ ownerPc = "request" => jthread
  /\ ownerPc \in {"lock", "store", "notifyOne"} => ~jthread
  /\ stop => ownerPc \in {"notifyOne", "notifyAll", "join", "joined", "gone"}

(* What the run loop learned under the mutex still holds while it has it. *)
SleepInv == loopPc = "sleep" => queue = <<>> /\ (stop => jthread)
PopInv == loopPc = "pop" => (stop => jthread)

(* A late start is on its way to the loop's next test of the flag. *)
LateInv ==
  /\ late \in {0, 1}
  /\ late = 1 => jthread /\ stop /\ loopPc \in {"run", "unlock", "test", "done"}

(* No call is in flight once the destructor runs, and the loop leaves for a stop. *)
LifeInv ==
  /\ \A c \in Clients : clientPc[c] # "idle" => ownerPc = "alive"
  /\ loopPc = "done" => stop

IInv ==
  /\ LifeInv
  /\ TypeOK
  /\ MutexDiscipline
  /\ CurInv
  /\ ArgInv
  /\ OwnerInv
  /\ SleepInv
  /\ PopInv
  /\ LateInv
  /\ NoLostWakeup

(* The variables start with their types and the invariants hold of them. *)
LEMMA InitIInv == Init => IInv
<1> SUFFICES ASSUME Init PROVE IInv
  OBVIOUS
<1> USE DEF Init
<1>1. TypeOK
  <2>1. jthread \in BOOLEAN
    OBVIOUS
  <2>2. clientPc \in [Clients -> {"idle", "lock", "emplace", "notify"}]
        /\ arg \in [Clients -> Tasks \cup {NoTask}]
    OBVIOUS
  <2>3. queue \in Seq(Tasks) /\ accepted \in Seq(Tasks) /\ finished \in Seq(Tasks)
    OBVIOUS
  <2>4. stop \in BOOLEAN /\ stopped \in BOOLEAN /\ timedOut \in BOOLEAN
    OBVIOUS
  <2> HIDE DEF Init
  <2>5. /\ mtx \in Clients \cup {Loop, Owner, NoOne}
        /\ loopPc \in LoopPcs
        /\ cur \in Tasks \cup {NoTask}
        /\ ownerPc = "alive"
        /\ late \in Nat
    BY DEF Init, LoopPcs
  <2> QED BY <2>1, <2>2, <2>3, <2>4, <2>5 DEF TypeOK
<1>2. MutexDiscipline
  BY DEF MutexDiscipline, LoopHolds
<1>3. CurInv /\ ArgInv /\ OwnerInv /\ SleepInv /\ PopInv /\ LateInv /\ NoLostWakeup
  BY DEF CurInv, ArgInv, OwnerInv, SleepInv, PopInv, LateInv, NoLostWakeup
<1>4. LifeInv
  BY DEF LifeInv
<1> QED BY <1>1, <1>2, <1>3, <1>4 DEF IInv

(* TypeOK is preserved by every step from a state of IInv. *)
LEMMA TypeStep == IInv /\ [Next]_vars => TypeOK'
<1> SUFFICES ASSUME IInv, [Next]_vars PROVE TypeOK'
  OBVIOUS
<1> USE DEF IInv, TypeOK, LoopPcs, loopVars, clientVars, ownerVars
<1>1. CASE LoopThread
  <2>1. CASE LoopTest BY <2>1 DEF LoopTest
  <2>2. CASE LoopLock BY <2>2 DEF LoopLock
  <2>3. CASE LoopCheck BY <2>3 DEF LoopCheck
  <2>4. CASE LoopSleep BY <2>4 DEF LoopSleep
  <2>5. CASE LoopTimeout BY <2>5 DEF LoopTimeout
  <2>6. CASE LoopSpurious BY <2>6 DEF LoopSpurious
  <2>7. CASE LoopRelock BY <2>7 DEF LoopRelock
  <2>8. CASE LoopStopTest BY <2>8 DEF LoopStopTest
  <2>9. CASE LoopPopEmpty BY <2>9 DEF LoopPopEmpty
  <2>10. CASE LoopPopTask BY <2>10 DEF LoopPopTask
  <2>11. CASE LoopRunReturns BY <2>11 DEF LoopRunReturns, CurInv
  <2>12. CASE LoopRunThrows BY <2>12 DEF LoopRunThrows, CurInv
  <2>13. CASE LoopUnlock BY <2>13 DEF LoopUnlock
  <2> QED
    BY <1>1, <2>1, <2>2, <2>3, <2>4, <2>5, <2>6, <2>7, <2>8, <2>9, <2>10, <2>11, <2>12, <2>13
       DEF LoopThread
<1>2. ASSUME NEW c \in Clients, Client(c) PROVE TypeOK'
  <2>1. ASSUME NEW t \in Tasks, SubmitCall(c, t) PROVE TypeOK'
    BY <2>1 DEF SubmitCall
  <2>2. CASE SubmitLock(c) BY <2>2 DEF SubmitLock
  <2>3. CASE SubmitEmplace(c) BY <2>3 DEF SubmitEmplace, ArgInv
  <2>4. CASE SubmitNotify(c) BY <2>4 DEF SubmitNotify, Notify
  <2> QED BY <1>2, <2>1, <2>2, <2>3, <2>4 DEF Client
<1>3. CASE Destroyer
  <2>1. CASE StopCall BY <2>1 DEF StopCall
  <2>2. CASE StopRequest BY <2>2 DEF StopRequest
  <2>3. CASE StopLock BY <2>3 DEF StopLock
  <2>4. CASE StopStore BY <2>4 DEF StopStore
  <2>5. CASE StopNotify BY <2>5 DEF StopNotify, Notify
  <2>6. CASE StopJoin BY <2>6 DEF StopJoin
  <2> QED BY <1>3, <2>1, <2>2, <2>3, <2>4, <2>5, <2>6 DEF Destroyer
<1>4. CASE UNCHANGED vars BY <1>4 DEF vars
<1> QED BY <1>1, <1>2, <1>3, <1>4 DEF Next

(* The other conjuncts of IInv are preserved by every step.  Only a step that *)
(* takes or frees the mutex, pops, or sets the flag needs more than its own   *)
(* program counter: the rest follows from who holds the mutex.                *)
LEMMA SafetyStep ==
  IInv /\ [Next]_vars =>
    (MutexDiscipline /\ CurInv /\ ArgInv /\ OwnerInv /\ SleepInv /\ PopInv /\ LateInv
     /\ NoLostWakeup /\ LifeInv)'
<1> DEFINE Safe == MutexDiscipline /\ CurInv /\ ArgInv /\ OwnerInv /\ SleepInv /\ PopInv
                   /\ LateInv /\ NoLostWakeup /\ LifeInv
<1> SUFFICES ASSUME IInv, [Next]_vars PROVE Safe'
  OBVIOUS
<1> USE DEF IInv, TypeOK, LoopPcs, LoopHolds, loopVars, clientVars, ownerVars,
            MutexDiscipline, CurInv, ArgInv, OwnerInv, SleepInv, PopInv, LateInv, NoLostWakeup,
            LifeInv
<1>1. CASE LoopThread
  <2>1. CASE LoopTest BY <2>1 DEF LoopTest
  <2>2. CASE LoopLock BY <2>2 DEF LoopLock
  <2>3. CASE LoopCheck BY <2>3 DEF LoopCheck
  <2>4. CASE LoopSleep BY <2>4 DEF LoopSleep
  <2>5. CASE LoopTimeout BY <2>5 DEF LoopTimeout
  <2>6. CASE LoopSpurious BY <2>6 DEF LoopSpurious
  <2>7. CASE LoopRelock BY <2>7 DEF LoopRelock
  <2>8. CASE LoopStopTest BY <2>8 DEF LoopStopTest
  <2>9. CASE LoopPopEmpty BY <2>9 DEF LoopPopEmpty
  <2>10. CASE LoopPopTask BY <2>10 DEF LoopPopTask
  <2>11. CASE LoopRunReturns BY <2>11 DEF LoopRunReturns
  <2>12. CASE LoopRunThrows BY <2>12 DEF LoopRunThrows
  <2>13. CASE LoopUnlock BY <2>13 DEF LoopUnlock
  <2> QED
    BY <1>1, <2>1, <2>2, <2>3, <2>4, <2>5, <2>6, <2>7, <2>8, <2>9, <2>10, <2>11, <2>12, <2>13
       DEF LoopThread
<1>2. ASSUME NEW c \in Clients, Client(c) PROVE Safe'
  <2>1. ASSUME NEW t \in Tasks, SubmitCall(c, t) PROVE Safe'
    BY <2>1 DEF SubmitCall
  <2>2. CASE SubmitLock(c) BY <2>2 DEF SubmitLock
  <2>3. CASE SubmitEmplace(c) BY <2>3 DEF SubmitEmplace
  <2>4. CASE SubmitNotify(c)
    <3>1. loopPc' # "asleep" /\ (loopPc' \in LoopHolds <=> loopPc \in LoopHolds)
      BY <2>4 DEF SubmitNotify, Notify
    <3>2. MutexDiscipline'
      BY <2>4, <3>1 DEF SubmitNotify
    <3>3. CurInv' /\ ArgInv' /\ OwnerInv' /\ NoLostWakeup' /\ LifeInv'
      BY <2>4, <3>1 DEF SubmitNotify, Notify
    <3>4. SleepInv' /\ PopInv' /\ LateInv'
      BY <2>4 DEF SubmitNotify, Notify
    <3> QED BY <3>2, <3>3, <3>4
  <2> QED BY <1>2, <2>1, <2>2, <2>3, <2>4 DEF Client
<1>3. CASE Destroyer
  <2>1. CASE StopCall BY <2>1 DEF StopCall
  <2>2. CASE StopRequest BY <2>2 DEF StopRequest
  <2>3. CASE StopLock BY <2>3 DEF StopLock
  <2>4. CASE StopStore
    <3>1. loopPc \notin LoopHolds /\ ~jthread
      BY <2>4 DEF StopStore
    <3>2. MutexDiscipline' /\ CurInv' /\ ArgInv' /\ OwnerInv'
      BY <2>4 DEF StopStore
    <3>3. SleepInv' /\ PopInv' /\ LateInv' /\ NoLostWakeup' /\ LifeInv'
      BY <2>4, <3>1 DEF StopStore
    <3> QED BY <3>2, <3>3
  <2>5. CASE StopNotify
    <3>1. loopPc' # "asleep" /\ (loopPc' \in LoopHolds <=> loopPc \in LoopHolds)
      BY <2>5 DEF StopNotify, Notify
    <3>2. MutexDiscipline'
      BY <2>5, <3>1 DEF StopNotify
    <3>3. CurInv' /\ ArgInv' /\ OwnerInv' /\ NoLostWakeup' /\ LifeInv'
      BY <2>5, <3>1 DEF StopNotify, Notify
    <3>4. SleepInv' /\ PopInv' /\ LateInv'
      BY <2>5 DEF StopNotify, Notify
    <3> QED BY <3>2, <3>3, <3>4
  <2>6. CASE StopJoin BY <2>6 DEF StopJoin
  <2> QED BY <1>3, <2>1, <2>2, <2>3, <2>4, <2>5, <2>6 DEF Destroyer
<1>4. CASE UNCHANGED vars BY <1>4 DEF vars
<1> QED BY <1>1, <1>2, <1>3, <1>4 DEF Next

THEOREM Invariance == Spec => []IInv
<1>1. IInv /\ [Next]_vars => IInv'
  BY TypeStep, SafetyStep DEF IInv
<1> QED BY InitIInv, <1>1, PTL DEF Spec

(* The variables of Worker keep their types, for any number of clients and tasks. *)
THEOREM TypeCorrect == Spec => []TypeOK
BY Invariance, PTL DEF IInv

(* Daemon::mutex is held by exactly the thread that is inside its critical      *)
(* section: a task and an operator>> never overlap.                             *)
THEOREM MutualExclusion == Spec => []MutexDiscipline
BY Invariance, PTL DEF IInv

(* The run loop never sleeps on work, or on a stop stored under the mutex, that *)
(* nobody is about to tell it of.                                               *)
THEOREM WakeupsAreKept == Spec => []NoLostWakeup
BY Invariance, PTL DEF IInv

(* At most one task begins after the stop flag is set, and none in the build    *)
(* that sets it under the mutex.                                                *)
THEOREM FewLateStarts == Spec => []LateStarts
<1>1. IInv => LateStarts
  BY DEF IInv, LateInv, LateStarts, TypeOK
<1> QED BY Invariance, <1>1, PTL
-----------------------------------------------------------------------------
(* First-in first-out execution. *)

(* Moving the head of a queue to the end of what precedes it keeps the whole. *)
LEMMA MoveHead ==
  ASSUME NEW S, NEW s \in Seq(S), NEW q \in Seq(S), q # <<>>
  PROVE  (s \o <<Head(q)>>) \o Tail(q) = s \o q
<1>1. Head(q) \in S /\ Tail(q) \in Seq(S)
  BY HeadTailProperties
<1>2. q = <<Head(q)>> \o Tail(q)
  <2>1. q = SubSeq(q, 1, Len(q)) /\ Len(q) \in Nat \ {0} /\ q[1] = Head(q)
    BY SubSeqFull, EmptySeq
  <2>2. SubSeq(q, 1, Len(q)) = <<q[1]>> \o SubSeq(q, 2, Len(q))
    BY <2>1, SubSeqRecursiveFirst
  <2> QED BY <2>1, <2>2, TailIsSubSeq
<1> QED
  BY <1>1, <1>2, ConcatAssociative

LEMMA FifoStep == IInv /\ FifoAccounting /\ [Next]_vars => FifoAccounting'
<1> SUFFICES ASSUME IInv, FifoAccounting, [Next]_vars PROVE FifoAccounting'
  OBVIOUS
<1>0. /\ finished \in Seq(Tasks) /\ queue \in Seq(Tasks) /\ accepted \in Seq(Tasks)
      /\ Running \in Seq(Tasks) /\ finished \o Running \in Seq(Tasks)
  <2>1. Running \in Seq(Tasks)
    BY DEF IInv, TypeOK, Running
  <2> QED BY <2>1, ConcatProperties DEF IInv, TypeOK
<1>1. ASSUME UNCHANGED <<accepted, finished, cur, queue>> PROVE FifoAccounting'
  BY <1>1 DEF FifoAccounting, Running
<1>2. CASE LoopPopTask
  <2>1. cur = NoTask /\ cur' = Head(queue) /\ Head(queue) \in Tasks
    BY <1>0, <1>2, HeadTailProperties DEF LoopPopTask, IInv, CurInv
  <2>2. Running = <<>> /\ Running' = <<Head(queue)>>
    BY <2>1 DEF Running, WorkerAssumption
  <2>3. accepted = finished \o queue
    BY <1>0, <2>2, ConcatEmptySeq DEF FifoAccounting
  <2>4. (finished \o <<Head(queue)>>) \o Tail(queue) = finished \o queue
    BY <1>0, <1>2, MoveHead DEF LoopPopTask
  <2> QED BY <1>2, <2>2, <2>3, <2>4 DEF LoopPopTask, FifoAccounting, clientVars
<1>3. CASE LoopRunReturns \/ LoopRunThrows
  <2>1. cur \in Tasks /\ cur # NoTask
    BY <1>3 DEF LoopRunReturns, LoopRunThrows, IInv, CurInv, TypeOK
  <2>a. finished' = Append(finished, cur) /\ cur' = NoTask /\ queue' = queue /\ accepted' = accepted
    BY <1>3 DEF LoopRunReturns, LoopRunThrows, clientVars
  <2>b. Append(finished, cur) = finished \o <<cur>>
    BY <1>0, <2>1, AppendIsConcat
  <2>2. finished' = finished \o Running /\ Running' = <<>> /\ queue' = queue /\ accepted' = accepted
    BY <2>1, <2>a, <2>b DEF Running
  <2>3. finished' \o Running' = finished \o Running
    BY <1>0, <2>2, ConcatEmptySeq
  <2> QED BY <2>2, <2>3 DEF FifoAccounting
<1>4. ASSUME NEW c \in Clients, SubmitEmplace(c) PROVE FifoAccounting'
  <2>1. arg[c] \in Tasks
    BY <1>4 DEF SubmitEmplace, IInv, ArgInv
  <2> DEFINE s == finished \o Running
             e == arg[c]
  <2>2. Append(s \o queue, e) = s \o Append(queue, e)
    <3>1. s \in Seq(Tasks) /\ queue \in Seq(Tasks) /\ e \in Tasks
      BY <1>0, <2>1
    <3> HIDE DEF s, e
    <3>2. s \o queue \in Seq(Tasks) /\ <<e>> \in Seq(Tasks)
      BY <3>1, ConcatProperties
    <3>3. Append(queue, e) = queue \o <<e>>
      BY <3>1, AppendIsConcat
    <3>4. Append(s \o queue, e) = (s \o queue) \o <<e>>
      BY <3>1, <3>2, AppendIsConcat
    <3>5. (s \o queue) \o <<e>> = s \o (queue \o <<e>>)
      BY <3>1, <3>2, ConcatAssociative
    <3> QED BY <3>3, <3>4, <3>5
  <2> QED BY <1>4, <2>2 DEF SubmitEmplace, FifoAccounting, Running, loopVars
<1>5. UNCHANGED <<accepted, finished, cur, queue>> \/ LoopPopTask \/ LoopRunReturns \/ LoopRunThrows
      \/ \E c \in Clients : SubmitEmplace(c)
  BY DEF Next, LoopThread, Client, Destroyer, LoopTest, LoopLock, LoopCheck, LoopSleep, LoopTimeout,
         LoopSpurious, LoopRelock, LoopStopTest, LoopPopEmpty, LoopUnlock, SubmitCall, SubmitLock,
         SubmitNotify, StopCall, StopRequest, StopLock, StopStore, StopNotify, StopJoin, vars,
         loopVars, clientVars
<1> QED BY <1>1, <1>2, <1>3, <1>4, <1>5

(* Tasks run in the order operator>> accepted them, each at most once, and none  *)
(* is lost, whatever the interleaving of clients, run loop and destructor.       *)
THEOREM FirstInFirstOut == Spec => []FifoAccounting
<1>1. Init => FifoAccounting
  BY ConcatEmptySeq, EmptySeq DEF Init, FifoAccounting, Running
<1>2. IInv /\ FifoAccounting /\ [Next]_vars => FifoAccounting'
  BY FifoStep
<1> QED BY <1>1, <1>2, Invariance, PTL DEF Spec
-----------------------------------------------------------------------------
(* The Worker implements TaskQueue (safety). *)

LEMMA ElementsAppend ==
  ASSUME NEW S, NEW s \in Seq(S), NEW e \in S
  PROVE  Elements(Append(s, e)) = Elements(s) \cup {e}
<1>1. /\ Len(Append(s, e)) = Len(s) + 1 /\ Len(s) \in Nat
      /\ DOMAIN s = 1..Len(s) /\ DOMAIN Append(s, e) = 1..(Len(s) + 1)
      /\ \A i \in 1..Len(s) : Append(s, e)[i] = s[i]
      /\ Append(s, e)[Len(s) + 1] = e
  BY LenProperties
<1> QED BY <1>1 DEF Elements

LEMMA ElementsConcat ==
  ASSUME NEW S, NEW s \in Seq(S), NEW q \in Seq(S)
  PROVE  Elements(s) \cup Elements(q) \subseteq Elements(s \o q)
<1>1. /\ Len(s) \in Nat /\ Len(q) \in Nat
      /\ DOMAIN s = 1..Len(s) /\ DOMAIN q = 1..Len(q)
      /\ DOMAIN (s \o q) = 1..(Len(s) + Len(q))
  BY LenProperties, ConcatProperties
<1>2. ASSUME NEW i \in 1..Len(s) PROVE s[i] \in Elements(s \o q)
  BY <1>1, ConcatProperties DEF Elements
<1>3. ASSUME NEW i \in 1..Len(q) PROVE q[i] \in Elements(s \o q)
  <2>1. i + Len(s) \in 1..(Len(s) + Len(q)) /\ (s \o q)[i + Len(s)] = q[i]
    BY <1>1, ConcatProperties
  <2> QED BY <1>1, <2>1 DEF Elements
<1> QED BY <1>1, <1>2, <1>3 DEF Elements

(* A task that is being submitted was not accepted before, and one client has it. *)
FreshInv ==
  \A c \in Clients : arg[c] # NoTask =>
    /\ arg[c] \notin Elements(accepted)
    /\ \A d \in Clients : arg[d] = arg[c] => d = c

LEMMA FreshStep == IInv /\ FreshInv /\ [Next]_vars => FreshInv'
<1> SUFFICES ASSUME IInv, FreshInv, [Next]_vars PROVE FreshInv'
  OBVIOUS
<1>1. ASSUME UNCHANGED <<accepted, arg>> PROVE FreshInv'
  BY <1>1 DEF FreshInv, Elements
<1>2. ASSUME NEW c \in Clients, NEW t \in Tasks, SubmitCall(c, t) PROVE FreshInv'
  <2>1. /\ t \notin Elements(accepted) /\ \A d \in Clients : arg[d] # t
        /\ arg' = [arg EXCEPT ![c] = t] /\ accepted' = accepted
    BY <1>2 DEF SubmitCall, Known
  <2>2. Elements(accepted)' = Elements(accepted)
    BY <2>1 DEF Elements
  <2> QED BY <2>1, <2>2 DEF FreshInv, IInv, TypeOK
<1>3. ASSUME NEW c \in Clients, SubmitEmplace(c) PROVE FreshInv'
  <2>1. /\ arg[c] \in Tasks /\ arg[c] # NoTask /\ accepted \in Seq(Tasks)
        /\ accepted' = Append(accepted, arg[c]) /\ arg' = [arg EXCEPT ![c] = NoTask]
    BY <1>3 DEF SubmitEmplace, IInv, ArgInv, TypeOK
  <2>2. Elements(accepted)' = Elements(accepted) \cup {arg[c]}
    BY <2>1, ElementsAppend
  <2> QED BY <2>1, <2>2 DEF FreshInv, IInv, TypeOK
<1>4. UNCHANGED <<accepted, arg>> \/ (\E c \in Clients, t \in Tasks : SubmitCall(c, t))
      \/ (\E c \in Clients : SubmitEmplace(c))
  BY DEF Next, LoopThread, Client, Destroyer, LoopTest, LoopLock, LoopCheck, LoopSleep, LoopTimeout,
         LoopSpurious, LoopRelock, LoopStopTest, LoopPopEmpty, LoopPopTask, LoopRunReturns,
         LoopRunThrows, LoopUnlock, SubmitLock, SubmitNotify, StopCall, StopRequest, StopLock,
         StopStore, StopNotify, StopJoin, vars, clientVars
<1> QED BY <1>1, <1>2, <1>3, <1>4

LEMMA QueueStep == IInv /\ FifoAccounting /\ FreshInv /\ [Next]_vars => [Queue!Next]_(Queue!vars)
<1> SUFFICES ASSUME IInv, FifoAccounting, FreshInv, [Next]_vars
             PROVE  Queue!Next \/ UNCHANGED Queue!vars
  OBVIOUS
<1> USE DEF Queue!vars
<1>1. CASE LoopTest
  <2>1. CASE stop
    <3>1. cur = NoTask
      BY <1>1 DEF LoopTest, IInv, CurInv
    <3>2. Queue!Close
      BY <1>1, <2>1, <3>1 DEF LoopTest, Queue!Close
    <3> QED BY <3>2 DEF Queue!Next
  <2>2. CASE ~stop
    BY <1>1, <2>2 DEF LoopTest
  <2> QED BY <2>1, <2>2
<1>2. CASE LoopStopTest
  <2>1. CASE stop
    <3>1. cur = NoTask
      BY <1>2 DEF LoopStopTest, IInv, CurInv
    <3>2. Queue!Close
      BY <1>2, <2>1, <3>1 DEF LoopStopTest, Queue!Close
    <3> QED BY <3>2 DEF Queue!Next
  <2>2. CASE ~stop
    BY <1>2, <2>2 DEF LoopStopTest
  <2> QED BY <2>1, <2>2
<1>3. CASE LoopPopTask
  <2>1. Queue!Begin
    BY <1>3 DEF LoopPopTask, Queue!Begin, IInv, CurInv
  <2> QED BY <2>1 DEF Queue!Next
<1>4. CASE LoopRunReturns \/ LoopRunThrows
  <2>1. Queue!End
    BY <1>4 DEF LoopRunReturns, LoopRunThrows, Queue!End, IInv, CurInv
  <2> QED BY <2>1 DEF Queue!Next
<1>5. ASSUME NEW c \in Clients, SubmitEmplace(c) PROVE Queue!Next
  <2>1. arg[c] \in Tasks /\ arg[c] # NoTask /\ arg[c] \notin Elements(accepted)
    BY <1>5 DEF SubmitEmplace, IInv, ArgInv, FreshInv
  <2>2. loopPc # "done" /\ loopPc' = loopPc
    BY <1>5 DEF SubmitEmplace, IInv, LifeInv, OwnerInv, loopVars
  <2>3. arg[c] \notin Elements(queue) \cup Elements(finished) \cup {cur}
    <3>1. /\ finished \in Seq(Tasks) /\ queue \in Seq(Tasks) /\ Running \in Seq(Tasks)
          /\ finished \o Running \in Seq(Tasks)
      <4>1. Running \in Seq(Tasks)
        BY DEF IInv, TypeOK, Running
      <4> QED BY <4>1, ConcatProperties DEF IInv, TypeOK
    <3>2. Elements(finished \o Running) \cup Elements(queue) \subseteq Elements(accepted)
      <4> DEFINE s == finished \o Running
      <4>1. s \in Seq(Tasks) /\ accepted = s \o queue
        BY <3>1 DEF FifoAccounting
      <4> HIDE DEF s
      <4>2. Elements(s) \cup Elements(queue) \subseteq Elements(s \o queue)
        BY <3>1, <4>1, ElementsConcat
      <4> QED BY <4>1, <4>2 DEF s
    <3>3. Elements(finished) \cup Elements(Running) \subseteq Elements(finished \o Running)
      BY <3>1, ElementsConcat
    <3>4. cur # NoTask => cur \in Elements(Running)
      BY DEF Running, Elements
    <3> QED BY <2>1, <3>2, <3>3, <3>4
  <2>4. Queue!Submit(arg[c])
    BY <1>5, <2>2, <2>3 DEF SubmitEmplace, Queue!Submit, Queue!Elements, Elements, loopVars
  <2> QED BY <2>1, <2>4 DEF Queue!Next
<1>6. CASE UNCHANGED <<queue, cur, finished>> /\ (loopPc' = "done" <=> loopPc = "done")
  BY <1>6
<1>7. ASSUME LoopLock \/ LoopCheck \/ LoopSleep \/ LoopTimeout \/ LoopSpurious \/ LoopRelock
             \/ LoopPopEmpty \/ LoopUnlock
      PROVE  UNCHANGED <<queue, cur, finished>> /\ (loopPc' = "done" <=> loopPc = "done")
  BY <1>7 DEF LoopLock, LoopCheck, LoopSleep, LoopTimeout, LoopSpurious, LoopRelock, LoopPopEmpty,
              LoopUnlock
<1>8. ASSUME NEW c \in Clients,
             (\E t \in Tasks : SubmitCall(c, t)) \/ SubmitLock(c) \/ SubmitNotify(c)
      PROVE  UNCHANGED <<queue, cur, finished>> /\ (loopPc' = "done" <=> loopPc = "done")
  BY <1>8 DEF SubmitCall, SubmitLock, SubmitNotify, Notify, loopVars
<1>9. ASSUME Destroyer \/ UNCHANGED vars
      PROVE  UNCHANGED <<queue, cur, finished>> /\ (loopPc' = "done" <=> loopPc = "done")
  BY <1>9 DEF Destroyer, StopCall, StopRequest, StopLock, StopStore, StopNotify, StopJoin, Notify,
              vars, loopVars
<1> QED
  BY <1>1, <1>2, <1>3, <1>4, <1>5, <1>6, <1>7, <1>8, <1>9 DEF Next, LoopThread, Client

(* A Worker is a first-in first-out task queue: with the run loop, the mutex and *)
(* the condition variable hidden, its steps are those of TaskQueue.              *)
THEOREM Refinement == Spec => Queue!Spec
<1>1. Init => Queue!Init
  BY DEF Init, Queue!Init
<1>2. Init => FreshInv
  BY DEF Init, FreshInv
<1>3. IInv /\ FreshInv /\ [Next]_vars => FreshInv'
  BY FreshStep
<1>4. IInv /\ FifoAccounting /\ FreshInv /\ [Next]_vars => [Queue!Next]_(Queue!vars)
  BY QueueStep
<1> QED BY <1>1, <1>2, <1>3, <1>4, Invariance, FirstInFirstOut, PTL DEF Spec, Queue!Spec
=============================================================================
