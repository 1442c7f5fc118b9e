------------------------------ MODULE JSVMProofs -----------------------------
(***************************************************************************)
(* Proofs about JSVM for every set of threads and Workers, every script    *)
(* and every number of promises, calls and attempts: the levels of the     *)
(* recursive vmMutex are given back on every path; a promise's handle is   *)
(* in the cache while its task is ahead, at one spot; a promise stays      *)
(* pending for a reason; and a nested await waits in vain.                 *)
(***************************************************************************)
EXTENDS JSVM, FiniteSetTheorems, SequenceTheorems, TLAPS

(* The promises newPromise() has made, and the frames of a stack: one that *)
(* is about to submit has such a promise to submit.                        *)
Made == {p \in Promises : madeBy[p] \in Fns}
Good(M) == {f \in Frames : f.pc = "submit" => f.promise \in M}

StackType == stack \in [Threads -> Seq(Good(Made))]
CallType == owner \in Threads \cup Workers \cup {Nobody} /\ calls \in 0 .. MaxCalls
HeapType ==
  /\ promise \in [Promises -> {"unborn", "pending", "ready", "settled"}]
  /\ madeBy \in [Promises -> Fns \cup {NoFn}]
  /\ cache \in SUBSET Promises /\ dropped \in SUBSET Promises
  /\ \A p \in Promises : promise[p] = "ready" => p \in Made
PoolType ==
  /\ queue \in [Workers -> Seq(Made)]
  /\ running \in [Workers -> Made \cup {NoPromise}]
  /\ wpc \in [Workers -> {"idle", "try", "work"}]
  /\ wtries \in [Workers -> 0 .. RetryCount - 1]
  /\ turn \in Workers
  /\ \A w \in Workers : wpc[w] # "idle" => running[w] \in Made
LoopType ==
  /\ looper \in [Kinds -> Loops \cup {Nobody}]
  /\ lpc \in [Loops -> {"none", "wait", "round"}]
  /\ job \in [Loops -> Promises \cup {NoPromise}]
  /\ timers \in [Fns -> Nat]
  /\ ended \in BOOLEAN

(* The frames that hold a level of vmMutex, and the levels of each thread. *)
Hold(s) == {i \in DOMAIN s : s[i].pc \in HoldingPcs}
Count(s) == Cardinality(Hold(s))
Below(s) == Cardinality(Hold(s) \ {Len(s)})
Holds(f) == IF f.pc \in HoldingPcs THEN 1 ELSE 0
Rounds(f, t) == IF t \in Loops /\ f[t] = "round" THEN 1 ELSE 0
Works(x) == IF x = "work" THEN 1 ELSE 0

Lev == [t \in Threads \cup Workers |->
          IF t \in Workers THEN Works(wpc[t]) ELSE Count(stack[t]) + Rounds(lpc, t)]

(* Nobody but the owner is inside, and it as deep as vmMutex is locked. *)
Balanced(levels, holder, d) ==
  /\ d \in Nat /\ (holder = Nobody <=> d = 0)
  /\ \A t \in Threads \cup Workers : levels[t] = IF holder = t THEN d ELSE 0

LockInv == Balanced(Lev, owner, depth)

TypeInv == StackType /\ CallType /\ HeapType /\ PoolType /\ LoopType
IInv == TypeInv /\ LockInv

(* How the number of frames that hold a level changes with the stack. *)
LEMMA CountType ==
  ASSUME NEW G, NEW s \in Seq(G)
  PROVE  IsFiniteSet(Hold(s)) /\ Count(s) \in Nat
<1>1. DOMAIN s = 1 .. Len(s) /\ Len(s) \in Nat
  BY LenProperties
<1>2. IsFiniteSet(1 .. Len(s))
  BY <1>1, FS_Interval
<1>3. Hold(s) \subseteq 1 .. Len(s)
  BY <1>1 DEF Hold
<1>4. IsFiniteSet(Hold(s))
  BY <1>2, <1>3, FS_Subset
<1> QED BY <1>4, FS_CardinalityType DEF Count

LEMMA HoldsType == \A f : Holds(f) \in Nat /\ Holds(f) \in {0, 1}
BY DEF Holds

LEMMA CountAppend ==
  ASSUME NEW G, NEW s \in Seq(G), NEW f \in G, f.pc \notin HoldingPcs
  PROVE  Append(s, f) \in Seq(G) /\ Count(Append(s, f)) = Count(s)
<1> DEFINE n == Len(s) + 1
           r == Append(s, f)
<1>1. r \in Seq(G) /\ Len(r) = n /\ r[n] = f /\ \A i \in 1 .. Len(s) : r[i] = s[i]
  BY AppendProperties
<1>2. Len(s) \in Nat /\ DOMAIN s = 1 .. Len(s) /\ DOMAIN r = 1 .. n
  BY <1>1, LenProperties
<1> HIDE DEF r
<1>3. Hold(r) = Hold(s)
  BY <1>1, <1>2 DEF Hold
<1>4. r \in Seq(G) /\ Count(r) = Count(s)
  BY <1>1, <1>3 DEF Count
<1> QED BY <1>4, Zenon DEF r

(* The frames below the innermost one, and what that one adds. *)
LEMMA CountSplit ==
  ASSUME NEW G, NEW s \in Seq(G), s # <<>>
  PROVE  /\ Len(s) \in Nat \ {0} /\ Len(s) \in DOMAIN s /\ s[Len(s)] \in G
         /\ Below(s) \in Nat
         /\ Count(s) = Below(s) + Holds(s[Len(s)])
<1> DEFINE n == Len(s)
<1>1. n \in Nat \ {0} /\ DOMAIN s = 1 .. n
  BY LenProperties, EmptySeq
<1>2. n \in DOMAIN s /\ s[n] \in G
  BY <1>1, ElementOfSeq
<1>3. IsFiniteSet(Hold(s)) /\ Count(s) \in Nat
  BY CountType
<1>4. IsFiniteSet(Hold(s) \ {n})
  BY <1>3, FS_Subset
<1>5. Below(s) \in Nat
  BY <1>4, FS_CardinalityType DEF Below
<1>6. CASE s[n].pc \in HoldingPcs
  <2>1. Hold(s) = (Hold(s) \ {n}) \cup {n}
    BY <1>2, <1>6 DEF Hold
  <2>2. Cardinality((Hold(s) \ {n}) \cup {n}) = Cardinality(Hold(s) \ {n}) + 1
    BY <1>4, FS_AddElement
  <2>3. Holds(s[n]) = 1
    BY <1>6 DEF Holds
  <2>4. Count(s) = Below(s) + 1
    BY <2>1, <2>2 DEF Count, Below
  <2> QED BY <1>1, <1>2, <1>5, <2>3, <2>4
<1>7. CASE s[n].pc \notin HoldingPcs
  <2>1. Hold(s) = Hold(s) \ {n}
    BY <1>7 DEF Hold
  <2>2. Holds(s[n]) = 0
    BY <1>7 DEF Holds
  <2>3. Count(s) = Below(s)
    BY <2>1 DEF Count, Below
  <2> QED BY <1>1, <1>2, <1>5, <2>2, <2>3
<1> QED BY <1>6, <1>7

LEMMA CountMove ==
  ASSUME NEW G, NEW s \in Seq(G), s # <<>>, NEW f \in G,
         NEW r, r = [s EXCEPT ![Len(s)] = f]
  PROVE  /\ r \in Seq(G) /\ r # <<>> /\ Len(r) = Len(s) /\ r[Len(s)] = f
         /\ Count(r) + Holds(s[Len(s)]) = Count(s) + Holds(f)
<1> DEFINE n == Len(s)
<1>1. n \in Nat \ {0} /\ n \in DOMAIN s /\ Below(s) \in Nat /\ Count(s) = Below(s) + Holds(s[n])
  BY CountSplit
<1>2. n \in 1 .. Len(s) /\ DOMAIN s = 1 .. n
  BY <1>1, LenProperties
<1>3. r \in Seq(G) /\ Len(r) = n
  BY <1>2, ExceptSeq
<1>4. r[n] = f /\ DOMAIN r = DOMAIN s /\ \A i \in DOMAIN s : i # n => r[i] = s[i]
  BY <1>1
<1>5. r # <<>>
  BY <1>1, <1>3, EmptySeq
<1>6. Hold(r) \ {n} = Hold(s) \ {n}
  BY <1>4 DEF Hold
<1>7. Below(r) = Below(s)
  BY <1>3, <1>6 DEF Below
<1>8. Count(r) = Below(r) + Holds(r[Len(r)])
  BY <1>3, <1>5, CountSplit
<1>9. Holds(f) \in Nat /\ Holds(s[n]) \in Nat
  BY HoldsType
<1>10. Count(r) + Holds(s[n]) = Count(s) + Holds(f)
  BY <1>1, <1>3, <1>4, <1>7, <1>8, <1>9
<1> QED BY <1>3, <1>4, <1>5, <1>10

LEMMA CountReturn ==
  ASSUME NEW G, NEW s \in Seq(G), s # <<>>, NEW r, r = SubSeq(s, 1, Len(s) - 1)
  PROVE  r \in Seq(G) /\ Count(r) + Holds(s[Len(s)]) = Count(s)
<1> DEFINE n == Len(s)
<1>1. n \in Nat \ {0} /\ n \in DOMAIN s /\ Below(s) \in Nat /\ Count(s) = Below(s) + Holds(s[n])
  BY CountSplit
<1>2. DOMAIN s = 1 .. n
  BY LenProperties
<1>3. \A i \in 1 .. n - 1 : s[i] \in G
  BY <1>1, ElementOfSeq
<1>4. n - 1 \in Int
  BY <1>1
<1>5. /\ r \in Seq(G)
      /\ Len(r) = IF 1 <= n - 1 THEN n - 1 - 1 + 1 ELSE 0
      /\ \A i \in 1 .. n - 1 - 1 + 1 : r[i] = s[1 + i - 1]
  BY <1>3, <1>4, SubSeqProperties
<1>6. Len(r) = n - 1
  <2>1. Len(r) = IF 1 <= n - 1 THEN n - 1 - 1 + 1 ELSE 0
    BY <1>5
  <2>2. n \in Nat \ {0}
    BY <1>1
  <2> HIDE DEF n
  <2> QED BY <2>1, <2>2
<1>7. DOMAIN r = 1 .. n - 1
  BY <1>5, <1>6, LenProperties
<1>8. \A i \in 1 .. n - 1 : r[i] = s[i]
  BY <1>1, <1>5
<1>9. Hold(r) = Hold(s) \ {n}
  BY <1>1, <1>2, <1>7, <1>8 DEF Hold
<1>10. Count(r) = Below(s)
  BY <1>9 DEF Count, Below
<1> QED BY <1>1, <1>5, <1>10
-----------------------------------------------------------------------------
(* The parts of the invariant that a change of one stack, or of vmMutex,   *)
(* disturbs.                                                               *)
Loud == wpc' = wpc /\ \A l \in Loops : lpc'[l] = "round" <=> lpc[l] = "round"
Others(t) == \A u \in (Threads \cup Workers) \ {t} : Lev'[u] = Lev[u]

LEMMA WiderFrames ==
  ASSUME NEW M, NEW N, M \subseteq N
  PROVE  Good(M) \subseteq Good(N) /\ Seq(Good(M)) \subseteq Seq(Good(N))
<1>1. Good(M) \subseteq Good(N)
  BY DEF Good
<1>2. ASSUME NEW s \in Seq(Good(M)) PROVE s \in Seq(Good(N))
  BY <1>1
<1> QED BY <1>1, <1>2

LEMMA TopType ==
  ASSUME StackType, NEW t \in Threads, stack[t] # <<>>
  PROVE  stack[t] \in Seq(Good(Made)) /\ Top(t) \in Good(Made) /\ Top(t) \in Frames
<1>1. stack[t] \in Seq(Good(Made))
  BY DEF StackType
<1>2. Top(t) \in Good(Made)
  BY <1>1, CountSplit DEF Top
<1> QED BY <1>1, <1>2 DEF Good

LEMMA StackStep ==
  ASSUME StackType, NEW t \in Threads, Made \subseteq Made',
         NEW r \in Seq(Good(Made')), stack' = [stack EXCEPT ![t] = r], Loud
  PROVE  /\ StackType' /\ Others(t)
         /\ Lev'[t] + Count(stack[t]) = Lev[t] + Count(r)
         /\ Lev[t] \in Nat /\ Lev'[t] \in Nat
<1>1. Seq(Good(Made)) \subseteq Seq(Good(Made'))
  BY WiderFrames
<1>2. StackType'
  BY <1>1 DEF StackType
<1>3. t \notin Workers
  BY JSVMAssumption DEF JSVMAssumption
<1>4. \A u \in Loops : Rounds(lpc', u) = Rounds(lpc, u)
  BY DEF Loud, Rounds
<1>5. \A u : Rounds(lpc', u) = Rounds(lpc, u) /\ Rounds(lpc, u) \in Nat
  BY <1>4 DEF Rounds
<1>6. \A u \in Threads : u # t => stack'[u] = stack[u]
  BY DEF StackType
<1>7. stack'[t] = r
  BY DEF StackType
<1>8. Others(t)
  BY <1>5, <1>6 DEF Others, Lev, Loud
<1>9. Lev[t] = Count(stack[t]) + Rounds(lpc, t)
  BY <1>3 DEF Lev
<1>10. Lev'[t] = Count(r) + Rounds(lpc, t)
  BY <1>3, <1>5, <1>7 DEF Lev
<1>11. Count(stack[t]) \in Nat /\ Count(r) \in Nat /\ Rounds(lpc, t) \in Nat
  BY <1>5, CountType DEF StackType
<1> QED BY <1>2, <1>8, <1>9, <1>10, <1>11

LEMMA MoveStep ==
  ASSUME StackType, NEW t \in Threads, stack[t] # <<>>, Made \subseteq Made',
         NEW f \in Good(Made'), Move(t, f), Loud
  PROVE  /\ StackType' /\ Others(t)
         /\ Lev'[t] + Holds(Top(t)) = Lev[t] + Holds(f)
         /\ Lev[t] \in Nat /\ Lev'[t] \in Nat
<1> DEFINE r == [stack[t] EXCEPT ![Len(stack[t])] = f]
<1>1. stack[t] \in Seq(Good(Made'))
  BY TopType, WiderFrames
<1>2. r \in Seq(Good(Made')) /\ Count(r) + Holds(Top(t)) = Count(stack[t]) + Holds(f)
  BY <1>1, CountMove DEF Top
<1>3. stack' = [stack EXCEPT ![t] = r]
  BY DEF Move
<1> HIDE DEF r
<1>4. /\ StackType' /\ Others(t) /\ Lev'[t] + Count(stack[t]) = Lev[t] + Count(r)
      /\ Lev[t] \in Nat /\ Lev'[t] \in Nat
  BY <1>2, <1>3, StackStep
<1>5. Count(stack[t]) \in Nat /\ Count(r) \in Nat /\ Holds(f) \in Nat /\ Holds(Top(t)) \in Nat
  BY <1>1, <1>2, CountType, HoldsType
<1>6. Lev'[t] + Holds(Top(t)) = Lev[t] + Holds(f)
  <2> DEFINE m == Lev'[t]   x == Count(stack[t])  g == Holds(Top(t))
             l == Lev[t]    y == Count(r)         h == Holds(f)
  <2>1. /\ m \in Nat /\ l \in Nat /\ x \in Nat /\ y \in Nat /\ g \in Nat /\ h \in Nat
        /\ m + x = l + y /\ y + g = x + h
    BY <1>2, <1>4, <1>5
  <2> HIDE DEF m, l, x, y, g, h
  <2>2. m + g = l + h
    BY <2>1
  <2> QED BY <2>2 DEF m, l, g, h
<1> QED BY <1>4, <1>6

LEMMA ReturnStep ==
  ASSUME StackType, NEW t \in Threads, stack[t] # <<>>, Made' = Made, Return(t), Loud
  PROVE  /\ StackType' /\ Others(t) /\ Lev'[t] + Holds(Top(t)) = Lev[t]
         /\ Lev[t] \in Nat /\ Lev'[t] \in Nat
<1> DEFINE r == SubSeq(stack[t], 1, Len(stack[t]) - 1)
<1>1. stack[t] \in Seq(Good(Made))
  BY TopType
<1>2. r \in Seq(Good(Made')) /\ Count(r) + Holds(Top(t)) = Count(stack[t])
  BY <1>1, CountReturn DEF Top
<1>3. stack' = [stack EXCEPT ![t] = r]
  BY DEF Return
<1> HIDE DEF r
<1>4. /\ StackType' /\ Others(t) /\ Lev'[t] + Count(stack[t]) = Lev[t] + Count(r)
      /\ Lev[t] \in Nat /\ Lev'[t] \in Nat
  BY <1>2, <1>3, StackStep
<1>5. Count(stack[t]) \in Nat /\ Count(r) \in Nat /\ Holds(Top(t)) \in Nat
  BY <1>1, <1>2, CountType, HoldsType
<1>6. Lev'[t] + Holds(Top(t)) = Lev[t]
  <2> DEFINE m == Lev'[t]   x == Count(stack[t])  g == Holds(Top(t))
             l == Lev[t]    y == Count(r)
  <2>1. /\ m \in Nat /\ l \in Nat /\ x \in Nat /\ y \in Nat /\ g \in Nat
        /\ m + x = l + y /\ y + g = x
    BY <1>2, <1>4, <1>5
  <2> HIDE DEF m, l, x, y, g
  <2>2. m + g = l
    BY <2>1
  <2> QED BY <2>2 DEF m, l, g
<1> QED BY <1>4, <1>6

LEMMA FrameType ==
  ASSUME NEW f \in Fns, NEW M
  PROVE  Frame(f) \in Good(M) /\ Holds(Frame(f)) = 0
BY JSVMAssumption DEF JSVMAssumption, Frame, Good, Frames, Holds, HoldingPcs

LEMMA CountEnter ==
  ASSUME NEW M, NEW s \in Seq(Good(M)), NEW f \in Fns
  PROVE  Append(s, Frame(f)) \in Seq(Good(M)) /\ Count(Append(s, Frame(f))) = Count(s)
<1>1. Frame(f) \in Good(M)
  BY FrameType
<1>2. Frame(f).pc \notin HoldingPcs
  BY DEF Frame, HoldingPcs
<1> QED BY <1>1, <1>2, CountAppend, Zenon

LEMMA EnterStep ==
  ASSUME StackType, NEW t \in Threads, NEW f \in Fns, Made' = Made, Enter(t, f), Loud
  PROVE  StackType' /\ Others(t) /\ Lev'[t] = Lev[t]
<1> DEFINE r == Append(stack[t], Frame(f))
<1>1. stack[t] \in Seq(Good(Made))
  BY DEF StackType
<1>2. r \in Seq(Good(Made')) /\ Count(r) = Count(stack[t])
  BY <1>1, CountEnter
<1>3. stack' = [stack EXCEPT ![t] = r]
  BY DEF Enter
<1> HIDE DEF r
<1>4. /\ StackType' /\ Others(t) /\ Lev'[t] + Count(stack[t]) = Lev[t] + Count(r)
      /\ Lev[t] \in Nat /\ Lev'[t] \in Nat
  BY <1>2, <1>3, StackStep
<1>5. Count(stack[t]) \in Nat
  BY <1>1, CountType
<1> QED BY <1>2, <1>4, <1>5

LEMMA TakeLevel ==
  ASSUME LockInv, NEW t \in Threads \cup Workers, CanLock(t), LockBy(t),
         Lev'[t] = Lev[t] + 1, Others(t)
  PROVE  LockInv'
BY JSVMAssumption DEF JSVMAssumption, LockInv, Balanced, CanLock, LockBy, Others

LEMMA GiveLevel ==
  ASSUME LockInv, NEW t \in Threads \cup Workers, Unlock,
         Lev'[t] \in Nat, Lev'[t] + 1 = Lev[t], Others(t)
  PROVE  LockInv'
<1>1. owner = t /\ Lev[t] = depth /\ depth \in Nat \ {0}
  BY JSVMAssumption DEF JSVMAssumption, LockInv, Balanced
<1> QED BY <1>1, JSVMAssumption DEF JSVMAssumption, LockInv, Balanced, Unlock, Others

LEMMA KeepLevel ==
  ASSUME LockInv, NEW t \in Threads \cup Workers, UNCHANGED <<owner, depth>>,
         Lev'[t] = Lev[t], Others(t)
  PROVE  LockInv'
BY DEF LockInv, Balanced, Others

LEMMA RestKept ==
  ASSUME TypeInv, UNCHANGED <<heapVars, poolVars, loopVars>>
  PROVE  HeapType' /\ PoolType' /\ LoopType' /\ Made' = Made /\ Loud
BY DEF TypeInv, HeapType, PoolType, LoopType, heapVars, poolVars, loopVars, Made, Loud

-----------------------------------------------------------------------------
(* callFunc(), one lemma for each kind of step. *)
LEMMA CallKept ==
  ASSUME IInv, NEW c \in Callers, NEW f \in Fns, Call(c, f)
  PROVE  IInv'
<1>1. c \in Threads
  BY DEF Threads
<1>2. HeapType' /\ PoolType' /\ LoopType' /\ Made' = Made /\ Loud
  BY RestKept DEF IInv, Call
<1>3. StackType' /\ Others(c) /\ Lev'[c] = Lev[c]
  BY <1>1, <1>2, EnterStep DEF IInv, TypeInv, Call
<1>4. LockInv'
  BY <1>1, <1>3, KeepLevel DEF IInv, Call
<1>5. CallType'
  BY JSVMAssumption DEF JSVMAssumption, IInv, TypeInv, CallType, Call
<1> QED BY <1>2, <1>3, <1>4, <1>5 DEF IInv, TypeInv

LEMMA LockKept ==
  ASSUME IInv, NEW t \in Threads, Lock(t)
  PROVE  IInv'
<1> DEFINE f == [Top(t) EXCEPT !.pc = "js"]
<1>1. StackType /\ stack[t] # <<>> /\ Top(t).pc = "try" /\ Top(t) \in Frames
  BY TopType DEF IInv, TypeInv, Lock, At
<1>2. HeapType' /\ PoolType' /\ LoopType' /\ Made' = Made /\ Loud
  <2>1. UNCHANGED <<heapVars, poolVars, looper, lpc, job, ended>> /\ SetTimer(Top(t).fn)
    BY DEF Lock
  <2>2. Script[Top(t).fn].later \in Fns \cup {NoFn}
    BY <1>1, JSVMAssumption DEF JSVMAssumption, Frames
  <2>3. timers' \in [Fns -> Nat]
    BY <2>1, <2>2 DEF SetTimer, IInv, TypeInv, LoopType
  <2>4. HeapType' /\ PoolType' /\ Made' = Made /\ Loud
    BY <2>1 DEF IInv, TypeInv, HeapType, PoolType, heapVars, poolVars, Made, Loud
  <2>5. LoopType'
    BY <2>1, <2>3 DEF IInv, TypeInv, LoopType
  <2> QED BY <2>4, <2>5
<1>3. f \in Good(Made') /\ Holds(f) = 1 /\ Holds(Top(t)) = 0
  BY <1>1 DEF Good, Frames, Holds, HoldingPcs
<1>4. Move(t, f)
  BY DEF Lock, Goto
<1> HIDE DEF f
<1>5. /\ StackType' /\ Others(t) /\ Lev'[t] + 0 = Lev[t] + 1
      /\ Lev[t] \in Nat /\ Lev'[t] \in Nat
  BY <1>1, <1>2, <1>3, <1>4, MoveStep
<1>6. LockInv'
  BY <1>5, TakeLevel DEF IInv, Lock
<1>7. CallType'
  BY DEF IInv, TypeInv, CallType, Lock, LockBy
<1> QED BY <1>2, <1>5, <1>6, <1>7 DEF IInv, TypeInv

(* The innermost call moves on without a change of the levels. *)
LEMMA QuietMove ==
  ASSUME IInv, NEW t \in Threads, stack[t] # <<>>, Made \subseteq Made',
         NEW f \in Good(Made'), Move(t, f), Holds(f) = Holds(Top(t)), Loud,
         UNCHANGED <<owner, depth, calls>>
  PROVE  StackType' /\ LockInv' /\ CallType'
<1>1. /\ StackType' /\ Others(t) /\ Lev'[t] + Holds(Top(t)) = Lev[t] + Holds(Top(t))
      /\ Lev[t] \in Nat /\ Lev'[t] \in Nat
  BY MoveStep DEF IInv, TypeInv
<1>2. Lev'[t] = Lev[t]
  BY <1>1, HoldsType
<1>3. LockInv'
  BY <1>1, <1>2, KeepLevel DEF IInv
<1>4. CallType'
  BY DEF IInv, TypeInv, CallType
<1> QED BY <1>1, <1>3, <1>4

(* A call returns from a place where it holds no level. *)
LEMMA QuietReturn ==
  ASSUME IInv, NEW t \in Threads, stack[t] # <<>>, Return(t), Holds(Top(t)) = 0,
         UNCHANGED <<owner, depth, calls, heapVars, poolVars, loopVars>>
  PROVE  IInv'
<1>1. HeapType' /\ PoolType' /\ LoopType' /\ Made' = Made /\ Loud
  BY RestKept DEF IInv
<1>2. /\ StackType' /\ Others(t) /\ Lev'[t] + 0 = Lev[t]
      /\ Lev[t] \in Nat /\ Lev'[t] \in Nat
  BY <1>1, ReturnStep DEF IInv, TypeInv
<1>3. LockInv'
  BY <1>2, KeepLevel DEF IInv
<1>4. CallType'
  BY DEF IInv, TypeInv, CallType
<1> QED BY <1>1, <1>2, <1>3, <1>4 DEF IInv, TypeInv

LEMMA LockFailsKept ==
  ASSUME IInv, NEW t \in Threads, LockFails(t)
  PROVE  IInv'
<1> DEFINE f == [Top(t) EXCEPT !.tries = @ + 1]
<1>1. stack[t] # <<>> /\ Top(t).pc = "try" /\ Top(t) \in Frames
  BY TopType DEF IInv, TypeInv, LockFails, At
<1>2. Holds(Top(t)) = 0
  BY <1>1 DEF Holds, HoldingPcs
<1>3. CASE Top(t).tries + 1 < RetryCount
  <2>1. HeapType' /\ PoolType' /\ LoopType' /\ Made' = Made /\ Loud
    BY RestKept DEF IInv, LockFails
  <2>2. Top(t).tries \in 0 .. RetryCount - 1 /\ Top(t).tries + 1 \in 0 .. RetryCount - 1
    BY <1>1, <1>3, JSVMAssumption DEF JSVMAssumption, Frames
  <2>3. f \in Frames /\ f.pc = "try"
    BY <1>1, <2>2 DEF Frames
  <2>4. f \in Good(Made') /\ Holds(f) = 0
    BY <2>3 DEF Good, Holds, HoldingPcs
  <2>5. Move(t, f)
    BY <1>3 DEF LockFails
  <2> HIDE DEF f
  <2>6. StackType' /\ LockInv' /\ CallType'
    BY <1>1, <1>2, <2>1, <2>4, <2>5, QuietMove DEF LockFails
  <2> QED BY <2>1, <2>6 DEF IInv, TypeInv
<1>4. CASE ~(Top(t).tries + 1 < RetryCount)
  BY <1>1, <1>2, <1>4, QuietReturn DEF LockFails
<1> QED BY <1>3, <1>4

LEMMA HostCallKept ==
  ASSUME IInv, NEW t \in Threads, HostCall(t)
  PROVE  IInv'
<1> DEFINE f == Script[Top(t).fn].host
           g == [Top(t) EXCEPT !.pc = "hosted"]
           s == [stack[t] EXCEPT ![Len(stack[t])] = g]
           r == Append(s, Frame(f))
<1>1. stack[t] # <<>> /\ Top(t).pc = "js" /\ Top(t) \in Frames /\ stack[t] \in Seq(Good(Made))
  BY TopType DEF IInv, TypeInv, HostCall, At
<1>2. HeapType' /\ PoolType' /\ LoopType' /\ Made' = Made /\ Loud
  BY RestKept DEF IInv, HostCall
<1>3. f \in Fns
  BY <1>1, JSVMAssumption DEF JSVMAssumption, HostCall, Frames
<1>4. g \in Good(Made) /\ Holds(g) = 1 /\ Holds(Top(t)) = 1
  BY <1>1 DEF Good, Frames, Holds, HoldingPcs
<1>5. s \in Seq(Good(Made)) /\ Count(s) + Holds(Top(t)) = Count(stack[t]) + Holds(g)
  BY <1>1, <1>4, CountMove DEF Top
<1>6. r \in Seq(Good(Made')) /\ Count(r) = Count(s)
  BY <1>2, <1>3, <1>5, CountEnter
<1>7. stack' = [stack EXCEPT ![t] = r]
  BY DEF HostCall, Top
<1>8. Count(stack[t]) \in Nat /\ Count(s) \in Nat /\ Count(r) \in Nat
  BY <1>1, <1>5, <1>6, CountType
<1> HIDE DEF f, g, s, r
<1>9. /\ StackType' /\ Others(t) /\ Lev'[t] + Count(stack[t]) = Lev[t] + Count(r)
      /\ Lev[t] \in Nat /\ Lev'[t] \in Nat
  BY <1>2, <1>6, <1>7, StackStep DEF IInv, TypeInv
<1>10. Lev'[t] = Lev[t]
  BY <1>4, <1>5, <1>6, <1>8, <1>9
<1>11. LockInv'
  BY <1>9, <1>10, KeepLevel DEF IInv, HostCall
<1>12. CallType'
  BY DEF IInv, TypeInv, CallType, HostCall
<1> QED BY <1>2, <1>9, <1>11, <1>12 DEF IInv, TypeInv

LEMMA MakeNothingKept ==
  ASSUME IInv, NEW t \in Threads, MakeNothing(t)
  PROVE  IInv'
<1> DEFINE f == [Top(t) EXCEPT !.pc = IF Makes(t) = "fails" THEN "failed" ELSE "called",
                               !.promise = IF Makes(t) = "never" THEN NeverSettles ELSE NoPromise]
<1>1. stack[t] # <<>> /\ Top(t).pc \in {"js", "hosted"} /\ Top(t) \in Frames
  BY TopType DEF IInv, TypeInv, MakeNothing, InScript, At
<1>2. HeapType' /\ PoolType' /\ LoopType' /\ Made' = Made /\ Loud
  BY RestKept DEF IInv, MakeNothing
<1>3. f \in Good(Made') /\ Holds(f) = 1 /\ Holds(Top(t)) = 1
  BY <1>1 DEF Good, Frames, Holds, HoldingPcs
<1>4. Move(t, f)
  BY DEF MakeNothing
<1> HIDE DEF f
<1>5. StackType' /\ LockInv' /\ CallType'
  BY <1>1, <1>2, <1>3, <1>4, QuietMove DEF MakeNothing
<1> QED BY <1>2, <1>5 DEF IInv, TypeInv

LEMMA MakePromiseKept ==
  ASSUME IInv, NEW t \in Threads, MakePromise(t)
  PROVE  IInv'
<1>1. stack[t] # <<>> /\ Top(t).pc \in {"js", "hosted"} /\ Top(t) \in Frames
  BY TopType DEF IInv, TypeInv, MakePromise, InScript, At
<1>2. PICK p \in Promises :
        /\ promise' = [promise EXCEPT ![p] = "pending"]
        /\ madeBy' = [madeBy EXCEPT ![p] = Top(t).fn]
        /\ cache' = cache \cup {p}
        /\ Move(t, [Top(t) EXCEPT !.pc = "submit", !.promise = p])
  BY DEF MakePromise, Unborn
<1> DEFINE f == [Top(t) EXCEPT !.pc = "submit", !.promise = p]
<1>3. Top(t).fn \in Fns
  BY <1>1 DEF Frames
<1>4. Made' = Made \cup {p}
  BY <1>2, <1>3 DEF IInv, TypeInv, HeapType, Made
<1>5. HeapType'
  <2>1. /\ promise' \in [Promises -> {"unborn", "pending", "ready", "settled"}]
        /\ madeBy' \in [Promises -> Fns \cup {NoFn}]
        /\ cache' \in SUBSET Promises /\ dropped' \in SUBSET Promises
    BY <1>2, <1>3 DEF IInv, TypeInv, HeapType, MakePromise
  <2>2. \A q \in Promises : promise'[q] = "ready" => q \in Made'
    BY <1>2, <1>4 DEF IInv, TypeInv, HeapType
  <2> QED BY <2>1, <2>2 DEF HeapType
<1>6. PoolType'
  <2>1. Seq(Made) \subseteq Seq(Made')
    BY <1>4
  <2> QED BY <1>4, <2>1 DEF IInv, TypeInv, PoolType, MakePromise, poolVars
<1>7. LoopType' /\ Loud
  BY DEF IInv, TypeInv, LoopType, MakePromise, poolVars, loopVars, Loud
<1>8. f \in Good(Made') /\ Holds(f) = 1 /\ Holds(Top(t)) = 1
  BY <1>1, <1>4 DEF Good, Frames, Holds, HoldingPcs
<1>9. Move(t, f)
  BY <1>2
<1> HIDE DEF f
<1>10. Made \subseteq Made'
  BY <1>4
<1>11. StackType' /\ LockInv' /\ CallType'
  BY <1>1, <1>7, <1>8, <1>9, <1>10, QuietMove DEF MakePromise
<1> QED BY <1>5, <1>6, <1>7, <1>11 DEF IInv, TypeInv

LEMMA SubmitKept ==
  ASSUME IInv, NEW t \in Threads, Submit(t)
  PROVE  IInv'
<1> DEFINE f == [Top(t) EXCEPT !.pc = "called"]
<1>1. stack[t] # <<>> /\ Top(t).pc = "submit" /\ Top(t) \in Frames /\ Top(t) \in Good(Made)
  BY TopType DEF IInv, TypeInv, Submit, At
<1>2. Top(t).promise \in Made
  BY <1>1 DEF Good
<1>3. HeapType' /\ LoopType' /\ Made' = Made /\ Loud
  BY DEF IInv, TypeInv, HeapType, LoopType, heapVars, loopVars, Made, Loud, Submit
<1>4. turn' \in Workers
  <2>1. Cardinality(Workers) \in Nat \ {0}
    BY JSVMAssumption, FS_CardinalityType, FS_EmptySet DEF JSVMAssumption
  <2>2. turn \in Nat
    BY <2>1, JSVMAssumption DEF JSVMAssumption, IInv, TypeInv, PoolType
  <2>3. (turn + 1) % Cardinality(Workers) \in 0 .. Cardinality(Workers) - 1
    BY <2>1, <2>2
  <2> QED BY <2>3, JSVMAssumption DEF JSVMAssumption, Submit
<1>5. PoolType'
  <2>1. Append(queue[turn], Top(t).promise) \in Seq(Made)
    BY <1>2 DEF IInv, TypeInv, PoolType
  <2> QED BY <1>3, <1>4, <2>1 DEF IInv, TypeInv, PoolType, Submit
<1>6. f \in Good(Made') /\ Holds(f) = 1 /\ Holds(Top(t)) = 1
  BY <1>1 DEF Good, Frames, Holds, HoldingPcs
<1>7. Move(t, f)
  BY DEF Submit, Goto
<1> HIDE DEF f
<1>8. StackType' /\ LockInv' /\ CallType'
  BY <1>1, <1>3, <1>6, <1>7, QuietMove DEF Submit
<1> QED BY <1>3, <1>5, <1>8 DEF IInv, TypeInv

(* An error, and the result of a call that is not awaited. *)
LEMMA ReleaseKept ==
  ASSUME IInv, NEW t \in Threads, Failed(t) \/ Result(t)
  PROVE  IInv'
<1>1. stack[t] # <<>> /\ Holds(Top(t)) = 1
  BY DEF Failed, Result, At, Holds, HoldingPcs
<1>2. UNCHANGED <<calls, heapVars, poolVars, loopVars>> /\ Unlock /\ Return(t)
  BY DEF Failed, Result
<1>3. HeapType' /\ PoolType' /\ LoopType' /\ Made' = Made /\ Loud
  BY <1>2, RestKept DEF IInv
<1>4. /\ StackType' /\ Others(t) /\ Lev'[t] + 1 = Lev[t]
      /\ Lev[t] \in Nat /\ Lev'[t] \in Nat
  BY <1>1, <1>2, <1>3, ReturnStep DEF IInv, TypeInv
<1>5. LockInv'
  BY <1>2, <1>4, GiveLevel DEF IInv
<1>6. CallType'
  BY <1>2 DEF IInv, TypeInv, CallType, Unlock
<1> QED BY <1>3, <1>4, <1>5, <1>6 DEF IInv, TypeInv

LEMMA AwaitUnlockKept ==
  ASSUME IInv, NEW t \in Threads, AwaitUnlock(t)
  PROVE  IInv'
<1> DEFINE f == [Top(t) EXCEPT !.pc = "timer"]
<1>1. stack[t] # <<>> /\ Top(t).pc = "called" /\ Top(t) \in Frames
  BY TopType DEF IInv, TypeInv, AwaitUnlock, At
<1>2. HeapType' /\ PoolType' /\ LoopType' /\ Made' = Made /\ Loud
  BY RestKept DEF IInv, AwaitUnlock
<1>3. f \in Good(Made') /\ Holds(f) = 0 /\ Holds(Top(t)) = 1
  BY <1>1 DEF Good, Frames, Holds, HoldingPcs
<1>4. Move(t, f)
  BY DEF AwaitUnlock, Goto
<1> HIDE DEF f
<1>5. /\ StackType' /\ Others(t) /\ Lev'[t] + 1 = Lev[t] + 0
      /\ Lev[t] \in Nat /\ Lev'[t] \in Nat
  BY <1>1, <1>2, <1>3, <1>4, MoveStep DEF IInv, TypeInv
<1>6. LockInv'
  BY <1>5, GiveLevel DEF IInv, AwaitUnlock
<1>7. CallType'
  BY DEF IInv, TypeInv, CallType, AwaitUnlock, Unlock
<1> QED BY <1>2, <1>5, <1>6, <1>7 DEF IInv, TypeInv

LEMMA NewLooperKept ==
  ASSUME IInv, NEW t \in Threads, NEW k \in Kinds, NewLooper(t, k)
  PROVE  IInv'
<1> DEFINE f == [Top(t) EXCEPT !.pc = JoinOf(k), !.old = looper[k]]
<1>1. stack[t] # <<>> /\ Top(t).pc = k /\ Top(t) \in Frames
  BY TopType DEF IInv, TypeInv, NewLooper, At
<1>2. PICK l \in Unused(k) : lpc' = [lpc EXCEPT ![l] = "wait"] /\ looper' = [looper EXCEPT ![k] = l]
  BY DEF NewLooper
<1>3. l \in Loops /\ lpc[l] = "none"
  BY DEF Unused, NamesOf, Loops
<1>4. HeapType' /\ PoolType' /\ Made' = Made
  BY DEF IInv, TypeInv, HeapType, PoolType, heapVars, poolVars, Made, NewLooper
<1>5. LoopType'
  <2>1. looper' \in [Kinds -> Loops \cup {Nobody}]
    BY <1>2, <1>3 DEF IInv, TypeInv, LoopType
  <2>2. lpc' \in [Loops -> {"none", "wait", "round"}]
    BY <1>2, <1>3 DEF IInv, TypeInv, LoopType
  <2> QED BY <2>1, <2>2 DEF IInv, TypeInv, LoopType, NewLooper
<1>6. Loud
  BY <1>2, <1>3 DEF IInv, TypeInv, LoopType, Loud, NewLooper, poolVars
<1>7. looper[k] \in Loops \cup {Nobody}
  BY DEF IInv, TypeInv, LoopType
<1>8. f \in Good(Made') /\ Holds(f) = 0 /\ Holds(Top(t)) = 0
  BY <1>1, <1>7 DEF Good, Frames, Holds, HoldingPcs, JoinOf, Kinds
<1>9. Move(t, f)
  BY DEF NewLooper
<1> HIDE DEF f
<1>10. StackType' /\ LockInv' /\ CallType'
  BY <1>1, <1>4, <1>6, <1>8, <1>9, QuietMove DEF NewLooper
<1> QED BY <1>4, <1>5, <1>10 DEF IInv, TypeInv

LEMMA JoinLooperKept ==
  ASSUME IInv, NEW t \in Threads, NEW k \in Kinds, JoinLooper(t, k)
  PROVE  IInv'
<1> DEFINE f == [Top(t) EXCEPT !.pc = AfterJoin(t, k), !.old = Nobody]
<1>1. stack[t] # <<>> /\ Top(t).pc = JoinOf(k) /\ Top(t) \in Frames
  BY TopType DEF IInv, TypeInv, JoinLooper, At
<1>2. Top(t).old \in Loops \cup {Nobody}
  BY <1>1 DEF Frames
<1>3. HeapType' /\ PoolType' /\ Made' = Made
  BY DEF IInv, TypeInv, HeapType, PoolType, heapVars, poolVars, Made, JoinLooper
<1>4. LoopType' /\ \A l \in Loops : lpc'[l] = "round" <=> lpc[l] = "round"
  BY <1>2 DEF IInv, TypeInv, LoopType, JoinLooper
<1>5. Loud
  BY <1>4 DEF Loud, JoinLooper, poolVars
<1>6. f \in Good(Made') /\ Holds(f) = 0 /\ Holds(Top(t)) = 0
  BY <1>1 DEF Good, Frames, Holds, HoldingPcs, JoinOf, AfterJoin, Kinds
<1>7. Move(t, f)
  BY DEF JoinLooper
<1> HIDE DEF f
<1>8. StackType' /\ LockInv' /\ CallType'
  BY <1>1, <1>3, <1>5, <1>6, <1>7, QuietMove DEF JoinLooper
<1> QED BY <1>3, <1>4, <1>8 DEF IInv, TypeInv

LEMMA JoinSelfKept ==
  ASSUME IInv, NEW t \in Threads, NEW k \in Kinds, JoinSelf(t, k)
  PROVE  IInv'
BY DEF IInv, TypeInv, StackType, CallType, HeapType, PoolType, LoopType, heapVars, poolVars,
       Made, LockInv, Balanced, Lev, JoinSelf

(* The end of the wait for a promise. *)
LEMMA PollKept ==
  ASSUME IInv, NEW t \in Threads, See(t) \/ Deadline(t)
  PROVE  IInv'
<1> DEFINE f == [Top(t) EXCEPT !.pc = "result"]
<1>1. stack[t] # <<>> /\ Top(t).pc = "await" /\ Top(t) \in Frames
  BY TopType DEF IInv, TypeInv, See, Deadline, At
<1>2. UNCHANGED <<owner, depth, calls, heapVars, poolVars, loopVars>> /\ Move(t, f)
  BY DEF See, Deadline, Goto
<1>3. HeapType' /\ PoolType' /\ LoopType' /\ Made' = Made /\ Loud
  BY <1>2, RestKept DEF IInv
<1>4. f \in Good(Made') /\ Holds(f) = 0 /\ Holds(Top(t)) = 0
  BY <1>1 DEF Good, Frames, Holds, HoldingPcs
<1> HIDE DEF f
<1>5. StackType' /\ LockInv' /\ CallType'
  BY <1>1, <1>2, <1>3, <1>4, QuietMove
<1> QED BY <1>3, <1>5 DEF IInv, TypeInv

LEMMA AwaitResultKept ==
  ASSUME IInv, NEW t \in Threads, AwaitResult(t)
  PROVE  IInv'
<1>1. stack[t] # <<>> /\ Holds(Top(t)) = 0
  BY DEF AwaitResult, At, Holds, HoldingPcs
<1> QED BY <1>1, QuietReturn DEF AwaitResult

-----------------------------------------------------------------------------
(* The Workers and the loopers: the stacks stay. *)
LEMMA WorkerStepKept ==
  ASSUME IInv, NEW w \in Workers, UNCHANGED <<stack, lpc, madeBy>>, wpc' = [wpc EXCEPT ![w] = wpc'[w]]
  PROVE  /\ StackType' /\ Others(w) /\ Made' = Made
         /\ Lev[w] = Works(wpc[w]) /\ Lev'[w] = Works(wpc'[w])
         /\ Lev[w] \in Nat /\ Lev'[w] \in Nat
<1>1. Made' = Made
  BY DEF Made
<1>2. StackType'
  BY <1>1 DEF IInv, TypeInv, StackType
<1>3. \A v \in Workers : v # w => wpc'[v] = wpc[v]
  BY DEF IInv, TypeInv, PoolType
<1>4. Others(w)
  BY <1>3 DEF Others, Lev
<1>5. Lev[w] = Works(wpc[w]) /\ Lev'[w] = Works(wpc'[w])
  BY DEF Lev
<1> QED BY <1>1, <1>2, <1>4, <1>5 DEF Works

LEMMA BeginKept ==
  ASSUME IInv, NEW w \in Workers, Begin(w)
  PROVE  IInv'
<1>1. wpc[w] # "work" => Works(wpc[w]) = 0
  BY DEF Works
<1>2. CASE wpc[w] = "idle"
  <2>1. HeapType' /\ LoopType' /\ CallType' /\ Made' = Made
    BY DEF IInv, TypeInv, HeapType, LoopType, CallType, heapVars, loopVars, Made, Begin
  <2>2. wpc' = [wpc EXCEPT ![w] = "try"] /\ wpc'[w] = "try"
    BY DEF IInv, TypeInv, PoolType, Begin
  <2>3. StackType' /\ Others(w) /\ Lev[w] = Works("idle") /\ Lev'[w] = Works("try")
    BY <1>2, <2>2, WorkerStepKept DEF Begin, heapVars, loopVars
  <2>4. LockInv'
    BY <2>3, KeepLevel DEF IInv, Begin, Works
  <2>5. Head(queue[w]) \in Made /\ Tail(queue[w]) \in Seq(Made)
    <3>1. queue[w] \in Seq(Made) /\ queue[w] # <<>>
      BY DEF IInv, TypeInv, PoolType, Begin
    <3> QED BY <3>1, HeadTailProperties
  <2>6. 0 \in 0 .. RetryCount - 1
    BY JSVMAssumption DEF JSVMAssumption
  <2>7. PoolType'
    BY <2>1, <2>5, <2>6 DEF IInv, TypeInv, PoolType, Begin
  <2> QED BY <2>1, <2>3, <2>4, <2>7 DEF IInv, TypeInv
<1>3. CASE wpc[w] # "idle"
  <2>1. running[w] \in Promises
    BY <1>3 DEF IInv, TypeInv, PoolType, Made
  <2>2. NoPromise \notin Promises
    <3>1. Promises = 1 .. Cardinality(Promises) /\ Cardinality(Promises) \in Nat
      BY JSVMAssumption, FS_CardinalityType DEF JSVMAssumption
    <3>2. \A p \in 1 .. Cardinality(Promises) : p # 0
      BY <3>1
    <3>3. \A p \in Promises : p # 0
      BY <3>1, <3>2, Zenon
    <3> QED BY <3>3 DEF NoPromise
  <2> QED BY <2>1, <2>2 DEF Begin
<1> QED BY <1>2, <1>3

LEMMA WorkLockKept ==
  ASSUME IInv, NEW w \in Workers, WorkLock(w)
  PROVE  IInv'
<1>1. HeapType' /\ LoopType' /\ CallType' /\ Made' = Made
  BY DEF IInv, TypeInv, HeapType, LoopType, CallType, heapVars, loopVars, Made, WorkLock, LockBy
<1>2. wpc' = [wpc EXCEPT ![w] = "work"] /\ wpc'[w] = "work" /\ wpc[w] = "try"
  BY DEF IInv, TypeInv, PoolType, WorkLock
<1>3. StackType' /\ Others(w) /\ Lev[w] = Works("try") /\ Lev'[w] = Works("work")
  BY <1>2, WorkerStepKept DEF WorkLock, heapVars, loopVars
<1>4. Lev'[w] = Lev[w] + 1
  BY <1>3 DEF Works
<1>5. LockInv'
  BY <1>3, <1>4, TakeLevel DEF IInv, WorkLock
<1>6. PoolType'
  BY <1>1, <1>2 DEF IInv, TypeInv, PoolType, WorkLock
<1> QED BY <1>1, <1>3, <1>5, <1>6 DEF IInv, TypeInv

LEMMA WorkLockFailsKept ==
  ASSUME IInv, NEW w \in Workers, WorkLockFails(w)
  PROVE  IInv'
<1>1. wpc[w] = "try" /\ running[w] \in Made /\ running[w] \in Promises
  BY DEF IInv, TypeInv, PoolType, Made, WorkLockFails
<1>2. LoopType' /\ CallType' /\ Made' = Made
  BY DEF IInv, TypeInv, LoopType, CallType, loopVars, Made, WorkLockFails
<1>3. CASE wtries[w] + 1 < RetryCount
  <2>1. wtries[w] + 1 \in 0 .. RetryCount - 1
    BY <1>3, JSVMAssumption DEF JSVMAssumption, IInv, TypeInv, PoolType
  <2>2. PoolType'
    BY <1>2, <1>3, <2>1 DEF IInv, TypeInv, PoolType, WorkLockFails
  <2>3. HeapType'
    BY <1>2, <1>3 DEF IInv, TypeInv, HeapType, WorkLockFails
  <2>4. StackType' /\ LockInv'
    BY <1>2, <1>3 DEF IInv, TypeInv, StackType, LockInv, Balanced, Lev, WorkLockFails, loopVars
  <2> QED BY <1>2, <2>2, <2>3, <2>4 DEF IInv, TypeInv
<1>4. CASE ~(wtries[w] + 1 < RetryCount)
  <2>1. /\ Finish(w) /\ UNCHANGED wtries
        /\ cache' = cache \ {running[w]} /\ dropped' = dropped \cup {running[w]}
    BY <1>4 DEF WorkLockFails
  <2>2. HeapType'
    BY <1>1, <1>2, <2>1 DEF IInv, TypeInv, HeapType, WorkLockFails
  <2>3. PoolType'
    BY <1>2, <2>1 DEF IInv, TypeInv, PoolType, WorkLockFails, Finish
  <2>4. wpc' = [wpc EXCEPT ![w] = "idle"] /\ wpc'[w] = "idle"
    BY <2>1 DEF IInv, TypeInv, PoolType, Finish
  <2>5. StackType' /\ Others(w) /\ Lev[w] = Works("try") /\ Lev'[w] = Works("idle")
    BY <1>1, <2>4, WorkerStepKept DEF WorkLockFails, loopVars
  <2>6. LockInv'
    BY <2>5, KeepLevel DEF IInv, WorkLockFails, Works
  <2> QED BY <1>2, <2>2, <2>3, <2>5, <2>6 DEF IInv, TypeInv
<1> QED BY <1>3, <1>4

LEMMA WorkKept ==
  ASSUME IInv, NEW w \in Workers, Work(w)
  PROVE  IInv'
<1>1. wpc[w] = "work" /\ running[w] \in Made /\ running[w] \in Promises
  BY DEF IInv, TypeInv, PoolType, Made, Work
<1>2. LoopType' /\ CallType' /\ Made' = Made
  BY DEF IInv, TypeInv, LoopType, CallType, loopVars, Made, Work, Unlock
<1>3. HeapType'
  <2>1. promise' \in [Promises -> {"unborn", "pending", "ready", "settled"}]
    BY <1>1 DEF IInv, TypeInv, HeapType, Work
  <2>2. \A q \in Promises : q # running[w] => promise'[q] = promise[q]
    BY DEF IInv, TypeInv, HeapType, Work
  <2> QED BY <1>1, <1>2, <2>1, <2>2 DEF IInv, TypeInv, HeapType, Work
<1>4. PoolType'
  BY <1>2 DEF IInv, TypeInv, PoolType, Work, Finish
<1>5. wpc' = [wpc EXCEPT ![w] = "idle"] /\ wpc'[w] = "idle"
  BY DEF IInv, TypeInv, PoolType, Work, Finish
<1>6. StackType' /\ Others(w) /\ Lev[w] = Works("work") /\ Lev'[w] = Works("idle") /\ Lev'[w] \in Nat
  BY <1>1, <1>5, WorkerStepKept DEF Work, loopVars
<1>7. Lev'[w] + 1 = Lev[w]
  BY <1>6 DEF Works
<1>8. LockInv'
  BY <1>6, <1>7, GiveLevel DEF IInv, Work
<1> QED BY <1>2, <1>3, <1>4, <1>6, <1>8 DEF IInv, TypeInv

LEMMA LooperStepKept ==
  ASSUME IInv, NEW l \in Loops, UNCHANGED <<stack, wpc, madeBy>>, lpc' = [lpc EXCEPT ![l] = lpc'[l]]
  PROVE  /\ StackType' /\ Others(l) /\ Made' = Made /\ l \in Threads
         /\ Lev[l] = Count(stack[l]) + Rounds(lpc, l)
         /\ Lev'[l] = Count(stack[l]) + Rounds(lpc', l)
         /\ Count(stack[l]) \in Nat
<1>1. Made' = Made
  BY DEF Made
<1>2. StackType'
  BY <1>1 DEF IInv, TypeInv, StackType
<1>3. l \in Threads /\ l \notin Workers
  BY JSVMAssumption DEF JSVMAssumption, Threads
<1>4. \A m : m # l => Rounds(lpc', m) = Rounds(lpc, m)
  BY DEF IInv, TypeInv, LoopType, Rounds
<1>5. Others(l)
  BY <1>4 DEF Others, Lev
<1>6. /\ Lev[l] = Count(stack[l]) + Rounds(lpc, l)
      /\ Lev'[l] = Count(stack[l]) + Rounds(lpc', l)
  BY <1>3 DEF Lev
<1>7. Count(stack[l]) \in Nat
  BY <1>3, CountType DEF IInv, TypeInv, StackType
<1> QED BY <1>1, <1>2, <1>3, <1>5, <1>6, <1>7

LEMMA LoopLockKept ==
  ASSUME IInv, NEW l \in Loops, LoopLock(l)
  PROVE  IInv'
<1>1. HeapType' /\ PoolType' /\ CallType' /\ Made' = Made
  BY DEF IInv, TypeInv, HeapType, PoolType, CallType, heapVars, poolVars, Made, Threads, LoopLock, LockBy
<1>2. lpc' = [lpc EXCEPT ![l] = "round"] /\ lpc'[l] = "round" /\ lpc[l] = "wait"
  BY DEF IInv, TypeInv, LoopType, LoopLock
<1>3. Rounds(lpc, l) = 0 /\ Rounds(lpc', l) = 1
  BY <1>2 DEF Rounds
<1>4. /\ StackType' /\ Others(l) /\ l \in Threads
      /\ Lev[l] = Count(stack[l]) + 0 /\ Lev'[l] = Count(stack[l]) + 1 /\ Count(stack[l]) \in Nat
  BY <1>2, <1>3, LooperStepKept DEF LoopLock, heapVars, poolVars
<1>5. LockInv'
  BY <1>4, TakeLevel DEF IInv, LoopLock
<1>6. LoopType'
  BY <1>2 DEF IInv, TypeInv, LoopType, LoopLock
<1> QED BY <1>1, <1>4, <1>5, <1>6 DEF IInv, TypeInv

LEMMA LoopUnlockKept ==
  ASSUME IInv, NEW l \in Loops, LoopUnlock(l)
  PROVE  IInv'
<1>1. HeapType' /\ PoolType' /\ CallType' /\ Made' = Made
  BY DEF IInv, TypeInv, HeapType, PoolType, CallType, heapVars, poolVars, Made, LoopUnlock, Unlock
<1>2. lpc' = [lpc EXCEPT ![l] = "wait"] /\ lpc'[l] = "wait" /\ lpc[l] = "round"
  BY DEF IInv, TypeInv, LoopType, LoopUnlock, InRound
<1>3. Rounds(lpc, l) = 1 /\ Rounds(lpc', l) = 0
  BY <1>2 DEF Rounds
<1>4. /\ StackType' /\ Others(l) /\ l \in Threads
      /\ Lev[l] = Count(stack[l]) + 1 /\ Lev'[l] = Count(stack[l]) + 0 /\ Count(stack[l]) \in Nat
  BY <1>2, <1>3, LooperStepKept DEF LoopUnlock, heapVars, poolVars
<1>5. Lev'[l] \in Nat /\ Lev'[l] + 1 = Lev[l]
  BY <1>4
<1>6. LockInv'
  BY <1>4, <1>5, GiveLevel DEF IInv, LoopUnlock
<1>7. LoopType'
  BY <1>2 DEF IInv, TypeInv, LoopType, LoopUnlock
<1> QED BY <1>1, <1>4, <1>6, <1>7 DEF IInv, TypeInv

LEMMA TimerBeginKept ==
  ASSUME IInv, NEW l \in Loops, TimerBegin(l)
  PROVE  IInv'
<1>1. PICK f \in Fns : timers[f] > 0 /\ timers' = [timers EXCEPT ![f] = @ - 1] /\ Enter(l, f)
  BY DEF TimerBegin
<1>2. HeapType' /\ PoolType' /\ CallType' /\ Made' = Made /\ Loud
  BY DEF IInv, TypeInv, HeapType, PoolType, CallType, heapVars, poolVars, Made, Loud, TimerBegin
<1>3. LoopType'
  BY <1>1 DEF IInv, TypeInv, LoopType, TimerBegin
<1>4. l \in Threads
  BY DEF Threads
<1>5. StackType' /\ Others(l) /\ Lev'[l] = Lev[l]
  BY <1>1, <1>2, <1>4, EnterStep DEF IInv, TypeInv
<1>6. LockInv'
  BY <1>4, <1>5, KeepLevel DEF IInv, TimerBegin
<1> QED BY <1>2, <1>3, <1>5, <1>6 DEF IInv, TypeInv

LEMMA JobBeginKept ==
  ASSUME IInv, NEW l \in Loops, JobBegin(l)
  PROVE  IInv'
<1>1. PICK p \in Promises :
        /\ promise[p] = "ready"
        /\ job' = [job EXCEPT ![l] = p]
        /\ IF Script[madeBy[p]].then = NoFn THEN UNCHANGED stack ELSE Enter(l, Script[madeBy[p]].then)
  BY DEF JobBegin
<1>2. HeapType' /\ PoolType' /\ CallType' /\ Made' = Made /\ Loud
  BY DEF IInv, TypeInv, HeapType, PoolType, CallType, heapVars, poolVars, Made, Loud, JobBegin
<1>3. LoopType'
  BY <1>1 DEF IInv, TypeInv, LoopType, JobBegin
<1>4. madeBy[p] \in Fns
  BY <1>1 DEF IInv, TypeInv, HeapType, Made
<1>5. CASE Script[madeBy[p]].then = NoFn
  <2>1. StackType' /\ LockInv'
    BY <1>1, <1>2, <1>5 DEF IInv, TypeInv, StackType, LockInv, Balanced, Lev, JobBegin, poolVars
  <2> QED BY <1>2, <1>3, <2>1 DEF IInv, TypeInv
<1>6. CASE Script[madeBy[p]].then # NoFn
  <2> DEFINE f == Script[madeBy[p]].then
  <2>1. f \in Fns /\ Enter(l, f)
    BY <1>1, <1>4, <1>6, JSVMAssumption DEF JSVMAssumption
  <2> HIDE DEF f
  <2>2. l \in Threads
    BY DEF Threads
  <2>3. StackType' /\ Others(l) /\ Lev'[l] = Lev[l]
    BY <1>2, <2>1, <2>2, EnterStep DEF IInv, TypeInv
  <2>4. LockInv'
    BY <2>2, <2>3, KeepLevel DEF IInv, JobBegin
  <2> QED BY <1>2, <1>3, <2>3, <2>4 DEF IInv, TypeInv
<1> QED BY <1>5, <1>6

LEMMA JobEndKept ==
  ASSUME IInv, NEW l \in Loops, JobEnd(l)
  PROVE  IInv'
<1>1. job[l] \in Promises
  BY DEF IInv, TypeInv, LoopType, JobEnd
<1>2. PoolType' /\ CallType' /\ Made' = Made
  BY DEF IInv, TypeInv, PoolType, CallType, poolVars, Made, JobEnd
<1>3. HeapType'
  BY <1>1, <1>2 DEF IInv, TypeInv, HeapType, JobEnd
<1>4. LoopType'
  BY DEF IInv, TypeInv, LoopType, JobEnd
<1>5. StackType' /\ LockInv'
  BY <1>2 DEF IInv, TypeInv, StackType, LockInv, Balanced, Lev, JobEnd, poolVars
<1> QED BY <1>2, <1>3, <1>4, <1>5 DEF IInv, TypeInv
-----------------------------------------------------------------------------
LEMMA InitInv == Init => IInv
<1> SUFFICES ASSUME Init PROVE IInv
  OBVIOUS
<1>1. stack = [t \in Threads |-> <<>>] /\ owner = Nobody /\ depth = 0
  BY DEF Init
<1>2. StackType
  BY <1>1, EmptySeq DEF StackType
<1>3. CallType /\ LoopType
  <2>1. MaxCalls \in Nat
    BY JSVMAssumption DEF JSVMAssumption
  <2>2. CallType
    BY <2>1 DEF Init, CallType
  <2>3. LoopType
    BY DEF Init, LoopType
  <2> QED BY <2>2, <2>3
<1>4. HeapType
  BY DEF Init, HeapType
<1>5. PoolType
  <2>1. Cardinality(Workers) \in Nat \ {0}
    BY JSVMAssumption, FS_CardinalityType, FS_EmptySet DEF JSVMAssumption
  <2>2. turn \in Workers
    BY <2>1, JSVMAssumption DEF JSVMAssumption, Init
  <2> QED BY <2>2, EmptySeq, JSVMAssumption DEF JSVMAssumption, Init, PoolType
<1>6. LockInv
  <2>1. Hold(<<>>) = {}
    BY DEF Hold
  <2>2. Count(<<>>) = 0
    BY <2>1, FS_EmptySet DEF Count
  <2>3. \A t : Rounds(lpc, t) = 0
    BY DEF Init, Rounds
  <2>4. \A w \in Workers : Works(wpc[w]) = 0
    BY DEF Init, Works
  <2>5. \A t \in Threads : Count(stack[t]) = 0
    BY <1>1, <2>2
  <2>6. \A t \in Threads \cup Workers : Lev[t] = 0
    BY <2>3, <2>4, <2>5 DEF Lev
  <2> QED BY <1>1, <2>6 DEF LockInv, Balanced
<1> QED BY <1>2, <1>3, <1>4, <1>5, <1>6 DEF IInv, TypeInv

LEMMA NextInv == IInv /\ [Next]_vars => IInv'
<1> SUFFICES ASSUME IInv, [Next]_vars PROVE IInv'
  OBVIOUS
<1>1. CASE UNCHANGED vars
  BY <1>1 DEF IInv, TypeInv, StackType, CallType, HeapType, PoolType, LoopType, LockInv, Balanced,
              Lev, Made, vars, heapVars, poolVars, loopVars
<1>2. ASSUME NEW c \in Callers, NEW f \in Fns, Call(c, f) PROVE IInv'
  BY <1>2, CallKept
<1>3. ASSUME NEW t \in Threads, CallStep(t) PROVE IInv'
  <2>1. CASE Lock(t) \/ LockFails(t) \/ HostCall(t) \/ MakeNothing(t) \/ MakePromise(t) \/ Submit(t)
    BY <2>1, LockKept, LockFailsKept, HostCallKept, MakeNothingKept, MakePromiseKept, SubmitKept
  <2>2. CASE Failed(t) \/ Result(t) \/ AwaitUnlock(t) \/ See(t) \/ Deadline(t) \/ AwaitResult(t)
    BY <2>2, ReleaseKept, AwaitUnlockKept, PollKept, AwaitResultKept
  <2>3. ASSUME NEW k \in Kinds, NewLooper(t, k) \/ JoinLooper(t, k) \/ JoinSelf(t, k) PROVE IInv'
    BY <2>3, NewLooperKept, JoinLooperKept, JoinSelfKept
  <2> QED BY <1>3, <2>1, <2>2, <2>3 DEF CallStep
<1>4. ASSUME NEW w \in Workers, WorkerStep(w) PROVE IInv'
  BY <1>4, BeginKept, WorkLockKept, WorkLockFailsKept, WorkKept DEF WorkerStep
<1>5. ASSUME NEW l \in Loops, LoopLock(l) \/ LoopStep(l) PROVE IInv'
  BY <1>5, LoopLockKept, TimerBeginKept, JobBeginKept, JobEndKept, LoopUnlockKept DEF LoopStep
<1> QED BY <1>1, <1>2, <1>3, <1>4, <1>5 DEF Next

LEMMA InvHolds == Spec => []IInv
BY InitInv, NextInv, PTL DEF Spec
-----------------------------------------------------------------------------
(* Every variable has its type, in any instance: only promises that were    *)
(* made are queued, worked on and resolved (JSVM.cxx:486-540).              *)
THEOREM TypeCorrect == Spec => []TypeOK
<1>1. IInv => TypeOK
  <2> SUFFICES ASSUME IInv PROVE TypeOK
    OBVIOUS
  <2>1. Made \subseteq Promises /\ Good(Made) \subseteq Frames
    BY DEF Made, Good
  <2>2. Seq(Made) \subseteq Seq(Promises) /\ Seq(Good(Made)) \subseteq Seq(Frames)
    BY <2>1
  <2>3. stack \in [Threads -> Seq(Frames)]
    BY <2>2 DEF IInv, TypeInv, StackType
  <2>4. queue \in [Workers -> Seq(Promises)] /\ running \in [Workers -> Promises \cup {NoPromise}]
    BY <2>1, <2>2 DEF IInv, TypeInv, PoolType
  <2>5. depth \in Nat
    BY DEF IInv, LockInv, Balanced
  <2> QED BY <2>3, <2>4, <2>5 DEF IInv, TypeInv, CallType, HeapType, PoolType, LoopType, TypeOK
<1> QED BY <1>1, InvHolds, PTL

(* On every path of callFunc(), newPromise(), its task and the loopers the  *)
(* levels of vmMutex that were taken are given back, whatever the scripts   *)
(* call and however deep (JSVM.cxx:420-540, BaseVM.cxx:8-41).               *)
THEOREM LocksBalance == Spec => []LockAccounting
<1>1. IInv => LockAccounting
  <2> SUFFICES ASSUME IInv, NEW t \in Threads \cup Workers
               PROVE  Levels(t) = IF owner = t THEN depth ELSE 0
    BY DEF LockAccounting
  <2>1. Levels(t) = Lev[t]
    BY DEF Levels, Lev, Works, Rounds, Count, Hold
  <2> QED BY <2>1 DEF IInv, LockInv, Balanced
<1> QED BY <1>1, InvHolds, PTL

(* Two threads are never inside the JS context together: any two of them   *)
(* that are inside are one (JSVM.cxx:420-540, BaseVM.hxx).                  *)
THEOREM OneInside ==
  Spec => [](\A t, u \in Threads \cup Workers : Levels(t) > 0 /\ Levels(u) > 0 => t = u)
<1>1. LockAccounting => \A t, u \in Threads \cup Workers : Levels(t) > 0 /\ Levels(u) > 0 => t = u
  BY DEF LockAccounting
<1> QED BY <1>1, LocksBalance, PTL
-----------------------------------------------------------------------------
(***************************************************************************)
(* The handles of promiseCache.  A promise can be in the queue of a        *)
(* Worker, run by one, or about to be submitted by a thread: the spots.    *)
(***************************************************************************)
In(s) == {s[i] : i \in DOMAIN s}
Once(s) == \A i, j \in DOMAIN s : s[i] = s[j] => i = j
Submits(t) == IF At(t, "submit") THEN {Top(t).promise} ELSE {}

Spots == ({"queue", "run"} \X Workers) \cup ({"submit"} \X Threads)
Load == [x \in Spots |-> IF x[1] = "queue" THEN In(queue[x[2]])
                         ELSE IF x[1] = "run" THEN {running[x[2]]} \ {NoPromise}
                         ELSE Submits(x[2])]

(* A promise whose handle is in the cache is at one spot, once; the others  *)
(* are at none.                                                             *)
OnceInv == \A w \in Workers : Once(queue[w])
LoadInv ==
  /\ \A x, y \in Spots : x # y => Load[x] \cap Load[y] = {}
  /\ cache = UNION {Load[x] : x \in Spots}

(* Nothing else resolves a promise than its task, and no task is left of    *)
(* one that was dropped.                                                    *)
HeapInv ==
  /\ cache \cap dropped = {}
  /\ \A p \in Promises : promise[p] = "pending" <=> p \in cache \cup dropped

(* A looper runs JS only within its round, and a promise job too.           *)
JobInv ==
  /\ \A l \in Loops : stack[l] # <<>> => lpc[l] = "round"
  /\ \A l \in Loops : job[l] # NoPromise => lpc[l] = "round" /\ promise[job[l]] = "ready"
  /\ \A l, m \in Loops : l # m /\ job[l] # NoPromise => job[l] # job[m]

(* A call with another one inside it is in the host function that made it.  *)
BuriedInv == \A t \in Threads : \A i \in 1 .. Len(stack[t]) - 1 : stack[t][i].pc = "hosted"

(* A thread that has not let go of vmMutex since it made a promise waits in *)
(* vain: the promise is as it was.                                          *)
Since == {"submit", "called", "timer", "joinTimer", "promise", "joinPromise", "await"}
Starves(t) ==
  stack[t] # <<>> /\ owner = t /\ Top(t).pc \in Since /\ Top(t).promise \in Promises =>
    promise[Top(t).promise] = "pending"
StarveInv == \A t \in Threads : Starves(t)

HInv == OnceInv /\ LoadInv /\ HeapInv /\ JobInv /\ BuriedInv /\ StarveInv

(* What a queue holds when a promise joins it or leaves it.                 *)
LEMMA OnceAppend ==
  ASSUME NEW S, NEW s \in Seq(S), NEW p \in S, p \notin In(s), Once(s)
  PROVE  In(Append(s, p)) = In(s) \cup {p} /\ Once(Append(s, p))
<1>1. /\ Len(Append(s, p)) = Len(s) + 1 /\ Len(s) \in Nat
      /\ DOMAIN s = 1 .. Len(s) /\ DOMAIN Append(s, p) = 1 .. Len(s) + 1
      /\ \A i \in 1 .. Len(s) : Append(s, p)[i] = s[i]
      /\ Append(s, p)[Len(s) + 1] = p
  BY LenProperties
<1>2. \A i \in 1 .. Len(s) : s[i] # p
  BY <1>1 DEF In
<1>3. In(Append(s, p)) = In(s) \cup {p}
  BY <1>1 DEF In
<1>4. Once(Append(s, p))
  BY <1>1, <1>2 DEF Once
<1> QED BY <1>3, <1>4

LEMMA OnceTail ==
  ASSUME NEW S, NEW s \in Seq(S), s # <<>>, Once(s)
  PROVE  Head(s) \in In(s) /\ In(Tail(s)) = In(s) \ {Head(s)} /\ Once(Tail(s))
<1>1. /\ Len(s) \in Nat \ {0} /\ DOMAIN s = 1 .. Len(s) /\ Head(s) = s[1]
      /\ DOMAIN Tail(s) = 1 .. Len(s) - 1
      /\ \A i \in 1 .. Len(s) - 1 : Tail(s)[i] = s[i + 1]
  BY LenProperties, EmptySeq, HeadTailProperties
<1>2. Head(s) \in In(s)
  BY <1>1 DEF In
<1>3. In(Tail(s)) \subseteq In(s) \ {Head(s)}
  BY <1>1 DEF In, Once
<1>4. ASSUME NEW i \in 1 .. Len(s), i # 1 PROVE s[i] \in In(Tail(s))
  <2>1. i - 1 \in DOMAIN Tail(s) /\ Tail(s)[i - 1] = s[i]
    BY <1>1, <1>4
  <2> QED BY <2>1 DEF In
<1>5. In(s) \ {Head(s)} \subseteq In(Tail(s))
  BY <1>1, <1>4 DEF In
<1>6. Once(Tail(s))
  BY <1>1 DEF Once
<1> QED BY <1>2, <1>3, <1>5, <1>6

(* The spots, one by one. *)
LEMMA QueueLoad ==
  ASSUME NEW w \in Workers
  PROVE  Load[<<"queue", w>>] = In(queue[w]) /\ Load'[<<"queue", w>>] = In(queue'[w])
BY DEF Load, Spots

LEMMA RunLoad ==
  ASSUME NEW w \in Workers
  PROVE  /\ Load[<<"run", w>>] = {running[w]} \ {NoPromise}
         /\ Load'[<<"run", w>>] = {running'[w]} \ {NoPromise}
BY DEF Load, Spots

LEMMA SubmitLoad ==
  ASSUME NEW t \in Threads
  PROVE  Load[<<"submit", t>>] = Submits(t) /\ Load'[<<"submit", t>>] = Submits(t)'
BY DEF Load, Spots

LEMMA SpotKinds ==
  ASSUME NEW x \in Spots
  PROVE  \/ \E w \in Workers : x = <<"queue", w>> \/ x = <<"run", w>>
         \/ \E t \in Threads : x = <<"submit", t>>
BY DEF Spots

(* How the loads may change.  *)
LEMMA LoadKept ==
  ASSUME LoadInv, \A x \in Spots : Load'[x] = Load[x], cache' = cache
  PROVE  LoadInv'
BY DEF LoadInv

LEMMA LoadGained ==
  ASSUME LoadInv, NEW x \in Spots, NEW p, p \notin cache, Load[x] = {}, Load'[x] = {p},
         \A y \in Spots \ {x} : Load'[y] = Load[y], cache' = cache \cup {p}
  PROVE  LoadInv'
<1>1. \A y \in Spots : p \notin Load[y]
  BY DEF LoadInv
<1>2. \A y, z \in Spots : y # z => Load'[y] \cap Load'[z] = {}
  BY <1>1 DEF LoadInv
<1>3. \A q : (\E y \in Spots : q \in Load'[y]) <=> (\E y \in Spots : q \in Load[y]) \/ q = p
  OBVIOUS
<1>4. cache' = UNION {Load'[y] : y \in Spots}
  BY <1>3 DEF LoadInv
<1> QED BY <1>2, <1>4 DEF LoadInv

LEMMA LoadMoved ==
  ASSUME LoadInv, NEW x \in Spots, NEW y \in Spots, x # y, NEW p \in Load[x],
         Load'[x] = Load[x] \ {p}, Load'[y] = Load[y] \cup {p},
         \A z \in Spots \ {x, y} : Load'[z] = Load[z], cache' = cache
  PROVE  LoadInv'
<1>1. \A z \in Spots \ {x} : p \notin Load[z]
  BY DEF LoadInv
<1>2. \A u, z \in Spots : u # z => Load'[u] \cap Load'[z] = {}
  BY <1>1 DEF LoadInv
<1>3. \A q : (\E z \in Spots : q \in Load'[z]) <=> (\E z \in Spots : q \in Load[z])
  BY <1>1
<1>4. cache' = UNION {Load'[z] : z \in Spots}
  BY <1>3 DEF LoadInv
<1> QED BY <1>2, <1>4 DEF LoadInv

LEMMA LoadLost ==
  ASSUME LoadInv, NEW x \in Spots, NEW p, Load[x] = {p}, Load'[x] = {},
         \A y \in Spots \ {x} : Load'[y] = Load[y], cache' = cache \ {p}
  PROVE  LoadInv'
<1>1. \A y \in Spots \ {x} : p \notin Load[y]
  BY DEF LoadInv
<1>2. \A y, z \in Spots : y # z => Load'[y] \cap Load'[z] = {}
  BY DEF LoadInv
<1>3. \A q : (\E y \in Spots : q \in Load'[y]) <=> (\E y \in Spots : q \in Load[y]) /\ q # p
  BY <1>1
<1>4. cache' = UNION {Load'[y] : y \in Spots}
  BY <1>3 DEF LoadInv
<1> QED BY <1>2, <1>4 DEF LoadInv
-----------------------------------------------------------------------------
(* What a step of a thread does to its stack. *)
LEMMA Sentinels == NoPromise \notin Promises /\ NeverSettles \notin Promises
<1>1. Promises = 1 .. Cardinality(Promises) /\ Cardinality(Promises) \in Nat
  BY JSVMAssumption, FS_CardinalityType DEF JSVMAssumption
<1>2. \A p \in 1 .. Cardinality(Promises) : p # 0 /\ p # -1
  BY <1>1
<1>3. \A p \in Promises : p # 0 /\ p # -1
  BY <1>1, <1>2, Zenon
<1> QED BY <1>3 DEF NoPromise, NeverSettles

LEMMA StackFrames ==
  ASSUME StackType, NEW t \in Threads
  PROVE  stack[t] \in Seq(Frames)
<1>1. Good(Made) \subseteq Frames
  BY DEF Good
<1>2. stack[t] \in Seq(Good(Made))
  BY DEF StackType
<1> QED BY <1>1, <1>2

LEMMA MoveShape ==
  ASSUME StackType, BuriedInv, NEW t \in Threads, stack[t] # <<>>, NEW f \in Frames, Move(t, f)
  PROVE  /\ stack'[t] # <<>> /\ stack'[t][Len(stack'[t])] = f /\ BuriedInv'
         /\ \A u \in Threads \ {t} : stack'[u] = stack[u]
<1> DEFINE s == stack[t]
           r == [s EXCEPT ![Len(s)] = f]
<1>1. s \in Seq(Frames)
  BY StackFrames
<1>2. r \in Seq(Frames) /\ r # <<>> /\ Len(r) = Len(s) /\ r[Len(s)] = f
  BY <1>1, CountMove
<1>3. stack' = [stack EXCEPT ![t] = r]
  BY DEF Move
<1>4. Len(s) \in Nat /\ DOMAIN s = 1 .. Len(s)
  BY <1>1, LenProperties
<1>5. \A i \in 1 .. Len(s) - 1 : r[i] = s[i]
  BY <1>4
<1> HIDE DEF r
<1>6. stack'[t] = r /\ \A u \in Threads \ {t} : stack'[u] = stack[u]
  BY <1>3 DEF StackType
<1>7. BuriedInv'
  BY <1>2, <1>5, <1>6 DEF BuriedInv
<1> QED BY <1>2, <1>6, <1>7

LEMMA ReturnShape ==
  ASSUME StackType, BuriedInv, NEW t \in Threads, stack[t] # <<>>, Return(t)
  PROVE  /\ stack'[t] # <<>> => stack'[t][Len(stack'[t])].pc = "hosted"
         /\ BuriedInv' /\ \A u \in Threads \ {t} : stack'[u] = stack[u]
<1> DEFINE s == stack[t]
           r == SubSeq(s, 1, Len(s) - 1)
<1>1. s \in Seq(Frames)
  BY StackFrames
<1>2. Len(s) \in Nat \ {0} /\ DOMAIN s = 1 .. Len(s)
  BY <1>1, LenProperties, EmptySeq
<1>3. /\ Len(r) = Len(s) - 1 /\ \A i \in 1 .. Len(s) - 1 : r[i] = s[i]
      /\ r # <<>> => Len(s) - 1 \in 1 .. Len(s) - 1
  <2>1. \A i \in 1 .. Len(s) - 1 : s[i] \in Frames
    BY <1>1, <1>2, ElementOfSeq
  <2>2. /\ r \in Seq(Frames) /\ Len(r) = IF 1 <= Len(s) - 1 THEN Len(s) - 1 - 1 + 1 ELSE 0
        /\ \A i \in 1 .. Len(s) - 1 - 1 + 1 : r[i] = s[1 + i - 1]
    BY <1>2, <2>1, SubSeqProperties
  <2>3. r # <<>> => Len(r) # 0
    BY <2>2, EmptySeq
  <2> DEFINE n == Len(s)
             m == Len(r)
  <2>4. n \in Nat \ {0} /\ m = (IF 1 <= n - 1 THEN n - 1 - 1 + 1 ELSE 0) /\ (r # <<>> => m # 0)
    BY <1>2, <2>2, <2>3
  <2>5. \A i \in 1 .. n - 1 - 1 + 1 : r[i] = s[1 + i - 1]
    BY <2>2
  <2> HIDE DEF r, s, n, m
  <2>6. m = n - 1 /\ (r # <<>> => n - 1 \in 1 .. n - 1)
    BY <2>4
  <2>7. \A i \in 1 .. n - 1 : i \in 1 .. n - 1 - 1 + 1 /\ 1 + i - 1 = i
    BY <2>4
  <2>8. \A i \in 1 .. n - 1 : r[i] = s[i]
    BY <2>5, <2>7
  <2> QED BY <2>6, <2>8 DEF n, m
<1>4. stack' = [stack EXCEPT ![t] = r]
  BY DEF Return
<1> HIDE DEF r
<1>5. stack'[t] = r /\ \A u \in Threads \ {t} : stack'[u] = stack[u]
  BY <1>4 DEF StackType
<1>6. \A i \in 1 .. Len(s) - 1 : s[i].pc = "hosted"
  BY DEF BuriedInv
<1>7. \A i \in 1 .. Len(r) - 1 : r[i].pc = "hosted"
  BY <1>2, <1>3, <1>6
<1>8. BuriedInv'
  BY <1>5, <1>7 DEF BuriedInv
<1>9. r # <<>> => r[Len(r)].pc = "hosted"
  BY <1>2, <1>3, <1>6
<1> QED BY <1>5, <1>8, <1>9

(* A call begins on an empty stack, or in the host function of another. *)
LEMMA PushShape ==
  ASSUME StackType, BuriedInv, NEW t \in Threads, NEW s \in Seq(Frames), NEW f \in Fns,
         \A i \in 1 .. Len(s) : s[i].pc = "hosted", stack' = [stack EXCEPT ![t] = Append(s, Frame(f))]
  PROVE  /\ stack'[t] # <<>> /\ stack'[t][Len(stack'[t])] = Frame(f) /\ BuriedInv'
         /\ \A u \in Threads \ {t} : stack'[u] = stack[u]
<1> DEFINE r == Append(s, Frame(f))
<1>1. Frame(f) \in Frames
  BY FrameType DEF Good
<1>2. r \in Seq(Frames) /\ Len(r) = Len(s) + 1 /\ r[Len(s) + 1] = Frame(f) /\ \A i \in 1 .. Len(s) : r[i] = s[i]
  BY <1>1, AppendProperties
<1>3. Len(s) \in Nat /\ r # <<>>
  BY <1>2, LenProperties, EmptySeq
<1> HIDE DEF r
<1>4. stack'[t] = r /\ \A u \in Threads \ {t} : stack'[u] = stack[u]
  BY DEF StackType, r
<1>5. \A i \in 1 .. Len(r) - 1 : r[i].pc = "hosted"
  BY <1>2, <1>3
<1>6. BuriedInv'
  BY <1>4, <1>5 DEF BuriedInv
<1>7. r[Len(r)] = Frame(f)
  BY <1>2
<1> QED BY <1>3, <1>4, <1>6, <1>7

LEMMA EnterShape ==
  ASSUME StackType, BuriedInv, NEW t \in Threads, stack[t] = <<>>, NEW f \in Fns, Enter(t, f)
  PROVE  /\ stack'[t] # <<>> /\ stack'[t][Len(stack'[t])] = Frame(f) /\ BuriedInv'
         /\ \A u \in Threads \ {t} : stack'[u] = stack[u]
<1>1. <<>> \in Seq(Frames) /\ \A i \in 1 .. Len(<<>>) : <<>>[i].pc = "hosted"
  BY EmptySeq
<1>2. stack' = [stack EXCEPT ![t] = Append(<<>>, Frame(f))]
  BY Zenon DEF Enter
<1> QED BY <1>1, <1>2, PushShape

LEMMA HostShape ==
  ASSUME StackType, BuriedInv, NEW t \in Threads, HostCall(t)
  PROVE  \E f \in Fns :
           /\ stack'[t] # <<>> /\ stack'[t][Len(stack'[t])] = Frame(f) /\ BuriedInv'
           /\ \A u \in Threads \ {t} : stack'[u] = stack[u]
<1> DEFINE f == Script[Top(t).fn].host
           g == [Top(t) EXCEPT !.pc = "hosted"]
           n == Len(stack[t])
           s == [stack[t] EXCEPT ![n] = g]
<1>1. stack[t] # <<>> /\ Top(t) \in Frames /\ stack[t] \in Seq(Frames)
  BY TopType, StackFrames DEF HostCall, At
<1>2. f \in Fns
  BY <1>1, JSVMAssumption DEF JSVMAssumption, HostCall, Frames
<1>3. g \in Frames /\ g.pc = "hosted"
  BY <1>1 DEF Frames
<1>4. s \in Seq(Frames) /\ Len(s) = n /\ s[n] = g
  BY <1>1, <1>3, CountMove
<1>5. n \in Nat \ {0} /\ DOMAIN stack[t] = 1 .. n
  BY <1>1, LenProperties, EmptySeq
<1>6. \A i \in 1 .. n - 1 : s[i].pc = "hosted"
  BY <1>5 DEF BuriedInv
<1>7. \A i \in 1 .. Len(s) : s[i].pc = "hosted"
  <2> HIDE DEF s, g, n
  <2> QED BY <1>3, <1>4, <1>5, <1>6
<1>8. stack' = [stack EXCEPT ![t] = Append(s, Frame(f))]
  BY DEF HostCall, Top
<1> HIDE DEF f, s
<1> QED BY <1>2, <1>4, <1>7, <1>8, PushShape
-----------------------------------------------------------------------------
(* The steps of callFunc(). *)
LEMMA JobKept ==
  ASSUME HInv, NEW t \in Threads, \A u \in Threads \ {t} : stack'[u] = stack[u],
         t \in Loops /\ stack'[t] # <<>> => lpc[t] = "round", UNCHANGED <<heapVars, job>>,
         \A l \in Loops : lpc[l] = "round" => lpc'[l] = "round"
  PROVE  JobInv'
BY DEF HInv, JobInv, heapVars, Threads

LEMMA QuietStack ==
  ASSUME IInv, HInv, NEW t \in Threads, \A u \in Threads \ {t} : stack'[u] = stack[u], BuriedInv',
         JobInv', UNCHANGED <<heapVars, queue, running>>,
         Submits(t) = {}, Submits(t)' = {}, owner' \in {owner, t, Nobody}, Starves(t)'
  PROVE  HInv'
<1>1. OnceInv' /\ HeapInv'
  BY DEF HInv, OnceInv, HeapInv, heapVars
<1>2. LoadInv'
  <2>1. \A u \in Threads : Submits(u)' = Submits(u)
    BY DEF Submits, At, Top
  <2>2. /\ \A w \in Workers : Load'[<<"queue", w>>] = Load[<<"queue", w>>]
        /\ \A w \in Workers : Load'[<<"run", w>>] = Load[<<"run", w>>]
        /\ \A u \in Threads : Load'[<<"submit", u>>] = Load[<<"submit", u>>]
    <3>1. \A w \in Workers : Load'[<<"queue", w>>] = Load[<<"queue", w>>]
      BY <2>1, QueueLoad
    <3>2. \A w \in Workers : Load'[<<"run", w>>] = Load[<<"run", w>>]
      BY <2>1, RunLoad
    <3>3. \A u \in Threads : Load'[<<"submit", u>>] = Load[<<"submit", u>>]
      BY <2>1, SubmitLoad
    <3> QED BY <3>1, <3>2, <3>3
  <2>3. \A x \in Spots : Load'[x] = Load[x]
    BY <2>2, SpotKinds
  <2> QED BY <2>3, LoadKept DEF HInv, heapVars
<1>3. StarveInv'
  BY JSVMAssumption DEF JSVMAssumption, HInv, StarveInv, Starves, Top, heapVars
<1> QED BY <1>1, <1>2, <1>3 DEF HInv

LEMMA MoveKeeps ==
  ASSUME IInv, HInv, NEW t \in Threads, stack[t] # <<>>, NEW f \in Frames, Move(t, f),
         Top(t).pc # "submit", f.pc # "submit",
         UNCHANGED <<heapVars, poolVars, job>>,
         \A l \in Loops : lpc[l] = "round" => lpc'[l] = "round",
         owner' \in {owner, t, Nobody},
         f.pc \in Since /\ f.promise \in Promises =>
           Top(t).pc \in Since /\ f.promise = Top(t).promise /\ (owner' = t => owner = t)
  PROVE  HInv'
<1>1. /\ stack'[t] # <<>> /\ stack'[t][Len(stack'[t])] = f /\ BuriedInv'
      /\ \A u \in Threads \ {t} : stack'[u] = stack[u]
  BY MoveShape DEF IInv, TypeInv, HInv
<1>2. Submits(t) = {} /\ Submits(t)' = {}
  BY <1>1 DEF Submits, At, Top
<1>3. JobInv'
  <2>1. t \in Loops => lpc[t] = "round"
    BY DEF HInv, JobInv
  <2> QED BY <1>1, <2>1, JobKept DEF loopVars
<1>4. Starves(t)'
  BY <1>1 DEF HInv, StarveInv, Starves, Top, heapVars
<1> QED BY <1>1, <1>2, <1>3, <1>4, QuietStack DEF poolVars

LEMMA ReturnKeeps ==
  ASSUME IInv, HInv, NEW t \in Threads, stack[t] # <<>>, Return(t), Top(t).pc # "submit",
         UNCHANGED <<heapVars, poolVars, loopVars>>, owner' \in {owner, t, Nobody}
  PROVE  HInv'
<1>1. /\ stack'[t] # <<>> => stack'[t][Len(stack'[t])].pc = "hosted"
      /\ BuriedInv' /\ \A u \in Threads \ {t} : stack'[u] = stack[u]
  BY ReturnShape DEF IInv, TypeInv, HInv
<1>2. Submits(t) = {} /\ Submits(t)' = {}
  BY <1>1 DEF Submits, At, Top
<1>3. JobInv'
  <2>1. t \in Loops => lpc[t] = "round"
    BY DEF HInv, JobInv
  <2> QED BY <1>1, <2>1, JobKept DEF loopVars
<1>4. Starves(t)'
  BY <1>1 DEF Starves, Top, Since
<1> QED BY <1>1, <1>2, <1>3, <1>4, QuietStack DEF poolVars, loopVars

(* A call that is entered, on an empty stack or from the host. *)
LEMMA PushKeeps ==
  ASSUME IInv, HInv, NEW t \in Threads, NEW f \in Fns,
         stack'[t] # <<>>, stack'[t][Len(stack'[t])] = Frame(f), BuriedInv',
         \A u \in Threads \ {t} : stack'[u] = stack[u],
         t \in Loops => lpc[t] = "round", Submits(t) = {},
         UNCHANGED <<owner, heapVars, poolVars, loopVars>>
  PROVE  HInv'
<1>1. Submits(t)' = {}
  BY DEF Submits, At, Top, Frame
<1>2. Starves(t)'
  BY DEF Starves, Top, Since, Frame
<1>3. JobInv'
  BY JobKept DEF loopVars
<1> QED BY <1>1, <1>2, <1>3, QuietStack DEF poolVars

LEMMA CallHandles ==
  ASSUME IInv, HInv, NEW c \in Callers, NEW f \in Fns, Call(c, f)
  PROVE  HInv'
<1>1. c \in Threads /\ c \notin Loops
  BY JSVMAssumption DEF JSVMAssumption, Threads
<1>2. stack[c] = <<>> /\ Enter(c, f) /\ UNCHANGED <<owner, heapVars, poolVars, loopVars>>
  BY DEF Call
<1>3. /\ stack'[c] # <<>> /\ stack'[c][Len(stack'[c])] = Frame(f) /\ BuriedInv'
      /\ \A u \in Threads \ {c} : stack'[u] = stack[u]
  BY <1>1, <1>2, EnterShape DEF IInv, TypeInv, HInv
<1>4. Submits(c) = {}
  BY <1>2 DEF Submits, At
<1> QED BY <1>1, <1>2, <1>3, <1>4, PushKeeps

LEMMA HostCallHandles ==
  ASSUME IInv, HInv, NEW t \in Threads, HostCall(t)
  PROVE  HInv'
<1>1. stack[t] # <<>> /\ Top(t).pc = "js" /\ UNCHANGED <<owner, heapVars, poolVars, loopVars>>
  BY DEF HostCall, At
<1>2. PICK f \in Fns : /\ stack'[t] # <<>> /\ stack'[t][Len(stack'[t])] = Frame(f) /\ BuriedInv'
                       /\ \A u \in Threads \ {t} : stack'[u] = stack[u]
  BY HostShape DEF IInv, TypeInv, HInv
<1>3. t \in Loops => lpc[t] = "round"
  BY <1>1 DEF HInv, JobInv
<1>4. Submits(t) = {}
  BY <1>1 DEF Submits, At
<1> QED BY <1>1, <1>2, <1>3, <1>4, PushKeeps

(* The moves of a call that make no promise and submit none. *)
LEMMA MoveHandles ==
  ASSUME IInv, HInv, NEW t \in Threads,
         \/ Lock(t) \/ MakeNothing(t) \/ AwaitUnlock(t) \/ See(t) \/ Deadline(t)
         \/ \E k \in Kinds : NewLooper(t, k) \/ JoinLooper(t, k)
  PROVE  HInv'
<1>0. /\ stack[t] # <<>> => Top(t) \in Frames
      /\ lpc \in [Loops -> {"none", "wait", "round"}] /\ looper \in [Kinds -> Loops \cup {Nobody}]
  BY TopType DEF IInv, TypeInv, LoopType
<1>1. CASE Lock(t)
  <2> DEFINE f == [Top(t) EXCEPT !.pc = "js"]
  <2>1. /\ stack[t] # <<>> /\ Top(t).pc = "try" /\ Move(t, f) /\ owner' = t
        /\ UNCHANGED <<heapVars, poolVars, lpc, job>>
    BY <1>1 DEF Lock, At, Goto, LockBy
  <2>2. f \in Frames /\ f.pc = "js"
    BY <1>0, <2>1 DEF Frames
  <2> HIDE DEF f
  <2> QED BY <2>1, <2>2, MoveKeeps DEF Since
<1>2. CASE MakeNothing(t)
  <2> DEFINE f == [Top(t) EXCEPT !.pc = IF Makes(t) = "fails" THEN "failed" ELSE "called",
                                 !.promise = IF Makes(t) = "never" THEN NeverSettles ELSE NoPromise]
  <2>1. /\ stack[t] # <<>> /\ Top(t).pc \in {"js", "hosted"} /\ Move(t, f)
        /\ UNCHANGED <<owner, heapVars, poolVars, loopVars>>
    BY <1>2 DEF MakeNothing, InScript, At
  <2>2. f \in Frames /\ f.pc \in {"failed", "called"} /\ f.promise \notin Promises
    BY <1>0, <2>1, Sentinels DEF Frames
  <2> HIDE DEF f
  <2> QED BY <2>1, <2>2, MoveKeeps DEF loopVars
<1>3. CASE AwaitUnlock(t)
  <2> DEFINE f == [Top(t) EXCEPT !.pc = "timer"]
  <2>1. /\ stack[t] # <<>> /\ Top(t).pc = "called" /\ Move(t, f) /\ owner' \in {owner, Nobody}
        /\ UNCHANGED <<heapVars, poolVars, loopVars>>
    BY <1>3 DEF AwaitUnlock, At, Goto, Unlock
  <2>2. f \in Frames /\ f.pc = "timer" /\ f.promise = Top(t).promise
    BY <1>0, <2>1 DEF Frames
  <2>3. owner' = t => owner = t
    BY <2>1, JSVMAssumption DEF JSVMAssumption
  <2> HIDE DEF f
  <2> QED BY <2>1, <2>2, <2>3, MoveKeeps DEF Since, loopVars
<1>4. CASE See(t) \/ Deadline(t)
  <2> DEFINE f == [Top(t) EXCEPT !.pc = "result"]
  <2>1. /\ stack[t] # <<>> /\ Top(t).pc = "await" /\ Move(t, f)
        /\ UNCHANGED <<owner, heapVars, poolVars, loopVars>>
    BY <1>4 DEF See, Deadline, At, Goto
  <2>2. f \in Frames /\ f.pc = "result"
    BY <1>0, <2>1 DEF Frames
  <2> HIDE DEF f
  <2> QED BY <2>1, <2>2, MoveKeeps DEF Since, loopVars
<1>5. ASSUME NEW k \in Kinds, NewLooper(t, k) PROVE HInv'
  <2> DEFINE f == [Top(t) EXCEPT !.pc = JoinOf(k), !.old = looper[k]]
  <2>1. /\ stack[t] # <<>> /\ Top(t).pc = k /\ Move(t, f)
        /\ UNCHANGED <<owner, heapVars, poolVars, job>>
    BY <1>5 DEF NewLooper, At
  <2>2. PICK l \in Unused(k) : lpc' = [lpc EXCEPT ![l] = "wait"]
    BY <1>5 DEF NewLooper
  <2>3. \A m \in Loops : lpc[m] = "round" => lpc'[m] = "round"
    BY <1>0, <2>2 DEF Unused
  <2>4. f \in Frames /\ f.pc = JoinOf(k) /\ f.promise = Top(t).promise
    BY <1>0, <2>1 DEF Frames, JoinOf, Kinds
  <2> HIDE DEF f
  <2> QED BY <2>1, <2>3, <2>4, MoveKeeps DEF Since, JoinOf, Kinds
<1>6. ASSUME NEW k \in Kinds, JoinLooper(t, k) PROVE HInv'
  <2> DEFINE f == [Top(t) EXCEPT !.pc = AfterJoin(t, k), !.old = Nobody]
  <2>1. /\ stack[t] # <<>> /\ Top(t).pc = JoinOf(k) /\ Move(t, f)
        /\ UNCHANGED <<owner, heapVars, poolVars, job>>
    BY <1>6 DEF JoinLooper, At
  <2>2. \A m \in Loops : lpc[m] = "round" => lpc'[m] = "round"
    BY <1>0, <1>6 DEF JoinLooper
  <2>3. f \in Frames /\ f.pc \in {"promise", "result", "await"} /\ f.promise = Top(t).promise
    BY <1>0, <2>1 DEF Frames, AfterJoin
  <2> HIDE DEF f
  <2> QED BY <2>1, <2>2, <2>3, MoveKeeps DEF Since, JoinOf, Kinds
<1> QED BY <1>1, <1>2, <1>3, <1>4, <1>5, <1>6

LEMMA ReturnHandles ==
  ASSUME IInv, HInv, NEW t \in Threads, Failed(t) \/ Result(t) \/ AwaitResult(t)
  PROVE  HInv'
<1>1. /\ stack[t] # <<>> /\ Top(t).pc \in {"failed", "called", "result"} /\ Return(t)
      /\ owner' \in {owner, Nobody} /\ UNCHANGED <<heapVars, poolVars, loopVars>>
  BY DEF Failed, Result, AwaitResult, At, Unlock
<1> QED BY <1>1, ReturnKeeps

LEMMA LockFailsHandles ==
  ASSUME IInv, HInv, NEW t \in Threads, LockFails(t)
  PROVE  HInv'
<1> DEFINE f == [Top(t) EXCEPT !.tries = @ + 1]
<1>1. /\ stack[t] # <<>> /\ Top(t).pc = "try" /\ Top(t) \in Frames
      /\ UNCHANGED <<owner, heapVars, poolVars, loopVars>>
  BY TopType DEF IInv, TypeInv, LockFails, At
<1>2. CASE Top(t).tries + 1 < RetryCount
  <2>1. Top(t).tries + 1 \in 0 .. RetryCount - 1
    BY <1>1, <1>2, JSVMAssumption DEF JSVMAssumption, Frames
  <2>2. f \in Frames /\ f.pc = "try"
    BY <1>1, <2>1 DEF Frames
  <2>3. Move(t, f)
    BY <1>2 DEF LockFails
  <2> HIDE DEF f
  <2> QED BY <1>1, <2>2, <2>3, MoveKeeps DEF Since, loopVars
<1>3. CASE ~(Top(t).tries + 1 < RetryCount)
  <2>1. Return(t)
    BY <1>3 DEF LockFails
  <2> QED BY <1>1, <2>1, ReturnKeeps
<1> QED BY <1>2, <1>3

(* newPromise() puts a handle into the cache. *)
LEMMA MakePromiseHandles ==
  ASSUME IInv, HInv, NEW t \in Threads, MakePromise(t)
  PROVE  HInv'
<1>1. PICK p \in Promises :
        /\ promise[p] = "unborn" /\ promise' = [promise EXCEPT ![p] = "pending"]
        /\ cache' = cache \cup {p} /\ Move(t, [Top(t) EXCEPT !.pc = "submit", !.promise = p])
  BY DEF MakePromise, Unborn
<1> DEFINE f == [Top(t) EXCEPT !.pc = "submit", !.promise = p]
<1>2. /\ stack[t] # <<>> /\ Top(t).pc \in {"js", "hosted"} /\ Top(t) \in Frames
      /\ promise \in [Promises -> {"unborn", "pending", "ready", "settled"}]
      /\ UNCHANGED <<owner, dropped, poolVars, loopVars>>
  BY TopType DEF IInv, TypeInv, HeapType, MakePromise, InScript, At
<1>3. f \in Frames /\ f.pc = "submit" /\ f.promise = p
  BY <1>2 DEF Frames
<1>4. Move(t, f)
  BY <1>1
<1> HIDE DEF f
<1>5. /\ stack'[t] # <<>> /\ stack'[t][Len(stack'[t])] = f /\ BuriedInv'
      /\ \A u \in Threads \ {t} : stack'[u] = stack[u]
  BY <1>2, <1>3, <1>4, MoveShape DEF IInv, TypeInv, HInv
<1>6. p \notin cache /\ p \notin dropped
  BY <1>1 DEF HInv, HeapInv
<1>7. \A q \in Promises \ {p} : promise'[q] = promise[q]
  BY <1>1, <1>2
<1>8. promise'[p] = "pending"
  BY <1>1, <1>2
<1>9. OnceInv' /\ HeapInv'
  BY <1>1, <1>2, <1>6, <1>7, <1>8 DEF HInv, OnceInv, HeapInv, poolVars
<1>10. LoadInv'
  <2>1. Submits(t) = {} /\ Submits(t)' = {p} /\ \A u \in Threads \ {t} : Submits(u)' = Submits(u)
    BY <1>2, <1>3, <1>5 DEF Submits, At, Top
  <2> DEFINE x == <<"submit", t>>
  <2>2. x \in Spots /\ Load[x] = {} /\ Load'[x] = {p}
    BY <2>1, QueueLoad, RunLoad, SubmitLoad DEF Spots
  <2>3. /\ \A w \in Workers : Load'[<<"queue", w>>] = Load[<<"queue", w>>]
        /\ \A w \in Workers : Load'[<<"run", w>>] = Load[<<"run", w>>]
        /\ \A u \in Threads \ {t} : Load'[<<"submit", u>>] = Load[<<"submit", u>>]
    <3>1. \A w \in Workers : Load'[<<"queue", w>>] = Load[<<"queue", w>>]
      BY <1>2, <2>1, QueueLoad DEF poolVars
    <3>2. \A w \in Workers : Load'[<<"run", w>>] = Load[<<"run", w>>]
      BY <1>2, <2>1, RunLoad DEF poolVars
    <3>3. \A u \in Threads \ {t} : Load'[<<"submit", u>>] = Load[<<"submit", u>>]
      BY <1>2, <2>1, SubmitLoad DEF poolVars
    <3> QED BY <3>1, <3>2, <3>3
  <2>4. \A y \in Spots \ {x} : Load'[y] = Load[y]
    BY <2>3, SpotKinds
  <2> HIDE DEF x
  <2> QED BY <1>1, <1>6, <2>2, <2>4, LoadGained DEF HInv
<1>11. JobInv'
  <2>1. \A l \in Loops : job[l] # NoPromise => job[l] \in Promises /\ job[l] # p
    BY <1>1 DEF HInv, JobInv, IInv, TypeInv, LoopType
  <2> QED BY <1>2, <1>5, <1>7, <2>1 DEF HInv, JobInv, loopVars, Threads
<1>12. StarveInv'
  BY <1>2, <1>3, <1>5, <1>7, <1>8 DEF HInv, StarveInv, Starves, Top
<1> QED BY <1>5, <1>9, <1>10, <1>11, <1>12 DEF HInv

(* submitTask() moves it from the thread to a queue. *)
LEMMA SubmitHandles ==
  ASSUME IInv, HInv, NEW t \in Threads, Submit(t)
  PROVE  HInv'
<1> DEFINE f == [Top(t) EXCEPT !.pc = "called"]
           p == Top(t).promise
           w == turn
<1>1. /\ stack[t] # <<>> /\ Top(t).pc = "submit" /\ Top(t) \in Frames /\ p \in Made
      /\ queue \in [Workers -> Seq(Made)] /\ w \in Workers
  BY TopType DEF IInv, TypeInv, PoolType, Submit, At, Good
<1>2. /\ queue' = [queue EXCEPT ![w] = Append(@, p)] /\ Move(t, f)
      /\ UNCHANGED <<owner, heapVars, running, loopVars>>
  BY DEF Submit, Goto
<1>3. f \in Frames /\ f.pc = "called" /\ f.promise = p
  BY <1>1 DEF Frames
<1> HIDE DEF f, w
<1>4. /\ stack'[t] # <<>> /\ stack'[t][Len(stack'[t])] = f /\ BuriedInv'
      /\ \A u \in Threads \ {t} : stack'[u] = stack[u]
  BY <1>1, <1>2, <1>3, MoveShape DEF IInv, TypeInv, HInv
<1>5. Submits(t) = {p} /\ Submits(t)' = {} /\ \A u \in Threads \ {t} : Submits(u)' = Submits(u)
  BY <1>1, <1>3, <1>4 DEF Submits, At, Top
<1> DEFINE x == <<"submit", t>>
           y == <<"queue", w>>
<1>6. x \in Spots /\ y \in Spots /\ x # y /\ Load[x] = {p} /\ Load'[x] = {} /\ Load[y] = In(queue[w])
  BY <1>1, <1>5, QueueLoad, RunLoad, SubmitLoad DEF Spots
<1>7. p \notin In(queue[w])
  BY <1>6 DEF HInv, LoadInv
<1>8. Once(queue[w]) /\ queue[w] \in Seq(Made)
  BY <1>1 DEF HInv, OnceInv
<1>9. In(Append(queue[w], p)) = In(queue[w]) \cup {p} /\ Once(Append(queue[w], p))
  <2> HIDE DEF p
  <2> QED BY <1>1, <1>7, <1>8, OnceAppend
<1>10. queue'[w] = Append(queue[w], p) /\ \A v \in Workers \ {w} : queue'[v] = queue[v]
  <2> HIDE DEF p
  <2> QED BY <1>1, <1>2
<1> HIDE DEF p
<1>11. Load'[y] = Load[y] \cup {p} /\ Load'[x] = Load[x] \ {p}
  <2>1. Load'[y] = In(queue'[w])
    BY <1>1, QueueLoad, RunLoad, SubmitLoad
  <2>2. In(queue'[w]) = In(queue[w]) \cup {p}
    BY <1>9, <1>10, Zenon
  <2> QED BY <1>6, <2>1, <2>2
<1>12. OnceInv'
  <2>1. Once(queue'[w])
    BY <1>9, <1>10, Zenon
  <2> QED BY <1>10, <2>1 DEF HInv, OnceInv
<1>13. \A z \in Spots \ {x, y} : Load'[z] = Load[z]
  <2>1. /\ \A v \in Workers \ {w} : Load'[<<"queue", v>>] = Load[<<"queue", v>>]
        /\ \A v \in Workers : Load'[<<"run", v>>] = Load[<<"run", v>>]
        /\ \A u \in Threads \ {t} : Load'[<<"submit", u>>] = Load[<<"submit", u>>]
    <3>1. \A v \in Workers \ {w} : Load'[<<"queue", v>>] = Load[<<"queue", v>>]
      BY <1>2, <1>5, <1>10, QueueLoad
    <3>2. \A v \in Workers : Load'[<<"run", v>>] = Load[<<"run", v>>]
      BY <1>2, <1>5, <1>10, RunLoad
    <3>3. \A u \in Threads \ {t} : Load'[<<"submit", u>>] = Load[<<"submit", u>>]
      BY <1>2, <1>5, <1>10, SubmitLoad
    <3> QED BY <3>1, <3>2, <3>3
  <2> QED BY <2>1, SpotKinds
<1>14. LoadInv'
  <2> HIDE DEF x, y
  <2>1. p \in Load[x] /\ cache' = cache
    BY <1>2, <1>6 DEF heapVars
  <2> QED BY <1>6, <1>11, <1>13, <2>1, LoadMoved DEF HInv
<1>15. HeapInv' /\ JobInv'
  <2>1. t \in Loops => lpc[t] = "round"
    BY <1>1 DEF HInv, JobInv
  <2>2. JobInv'
    BY <1>2, <1>4, <2>1, JobKept DEF loopVars
  <2> QED BY <1>2, <2>2 DEF HInv, HeapInv, heapVars
<1>16. StarveInv'
  <2>1. Starves(t)'
    BY <1>1, <1>2, <1>3, <1>4 DEF HInv, StarveInv, Starves, Top, Since, heapVars, p
  <2> QED BY <1>2, <1>4, <2>1 DEF HInv, StarveInv, Starves, Top, heapVars
<1> QED BY <1>4, <1>12, <1>14, <1>15, <1>16 DEF HInv
-----------------------------------------------------------------------------
(* The task of a promise, and the loopers: the stacks stay. *)
LEMMA SameStacks ==
  ASSUME UNCHANGED stack
  PROVE  BuriedInv' = BuriedInv /\ \A t \in Threads : Submits(t)' = Submits(t)
BY DEF BuriedInv, Submits, At, Top

LEMMA BeginHandles ==
  ASSUME IInv, HInv, NEW w \in Workers, Begin(w)
  PROVE  HInv'
<1> DEFINE p == Head(queue[w])
<1>1. /\ running[w] = NoPromise /\ queue[w] # <<>> /\ queue[w] \in Seq(Made)
      /\ running' = [running EXCEPT ![w] = p] /\ queue' = [queue EXCEPT ![w] = Tail(@)]
      /\ UNCHANGED <<owner, stack, heapVars, loopVars>>
      /\ queue \in [Workers -> Seq(Made)] /\ running \in [Workers -> Made \cup {NoPromise}]
  BY DEF Begin, IInv, TypeInv, PoolType
<1>2. p \in In(queue[w]) /\ In(Tail(queue[w])) = In(queue[w]) \ {p} /\ Once(Tail(queue[w]))
  BY <1>1, OnceTail DEF HInv, OnceInv
<1>3. p \in Made
  BY <1>1, <1>2 DEF In
<1>4. p # NoPromise
  BY <1>3, Sentinels DEF Made
<1> HIDE DEF p
<1>5. /\ running'[w] = p /\ \A v \in Workers \ {w} : running'[v] = running[v]
      /\ queue'[w] = Tail(queue[w]) /\ \A v \in Workers \ {w} : queue'[v] = queue[v]
  BY <1>1
<1> DEFINE x == <<"queue", w>>
           y == <<"run", w>>
<1>6. /\ x \in Spots /\ y \in Spots /\ x # y
      /\ Load[x] = In(queue[w]) /\ Load[y] = {}
      /\ Load'[x] = In(queue'[w]) /\ Load'[y] = {p}
  BY <1>1, <1>4, <1>5, QueueLoad, RunLoad, SubmitLoad DEF Spots
<1>7. In(queue'[w]) = In(queue[w]) \ {p} /\ Once(queue'[w])
  BY <1>2, <1>5, Zenon
<1>8. OnceInv'
  BY <1>5, <1>7 DEF HInv, OnceInv
<1>9. \A z \in Spots \ {x, y} : Load'[z] = Load[z]
  <2>1. \A v \in Workers \ {w} : Load'[<<"queue", v>>] = Load[<<"queue", v>>]
    BY <1>5, QueueLoad
  <2>2. \A v \in Workers \ {w} : Load'[<<"run", v>>] = Load[<<"run", v>>]
    BY <1>5, RunLoad
  <2>3. \A u \in Threads : Load'[<<"submit", u>>] = Load[<<"submit", u>>]
    BY <1>1, SubmitLoad, SameStacks
  <2> QED BY <2>1, <2>2, <2>3, SpotKinds
<1>10. LoadInv'
  <2> HIDE DEF x, y
  <2>1. p \in Load[x] /\ cache' = cache
    BY <1>1, <1>2, <1>6 DEF heapVars
  <2>2. Load'[x] = Load[x] \ {p} /\ Load'[y] = Load[y] \cup {p}
    BY <1>6, <1>7
  <2> QED BY <1>6, <1>9, <2>1, <2>2, LoadMoved DEF HInv
<1>11. HeapInv' /\ JobInv'
  BY <1>1 DEF HInv, HeapInv, JobInv, heapVars, loopVars
<1>12. BuriedInv' /\ StarveInv'
  BY <1>1, SameStacks DEF HInv, StarveInv, Starves, Top, heapVars
<1> QED BY <1>8, <1>10, <1>11, <1>12 DEF HInv

(* A Worker is done with a promise: its handle goes. *)
LEMMA FinishLoads ==
  ASSUME IInv, HInv, NEW w \in Workers, running[w] \in Made, Finish(w),
         cache' = cache \ {running[w]}, UNCHANGED <<stack, queue>>
  PROVE  LoadInv' /\ OnceInv' /\ running[w] \in cache
<1> DEFINE p == running[w]
           x == <<"run", w>>
<1>1. p # NoPromise
  BY Sentinels DEF Made
<1>2. running'[w] = NoPromise /\ \A v \in Workers \ {w} : running'[v] = running[v]
  BY DEF Finish, IInv, TypeInv, PoolType
<1> HIDE DEF p
<1>3. x \in Spots /\ Load[x] = {p} /\ Load'[x] = {}
  BY <1>1, <1>2, QueueLoad, RunLoad, SubmitLoad DEF Spots, p
<1>4. \A z \in Spots \ {x} : Load'[z] = Load[z]
  <2>1. \A v \in Workers : Load'[<<"queue", v>>] = Load[<<"queue", v>>]
    BY QueueLoad
  <2>2. \A v \in Workers \ {w} : Load'[<<"run", v>>] = Load[<<"run", v>>]
    BY <1>2, RunLoad
  <2>3. \A u \in Threads : Load'[<<"submit", u>>] = Load[<<"submit", u>>]
    BY SubmitLoad, SameStacks
  <2> QED BY <2>1, <2>2, <2>3, SpotKinds
<1> HIDE DEF x
<1>5. cache' = cache \ {p}
  BY DEF p
<1>6. LoadInv'
  BY <1>3, <1>4, <1>5, LoadLost DEF HInv
<1>7. p \in cache
  BY <1>3 DEF HInv, LoadInv
<1> QED BY <1>6, <1>7 DEF HInv, OnceInv, p

LEMMA WorkLockFailsHandles ==
  ASSUME IInv, HInv, NEW w \in Workers, WorkLockFails(w)
  PROVE  HInv'
<1>1. running[w] \in Made /\ UNCHANGED <<owner, stack, promise, queue, loopVars>>
  BY DEF IInv, TypeInv, PoolType, WorkLockFails
<1>2. BuriedInv' /\ StarveInv'
  BY <1>1, SameStacks DEF HInv, StarveInv, Starves, Top
<1>3. JobInv'
  BY <1>1 DEF HInv, JobInv, loopVars
<1>4. CASE wtries[w] + 1 < RetryCount
  <2>1. UNCHANGED <<running, cache, dropped>>
    BY <1>4 DEF WorkLockFails
  <2>2. /\ \A v \in Workers : Load'[<<"queue", v>>] = Load[<<"queue", v>>]
        /\ \A v \in Workers : Load'[<<"run", v>>] = Load[<<"run", v>>]
        /\ \A u \in Threads : Load'[<<"submit", u>>] = Load[<<"submit", u>>]
    <3>1. \A v \in Workers : Load'[<<"queue", v>>] = Load[<<"queue", v>>]
      BY <1>1, <2>1, QueueLoad
    <3>2. \A v \in Workers : Load'[<<"run", v>>] = Load[<<"run", v>>]
      BY <1>1, <2>1, RunLoad
    <3>3. \A u \in Threads : Load'[<<"submit", u>>] = Load[<<"submit", u>>]
      BY <1>1, <2>1, SubmitLoad, SameStacks
    <3> QED BY <3>1, <3>2, <3>3
  <2>3. \A x \in Spots : Load'[x] = Load[x]
    BY <2>2, SpotKinds
  <2>4. LoadInv'
    BY <2>1, <2>3, LoadKept DEF HInv
  <2>5. OnceInv' /\ HeapInv'
    BY <1>1, <2>1 DEF HInv, OnceInv, HeapInv
  <2> QED BY <1>2, <1>3, <2>4, <2>5 DEF HInv
<1>5. CASE ~(wtries[w] + 1 < RetryCount)
  <2>1. Finish(w) /\ cache' = cache \ {running[w]} /\ dropped' = dropped \cup {running[w]}
    BY <1>5 DEF WorkLockFails
  <2>2. LoadInv' /\ OnceInv' /\ running[w] \in cache
    BY <1>1, <2>1, FinishLoads
  <2>3. HeapInv'
    BY <1>1, <2>1, <2>2 DEF HInv, HeapInv
  <2> QED BY <1>2, <1>3, <2>2, <2>3 DEF HInv
<1> QED BY <1>4, <1>5

LEMMA WorkHandles ==
  ASSUME IInv, HInv, NEW w \in Workers, Work(w)
  PROVE  HInv'
<1> DEFINE p == running[w]
<1>1. /\ p \in Made /\ p \in Promises /\ wpc[w] = "work" /\ Finish(w) /\ Unlock
      /\ cache' = cache \ {p} /\ UNCHANGED <<stack, dropped, queue, loopVars>>
      /\ promise \in [Promises -> {"unborn", "pending", "ready", "settled"}]
  BY DEF IInv, TypeInv, PoolType, HeapType, Made, Work
<1>2. LoadInv' /\ OnceInv' /\ p \in cache
  BY <1>1, FinishLoads
<1>3. /\ promise'[p] \in {"settled", "ready"} /\ \A q \in Promises \ {p} : promise'[q] = promise[q]
  BY <1>1 DEF Work
<1> HIDE DEF p
<1>4. promise[p] = "pending" /\ p \notin dropped
  BY <1>1, <1>2 DEF HInv, HeapInv
<1>5. HeapInv'
  BY <1>1, <1>3, <1>4 DEF HInv, HeapInv
<1>6. JobInv'
  <2>1. \A l \in Loops : job[l] # NoPromise => job[l] \in Promises /\ job[l] # p
    BY <1>4 DEF HInv, JobInv, IInv, TypeInv, LoopType
  <2> QED BY <1>1, <1>3, <2>1 DEF HInv, JobInv, loopVars
<1>7. owner' \notin Threads
  <2>1. Lev[w] = 1
    BY <1>1 DEF Lev, Works
  <2>2. owner = w
    BY <2>1 DEF IInv, LockInv, Balanced
  <2> QED BY <1>1, <2>2, JSVMAssumption DEF JSVMAssumption, Unlock
<1>8. BuriedInv' /\ StarveInv'
  BY <1>1, <1>7, SameStacks DEF HInv, StarveInv, Starves
<1> QED BY <1>2, <1>5, <1>6, <1>8 DEF HInv

(* Steps that only lock or unlock, or that replace a looper. *)
LEMMA RestHandles ==
  ASSUME IInv, HInv, UNCHANGED <<stack, heapVars, queue, running>>, JobInv', StarveInv'
  PROVE  HInv'
<1>1. /\ \A v \in Workers : Load'[<<"queue", v>>] = Load[<<"queue", v>>]
      /\ \A v \in Workers : Load'[<<"run", v>>] = Load[<<"run", v>>]
      /\ \A u \in Threads : Load'[<<"submit", u>>] = Load[<<"submit", u>>]
  <2>1. \A v \in Workers : Load'[<<"queue", v>>] = Load[<<"queue", v>>]
    BY QueueLoad
  <2>2. \A v \in Workers : Load'[<<"run", v>>] = Load[<<"run", v>>]
    BY RunLoad
  <2>3. \A u \in Threads : Load'[<<"submit", u>>] = Load[<<"submit", u>>]
    BY SubmitLoad, SameStacks
  <2> QED BY <2>1, <2>2, <2>3
<1>2. \A x \in Spots : Load'[x] = Load[x]
  BY <1>1, SpotKinds
<1>3. LoadInv'
  BY <1>2, LoadKept DEF HInv, heapVars
<1>4. OnceInv' /\ HeapInv' /\ BuriedInv'
  BY SameStacks DEF HInv, OnceInv, HeapInv, heapVars
<1> QED BY <1>3, <1>4 DEF HInv

LEMMA WorkLockHandles ==
  ASSUME IInv, HInv, NEW w \in Workers, WorkLock(w)
  PROVE  HInv'
<1>1. UNCHANGED <<stack, heapVars, queue, running, loopVars>> /\ owner' = w
  BY DEF WorkLock, LockBy
<1>2. JobInv'
  BY <1>1 DEF HInv, JobInv, heapVars, loopVars
<1>3. StarveInv'
  BY <1>1, JSVMAssumption DEF JSVMAssumption, StarveInv, Starves
<1> QED BY <1>1, <1>2, <1>3, RestHandles

LEMMA JoinSelfHandles ==
  ASSUME IInv, HInv, NEW t \in Threads, NEW k \in Kinds, JoinSelf(t, k)
  PROVE  HInv'
<1>1. UNCHANGED <<owner, stack, heapVars, queue, running, lpc, job>>
  BY DEF JoinSelf, poolVars
<1>2. JobInv' /\ StarveInv'
  BY <1>1 DEF HInv, JobInv, StarveInv, Starves, Top, heapVars
<1> QED BY <1>1, <1>2, RestHandles

LEMMA LoopLockHandles ==
  ASSUME IInv, HInv, NEW l \in Loops, LoopLock(l)
  PROVE  HInv'
<1>1. /\ UNCHANGED <<stack, heapVars, queue, running, job>> /\ owner' = l /\ lpc[l] = "wait"
      /\ lpc' = [lpc EXCEPT ![l] = "round"] /\ lpc \in [Loops -> {"none", "wait", "round"}]
  BY DEF LoopLock, LockBy, poolVars, IInv, TypeInv, LoopType
<1>2. stack[l] = <<>>
  BY <1>1 DEF HInv, JobInv
<1>3. JobInv'
  BY <1>1 DEF HInv, JobInv, heapVars
<1>4. StarveInv'
  BY <1>1, <1>2 DEF StarveInv, Starves
<1> QED BY <1>1, <1>3, <1>4, RestHandles

LEMMA LoopUnlockHandles ==
  ASSUME IInv, HInv, NEW l \in Loops, LoopUnlock(l)
  PROVE  HInv'
<1>1. /\ UNCHANGED <<stack, heapVars, queue, running, job>> /\ owner' \in {owner, Nobody} /\ stack[l] = <<>>
      /\ job[l] = NoPromise
      /\ lpc' = [lpc EXCEPT ![l] = "wait"] /\ lpc \in [Loops -> {"none", "wait", "round"}]
  BY DEF LoopUnlock, InRound, Unlock, poolVars, IInv, TypeInv, LoopType
<1>2. JobInv'
  BY <1>1 DEF HInv, JobInv, heapVars
<1>3. StarveInv'
  BY <1>1, JSVMAssumption DEF JSVMAssumption, HInv, StarveInv, Starves, Top, heapVars
<1> QED BY <1>1, <1>2, <1>3, RestHandles

LEMMA TimerBeginHandles ==
  ASSUME IInv, HInv, NEW l \in Loops, TimerBegin(l)
  PROVE  HInv'
<1>1. PICK f \in Fns : Enter(l, f)
  BY DEF TimerBegin
<1>2. /\ lpc[l] = "round" /\ stack[l] = <<>> /\ l \in Threads
      /\ UNCHANGED <<owner, heapVars, queue, running, lpc, job>>
  BY DEF TimerBegin, InRound, poolVars, Threads
<1>3. /\ stack'[l] # <<>> /\ stack'[l][Len(stack'[l])] = Frame(f) /\ BuriedInv'
      /\ \A u \in Threads \ {l} : stack'[u] = stack[u]
  BY <1>1, <1>2, EnterShape DEF IInv, TypeInv, HInv
<1>4. Submits(l) = {} /\ Submits(l)' = {} /\ Starves(l)'
  BY <1>2, <1>3 DEF Submits, At, Top, Frame, Starves, Since
<1>5. JobInv'
  BY <1>2, <1>3, JobKept
<1> QED BY <1>2, <1>3, <1>4, <1>5, QuietStack

LEMMA JobBeginHandles ==
  ASSUME IInv, HInv, NEW l \in Loops, JobBegin(l)
  PROVE  HInv'
<1>1. PICK p \in Promises :
        /\ promise[p] = "ready" /\ \A m \in Loops : job[m] # p
        /\ job' = [job EXCEPT ![l] = p]
        /\ IF Script[madeBy[p]].then = NoFn THEN UNCHANGED stack ELSE Enter(l, Script[madeBy[p]].then)
  BY DEF JobBegin
<1>2. /\ lpc[l] = "round" /\ job[l] = NoPromise /\ UNCHANGED <<owner, heapVars, queue, running, lpc>>
      /\ stack[l] = <<>> /\ l \in Threads
  BY DEF JobBegin, InRound, poolVars, Threads
<1>3. p # NoPromise /\ job'[l] = p /\ \A m \in Loops \ {l} : job'[m] = job[m]
  BY <1>1, Sentinels DEF IInv, TypeInv, LoopType
<1>4. ASSUME \A u \in Threads \ {l} : stack'[u] = stack[u] PROVE JobInv'
  BY <1>1, <1>2, <1>3, <1>4 DEF HInv, JobInv, heapVars, Threads
<1>5. CASE Script[madeBy[p]].then = NoFn
  <2>1. UNCHANGED stack
    BY <1>1, <1>5
  <2>2. JobInv'
    BY <1>4, <2>1
  <2>3. StarveInv'
    BY <1>2, <2>1 DEF HInv, StarveInv, Starves, Top, heapVars
  <2> QED BY <1>2, <2>1, <2>2, <2>3, RestHandles
<1>6. CASE Script[madeBy[p]].then # NoFn
  <2> DEFINE f == Script[madeBy[p]].then
  <2>1. f \in Fns /\ Enter(l, f)
    BY <1>1, <1>6, JSVMAssumption DEF JSVMAssumption, IInv, TypeInv, HeapType, Made
  <2> HIDE DEF f
  <2>2. /\ stack'[l] # <<>> /\ stack'[l][Len(stack'[l])] = Frame(f) /\ BuriedInv'
        /\ \A u \in Threads \ {l} : stack'[u] = stack[u]
    BY <1>2, <2>1, EnterShape DEF IInv, TypeInv, HInv
  <2>3. Submits(l) = {} /\ Submits(l)' = {} /\ Starves(l)'
    BY <1>2, <2>2 DEF Submits, At, Top, Frame, Starves, Since
  <2>4. JobInv'
    BY <1>4, <2>2
  <2> QED BY <1>2, <2>2, <2>3, <2>4, QuietStack
<1> QED BY <1>5, <1>6

LEMMA JobEndHandles ==
  ASSUME IInv, HInv, NEW l \in Loops, JobEnd(l)
  PROVE  HInv'
<1> DEFINE p == job[l]
<1>1. /\ p # NoPromise /\ stack[l] = <<>> /\ p \in Promises /\ promise[p] = "ready"
      /\ promise' = [promise EXCEPT ![p] = "settled"] /\ job' = [job EXCEPT ![l] = NoPromise]
      /\ UNCHANGED <<owner, stack, cache, dropped, queue, running, lpc>>
      /\ promise \in [Promises -> {"unborn", "pending", "ready", "settled"}]
      /\ job \in [Loops -> Promises \cup {NoPromise}]
  BY DEF JobEnd, HInv, JobInv, IInv, TypeInv, LoopType, HeapType, poolVars
<1>2. \A m \in Loops \ {l} : job[m] # p
  BY <1>1 DEF HInv, JobInv
<1> HIDE DEF p
<1>3. /\ promise'[p] = "settled" /\ \A q \in Promises \ {p} : promise'[q] = promise[q]
      /\ job'[l] = NoPromise /\ \A m \in Loops \ {l} : job'[m] = job[m]
  BY <1>1
<1>4. JobInv'
  BY <1>1, <1>2, <1>3 DEF HInv, JobInv
<1>5. HeapInv'
  BY <1>1, <1>3 DEF HInv, HeapInv
<1>6. StarveInv'
  BY <1>1, <1>3 DEF HInv, StarveInv, Starves, Top
<1>7. LoadInv' /\ OnceInv' /\ BuriedInv'
  <2>1. /\ \A v \in Workers : Load'[<<"queue", v>>] = Load[<<"queue", v>>]
        /\ \A v \in Workers : Load'[<<"run", v>>] = Load[<<"run", v>>]
        /\ \A u \in Threads : Load'[<<"submit", u>>] = Load[<<"submit", u>>]
    <3>1. \A v \in Workers : Load'[<<"queue", v>>] = Load[<<"queue", v>>]
      BY <1>1, QueueLoad
    <3>2. \A v \in Workers : Load'[<<"run", v>>] = Load[<<"run", v>>]
      BY <1>1, RunLoad
    <3>3. \A u \in Threads : Load'[<<"submit", u>>] = Load[<<"submit", u>>]
      BY <1>1, SubmitLoad, SameStacks
    <3> QED BY <3>1, <3>2, <3>3
  <2>2. \A x \in Spots : Load'[x] = Load[x]
    BY <2>1, SpotKinds
  <2> QED BY <1>1, <2>2, LoadKept, SameStacks DEF HInv, OnceInv
<1> QED BY <1>4, <1>5, <1>6, <1>7 DEF HInv
-----------------------------------------------------------------------------
LEMMA HandlesInv == Spec => []HInv
<1>1. Init => HInv
  <2> SUFFICES ASSUME Init PROVE HInv
    OBVIOUS
  <2>1. /\ \A t \in Threads : stack[t] = <<>> /\ Submits(t) = {}
        /\ \A w \in Workers : In(queue[w]) = {} /\ Once(queue[w])
    BY DEF Init, Submits, At, In, Once
  <2>2. /\ \A v \in Workers : Load[<<"queue", v>>] = {} /\ Load[<<"run", v>>] = {}
        /\ \A u \in Threads : Load[<<"submit", u>>] = {}
    <3>1. \A v \in Workers : Load[<<"queue", v>>] = {}
      BY <2>1, QueueLoad DEF Init
    <3>2. \A v \in Workers : Load[<<"run", v>>] = {}
      BY <2>1, RunLoad DEF Init
    <3>3. \A u \in Threads : Load[<<"submit", u>>] = {}
      BY <2>1, SubmitLoad DEF Init
    <3> QED BY <3>1, <3>2, <3>3
  <2>3. \A x \in Spots : Load[x] = {}
    BY <2>2, SpotKinds
  <2>4. OnceInv /\ LoadInv /\ HeapInv
    BY <2>1, <2>3 DEF OnceInv, LoadInv, HeapInv, Init
  <2>5. JobInv /\ BuriedInv /\ StarveInv
    BY <2>1 DEF JobInv, BuriedInv, StarveInv, Starves, Init, Threads
  <2> QED BY <2>4, <2>5 DEF HInv
<1>2. IInv /\ HInv /\ [Next]_vars => HInv'
  <2> SUFFICES ASSUME IInv, HInv, [Next]_vars PROVE HInv'
    OBVIOUS
  <2>1. CASE UNCHANGED vars
    <3>1. UNCHANGED <<owner, stack, heapVars, queue, running, lpc, job>>
      BY <2>1 DEF vars, poolVars, loopVars
    <3>2. JobInv' /\ StarveInv'
      BY <3>1 DEF HInv, JobInv, StarveInv, Starves, Top, heapVars
    <3> QED BY <3>1, <3>2, RestHandles
  <2>2. ASSUME NEW c \in Callers, NEW f \in Fns, Call(c, f) PROVE HInv'
    BY <2>2, CallHandles
  <2>3. ASSUME NEW t \in Threads, CallStep(t) PROVE HInv'
    <3>1. CASE LockFails(t) \/ HostCall(t) \/ MakePromise(t) \/ Submit(t)
      BY <3>1, LockFailsHandles, HostCallHandles, MakePromiseHandles, SubmitHandles
    <3>2. CASE Failed(t) \/ Result(t) \/ AwaitResult(t)
      BY <3>2, ReturnHandles
    <3>3. CASE Lock(t) \/ MakeNothing(t) \/ AwaitUnlock(t) \/ See(t) \/ Deadline(t)
      BY <3>3, MoveHandles
    <3>4. ASSUME NEW k \in Kinds, NewLooper(t, k) \/ JoinLooper(t, k) \/ JoinSelf(t, k) PROVE HInv'
      BY <3>4, MoveHandles, JoinSelfHandles
    <3> QED BY <2>3, <3>1, <3>2, <3>3, <3>4 DEF CallStep
  <2>4. ASSUME NEW w \in Workers, WorkerStep(w) PROVE HInv'
    BY <2>4, BeginHandles, WorkLockHandles, WorkLockFailsHandles, WorkHandles DEF WorkerStep
  <2>5. ASSUME NEW l \in Loops, LoopLock(l) \/ LoopStep(l) PROVE HInv'
    BY <2>5, LoopLockHandles, TimerBeginHandles, JobBeginHandles, JobEndHandles, LoopUnlockHandles DEF LoopStep
  <2> QED BY <2>1, <2>2, <2>3, <2>4, <2>5 DEF Next
<1> QED BY <1>1, <1>2, InvHolds, PTL DEF Spec

(* For any script, any number of Workers and promises: a handle is in      *)
(* promiseCache exactly while its task is at one place, and there once     *)
(* (JSVM.cxx:486-540).                                                     *)
THEOREM HandlesAccounted == Spec => []HandleAccounting
<1>1. IInv /\ HInv => HandleAccounting
  <2> SUFFICES ASSUME IInv, HInv, NEW p \in Promises
               PROVE  Cardinality(Places(p)) = IF p \in cache THEN 1 ELSE 0
    BY DEF HandleAccounting
  <2> DEFINE S == {x \in Spots : p \in Load[x]}
  <2>0. \A x \in Spots : x \in S <=> p \in Load[x]
    OBVIOUS
  <2> HIDE DEF S
  <2>1. /\ \A w \in Workers : <<"queue", w>> \in S <=> \E j \in DOMAIN queue[w] : queue[w][j] = p
        /\ \A w \in Workers : <<"run", w>> \in S <=> running[w] = p
        /\ \A t \in Threads : <<"submit", t>> \in S <=> At(t, "submit") /\ Top(t).promise = p
    <3>1. /\ \A w \in Workers : <<"queue", w>> \in Spots /\ <<"run", w>> \in Spots
          /\ \A t \in Threads : <<"submit", t>> \in Spots
      BY DEF Spots
    <3>2. \A w \in Workers : <<"queue", w>> \in S <=> \E j \in DOMAIN queue[w] : queue[w][j] = p
      <4>1. ASSUME NEW w \in Workers
            PROVE  <<"queue", w>> \in S <=> \E j \in DOMAIN queue[w] : queue[w][j] = p
        <5>1. Load[<<"queue", w>>] = In(queue[w])
          BY QueueLoad
        <5>2. p \in In(queue[w]) <=> \E j \in DOMAIN queue[w] : queue[w][j] = p
          BY DEF In
        <5> QED BY <2>0, <3>1, <5>1, <5>2
      <4> QED BY <4>1
    <3>3. \A w \in Workers : <<"run", w>> \in S <=> running[w] = p
      BY <2>0, <3>1, RunLoad, Sentinels
    <3>4. \A t \in Threads : <<"submit", t>> \in S <=> At(t, "submit") /\ Top(t).promise = p
      BY <2>0, <3>1, SubmitLoad DEF Submits
    <3> QED BY <3>2, <3>3, <3>4
  <2>2. Places(p) = {<<x[1], x[2], 0>> : x \in S}
    <3>1. \A x \in S : x \in Spots
      BY DEF S
    <3>2. ASSUME NEW y \in Places(p) PROVE \E x \in S : y = <<x[1], x[2], 0>>
      <4>1. CASE \E w \in Workers : y = <<"queue", w, 0>> /\ \E j \in DOMAIN queue[w] : queue[w][j] = p
        <5>1. PICK w \in Workers : y = <<"queue", w, 0>> /\ <<"queue", w>> \in S
          BY <2>1, <4>1
        <5> QED BY <5>1
      <4>2. CASE \E w \in Workers : y = <<"run", w, 0>> /\ running[w] = p
        <5>1. PICK w \in Workers : y = <<"run", w, 0>> /\ <<"run", w>> \in S
          BY <2>1, <4>2
        <5> QED BY <5>1
      <4>3. CASE \E t \in Threads : y = <<"submit", t, 0>> /\ At(t, "submit") /\ Top(t).promise = p
        <5>1. PICK t \in Threads : y = <<"submit", t, 0>> /\ <<"submit", t>> \in S
          BY <2>1, <4>3
        <5> QED BY <5>1
      <4> QED BY <3>2, <4>1, <4>2, <4>3 DEF Places
    <3>3. ASSUME NEW x \in S PROVE <<x[1], x[2], 0>> \in Places(p)
      <4>1. CASE \E w \in Workers : x = <<"queue", w>>
        <5>1. PICK w \in Workers : x = <<"queue", w>> /\ \E j \in DOMAIN queue[w] : queue[w][j] = p
          BY <2>1, <4>1
        <5>2. x[1] = "queue" /\ x[2] = w
          BY <5>1
        <5> QED BY <5>1, <5>2 DEF Places
      <4>2. CASE \E w \in Workers : x = <<"run", w>>
        <5>1. PICK w \in Workers : x = <<"run", w>> /\ running[w] = p
          BY <2>1, <4>2
        <5>2. x[1] = "run" /\ x[2] = w
          BY <5>1
        <5> QED BY <5>1, <5>2 DEF Places
      <4>3. CASE \E t \in Threads : x = <<"submit", t>>
        BY <2>1, <4>3 DEF Places
      <4> QED BY <3>1, <4>1, <4>2, <4>3, SpotKinds
    <3> QED BY <3>2, <3>3
  <2>3. CASE p \in cache
    <3>1. PICK x \in Spots : p \in Load[x]
      BY <2>3 DEF HInv, LoadInv
    <3>2. S = {x}
      BY <3>1 DEF HInv, LoadInv, S
    <3>3. Places(p) = {<<x[1], x[2], 0>>}
      BY <2>2, <3>2
    <3>4. Cardinality({<<x[1], x[2], 0>>}) = 1
      BY FS_Singleton
    <3> QED BY <2>3, <3>3, <3>4
  <2>4. CASE p \notin cache
    <3>1. S = {}
      BY <2>4 DEF HInv, LoadInv, S
    <3> QED BY <2>2, <2>4, <3>1, FS_EmptySet
  <2> QED BY <2>3, <2>4
<1> QED BY <1>1, InvHolds, HandlesInv, PTL

(* For any script and any pool: a promise that is not resolved has its work *)
(* ahead of it or was dropped for want of vmMutex, and what was dropped is  *)
(* never resolved (JSVM.cxx:486-540, BaseVM.cxx:8-41).                      *)
THEOREM PendingAccounted == Spec => []PendingExplained
<1>1. HInv => PendingExplained
  BY DEF HInv, HeapInv, LoadInv, PendingExplained, Spots
<1> QED BY <1>1, HandlesInv, PTL

(* However deep calls nest: one that awaits its own promise inside another  *)
(* call waits in vain, as the outer level of vmMutex keeps the Workers out  *)
(* (JSVM.cxx:427-484).                                                      *)
THEOREM NestedAwaitsStarve == Spec => []NestedAwaitStarves
<1>1. IInv /\ HInv => NestedAwaitStarves
  <2> SUFFICES ASSUME IInv, HInv, NEW t \in Threads, At(t, "await"), Levels(t) > 0,
                      Top(t).promise \in Promises
               PROVE  promise[Top(t).promise] = "pending"
    BY DEF NestedAwaitStarves
  <2>1. Levels(t) = Lev[t]
    BY DEF Levels, Lev, Works, Rounds, Count, Hold
  <2>2. owner = t
    BY <2>1 DEF IInv, LockInv, Balanced
  <2> QED BY <2>2 DEF HInv, StarveInv, Starves, At, Since
<1> QED BY <1>1, InvHolds, HandlesInv, PTL
=============================================================================
