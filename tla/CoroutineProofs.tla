--------------------------- MODULE CoroutineProofs --------------------------
(***************************************************************************)
(* Proofs about the coroutines of src/base: the lock they wait for,        *)
(* CoMutex, for any of them on any loops, and what runs them, CoroRunner,  *)
(* for any number of tasks, coroutines and resumers.                       *)
(***************************************************************************)
EXTENDS CoroRunner, CoMutex, TLAPS

-----------------------------------------------------------------------------
(* CoMutex: one owner at most, granted first come, first served.           *)

\* The parts of the inductive invariant.
USE DEF MutexInv

LEMMA MutexInitHolds == MutexInit => MutexInv
<1> SUFFICES ASSUME MutexInit PROVE MutexInv
  OBVIOUS
<1>1. MutexTypeOK
  <2>1. locked \in BOOLEAN /\ remote \in SUBSET Users
    BY Zenon DEF MutexInit
  <2>4. waiters \in Seq(Users)
    BY DEF MutexInit
  <2>2. pc \in [Users -> PC]
    BY DEF MutexInit, PC
  <2>3. handing \in [Users -> Users \cup {None}]
    BY DEF MutexInit
  <2> QED
    BY <2>1, <2>2, <2>3, <2>4 DEF MutexTypeOK
<1>2. \A c \in Users : ~Owns(c)
  BY Zenon DEF MutexInit, Owns
<1>3. OwnerInv /\ HandoverInv
  BY <1>2 DEF MutexInit, OwnerInv, HandoverInv
<1>4. QueueInv /\ LoopInv
  BY DEF MutexInit, QueueInv, LoopInv
<1> QED
  BY <1>1, <1>3, <1>4

LEMMA LockFreeStep ==
  ASSUME MutexInv, NEW c \in Users, LockFree(c) PROVE MutexInv'
<1>1. MutexTypeOK'
  BY DEF MutexTypeOK, PC, LockFree, Goto
<1>2. OwnerInv'
  BY DEF MutexTypeOK, OwnerInv, Owns, LockFree, Goto
<1>3. HandoverInv'
  BY DEF HandoverInv, LockFree, Goto
<1>4. QueueInv'
  BY DEF QueueInv, Owns, LockFree, Goto
<1>5. LoopInv'
  BY CorosAssumption DEF MutexTypeOK, LoopInv, LoopFree, LockFree, Goto
<1> QED
  BY <1>1, <1>2, <1>3, <1>4, <1>5

LEMMA LockTakenStep ==
  ASSUME MutexInv, NEW c \in Users, LockTaken(c) PROVE MutexInv'
<1>1. MutexTypeOK'
  BY DEF MutexTypeOK, PC, LockTaken, Goto
<1>2. OwnerInv'
  BY DEF OwnerInv, Owns, LockTaken, Goto
<1>3. HandoverInv'
  BY DEF HandoverInv, LockTaken, Goto
<1>4. QueueInv'
  BY DEF MutexTypeOK, HandoverInv, QueueInv, Owns, LockTaken, Goto
<1>5. LoopInv'
  BY CorosAssumption DEF MutexTypeOK, LoopInv, LoopFree, LockTaken, Goto
<1> QED
  BY <1>1, <1>2, <1>3, <1>4, <1>5

LEMMA YieldStep ==
  ASSUME MutexInv, NEW c \in Users, Yield(c) PROVE MutexInv'
<1>1. MutexTypeOK'
  BY DEF MutexTypeOK, PC, Yield, Goto
<1>2. OwnerInv'
  BY DEF OwnerInv, Owns, Yield, Goto
<1>3. HandoverInv'
  BY DEF HandoverInv, Yield, Goto
<1>4. QueueInv'
  BY DEF QueueInv, Owns, Yield, Goto
<1>5. LoopInv'
  BY CorosAssumption DEF MutexTypeOK, LoopInv, LoopFree, Yield, Goto
<1> QED
  BY <1>1, <1>2, <1>3, <1>4, <1>5

LEMMA LockReturnsStep ==
  ASSUME MutexInv, NEW c \in Users, LockReturns(c) PROVE MutexInv'
<1>1. MutexTypeOK'
  BY DEF MutexTypeOK, PC, LockReturns, Goto
<1>2. OwnerInv'
  BY DEF OwnerInv, Owns, LockReturns, Goto
<1>3. HandoverInv'
  BY DEF HandoverInv, LockReturns, Goto
<1>4. QueueInv'
  BY DEF QueueInv, Owns, LockReturns, Goto
<1>5. LoopInv'
  BY CorosAssumption DEF MutexTypeOK, LoopInv, LoopFree, LockReturns, Goto
<1> QED
  BY <1>1, <1>2, <1>3, <1>4, <1>5

LEMMA UnlockHandStep ==
  ASSUME MutexInv, NEW c \in Users, UnlockHand(c) PROVE MutexInv'
<1>1. MutexTypeOK'
  BY DEF MutexTypeOK, PC, UnlockHand, Goto
<1>2. OwnerInv'
  BY DEF MutexTypeOK, OwnerInv, HandoverInv, QueueInv, Owns, UnlockHand, Goto
<1>3. HandoverInv'
  BY DEF MutexTypeOK, HandoverInv, QueueInv, Owns, UnlockHand, Goto
<1>4. QueueInv'
  BY DEF MutexTypeOK, QueueInv, Owns, UnlockHand, Goto
<1>5. LoopInv'
  BY CorosAssumption DEF MutexTypeOK, LoopInv, LoopFree, UnlockHand, Goto
<1> QED
  BY <1>1, <1>2, <1>3, <1>4, <1>5

LEMMA RunRemoteStep ==
  ASSUME MutexInv, NEW c \in Users, RunRemote(c) PROVE MutexInv'
<1>1. MutexTypeOK'
  BY DEF MutexTypeOK, PC, RunRemote, Goto
<1>2. OwnerInv'
  BY DEF MutexTypeOK, OwnerInv, HandoverInv, Owns, RunRemote
<1>3. HandoverInv'
  BY DEF HandoverInv, RunRemote
<1>4. QueueInv'
  BY DEF QueueInv, Owns, RunRemote
<1>5. LoopInv'
  BY CorosAssumption DEF MutexTypeOK, LoopInv, LoopFree, RunRemote, Goto
<1> QED
  BY <1>1, <1>2, <1>3, <1>4, <1>5

LEMMA UnlockFreeStep ==
  ASSUME MutexInv, NEW c \in Users, UnlockFree(c) PROVE MutexInv'
<1>1. MutexTypeOK'
  BY Zenon DEF MutexTypeOK, PC, UnlockFree, Goto
<1>2. \A d \in Users : ~Owns(d)'
  BY DEF MutexTypeOK, OwnerInv, HandoverInv, Owns, UnlockFree, Goto
<1>3. OwnerInv'
  BY <1>2 DEF MutexTypeOK, OwnerInv, UnlockFree, Goto
<1>4. HandoverInv'
  BY DEF MutexTypeOK, OwnerInv, HandoverInv, Owns, UnlockFree, Goto
<1>5. QueueInv' /\ LoopInv'
  BY DEF MutexTypeOK, QueueInv, LoopInv, UnlockFree, Goto
<1> QED
  BY <1>1, <1>3, <1>4, <1>5

LEMMA CallResumerStep ==
  ASSUME MutexInv, NEW c \in Users, CallResumer(c) PROVE MutexInv'
<1> DEFINE d == handing[c]
<1>1. d \in Users /\ d # c /\ pc[d] \in {"pushed", "waiting"} /\ Owns(d)
  BY DEF CallResumer, OwnerInv, HandoverInv, Owns
<1>2. LoopOf[d] = LoopOf[c] => pc[d] = "waiting"
  BY <1>1 DEF LoopInv, CallResumer
<1>3. \A e \in Users : e # c => pc[e] # "handing"
  BY DEF OwnerInv, CallResumer
<1>4. MutexTypeOK'
  BY <1>1 DEF MutexTypeOK, PC, CallResumer, Goto
<1>5. \A e \in Users : Owns(e)' <=> e = d
  BY <1>1, <1>2, <1>3 DEF MutexTypeOK, OwnerInv, Owns, CallResumer, Goto
<1>6. \A e \in Users : Owns(e) <=> e = d
  BY <1>1 DEF OwnerInv
<1>7. OwnerInv'
  BY <1>1, <1>3, <1>5 DEF MutexTypeOK, OwnerInv, CallResumer, Goto
<1>8. HandoverInv'
  BY <1>1, <1>2, <1>3, <1>6 DEF MutexTypeOK, HandoverInv, CallResumer, Goto
<1>9. QueueInv'
  <2>1. waiters' = waiters /\ waiters \in Seq(Users)
    BY DEF CallResumer, MutexTypeOK
  <2>2. \A i \in DOMAIN waiters : waiters[i] \in Users /\ waiters[i] # d /\ waiters[i] # c
    BY <2>1, <1>1 DEF QueueInv, CallResumer
  <2> QED
    <3>1. \A i \in DOMAIN waiters : pc'[waiters[i]] = pc[waiters[i]] /\ ~Owns(waiters[i])'
      BY <2>2, <1>5 DEF MutexTypeOK, CallResumer, Goto
    <3> QED
      BY <2>1, <3>1, Zenon DEF QueueInv
<1>10. LoopInv'
  BY <1>1 DEF MutexTypeOK, LoopInv, CallResumer, Goto
<1> QED
  BY <1>4, <1>7, <1>8, <1>9, <1>10

LEMMA MutexInvariant == MutexSpec => []MutexInv
<1>1. ASSUME MutexInv, [MutexNext]_mutexVars PROVE MutexInv'
  <2>1. CASE UNCHANGED mutexVars
    <3>1. \A c \in Users : Owns(c)' <=> Owns(c)
      BY <2>1, Zenon DEF mutexVars, Owns
    <3>2. MutexTypeOK' /\ HandoverInv' /\ LoopInv'
      BY <1>1, <2>1, Zenon DEF mutexVars, MutexTypeOK, HandoverInv, LoopInv
    <3>3. OwnerInv'
      BY <1>1, <2>1, <3>1, Zenon DEF mutexVars, OwnerInv
    <3>4. QueueInv'
      <4>1. \A i \in DOMAIN waiters : waiters[i] \in Users
        BY <1>1 DEF MutexTypeOK
      <4> QED BY <1>1, <2>1, <3>1, <4>1, Zenon DEF mutexVars, QueueInv
    <3> QED BY <3>2, <3>3, <3>4
  <2>2. ASSUME NEW c \in Users, Step(c) PROVE MutexInv'
    BY <1>1, <2>2, LockFreeStep, LockTakenStep, YieldStep, LockReturnsStep, UnlockFreeStep,
       UnlockHandStep, CallResumerStep, RunRemoteStep DEF Step
  <2> QED
    BY <1>1, <2>1, <2>2 DEF MutexNext
<1> QED
  BY <1>1, MutexInitHolds, PTL DEF MutexSpec

\* In every reachable state at most one coroutine is between lock and unlock,
\* whatever the loops, the hand-overs and the remote resumes under way.
THEOREM MutexCorrect == MutexSpec => []MutualExclusion
<1>1. MutexInv => MutualExclusion
  BY DEF OwnerInv, Owns, MutualExclusion
<1> QED
  BY <1>1, MutexInvariant, PTL

\* The owner that the refinement names is the coroutine that owns the lock.
LEMMA OwnerIs ==
  ASSUME MutexInv, NEW c \in Users, Owns(c) PROVE Owner = c /\ locked
BY DEF OwnerInv, Owner

LEMMA OwnerIsNext ==
  ASSUME MutexInv', NEW c \in Users, Owns(c)' PROVE Owner' = c /\ locked'
BY DEF OwnerInv, Owner

LEMMA OwnerExists ==
  ASSUME MutexInv, locked PROVE \E c \in Users : Owns(c) /\ Owner = c
BY OwnerIs DEF OwnerInv

\* A step that takes the ownership from nobody, and leaves the queue, stutters.
LEMMA OwnerKept ==
  ASSUME MutexInv, MutexInv', locked' = locked, \A c \in Users : Owns(c) => Owns(c)'
  PROVE  Owner' = Owner
<1>1. CASE locked
  BY <1>1, OwnerExists, OwnerIsNext
<1>2. CASE ~locked
  BY <1>2 DEF Owner, OwnerInv
<1> QED
  BY <1>1, <1>2

LEMMA LockStep ==
  ASSUME MutexInv, MutexInv', NEW c \in Users, Step(c)
  PROVE  Lock!Next \/ UNCHANGED <<Owner, waiters>>
<1>1. CASE LockFree(c)
  <2>1. Owner = None
    BY <1>1 DEF LockFree, Owner, OwnerInv
  <2>2. Owns(c)'
    BY <1>1 DEF LockFree, Goto, Owns, MutexTypeOK
  <2> QED
    BY <1>1, <2>1, <2>2, OwnerIsNext DEF LockFree, Lock!Next, Lock!Acquire
<1>2. CASE LockTaken(c)
  <2>1. Owner # None
    BY <1>2, OwnerExists, CorosAssumption DEF LockTaken
  <2>2. Owner' = Owner
    <3>1. \A d \in Users : Owns(d) => Owns(d)'
      BY <1>2 DEF LockTaken, Goto, Owns, MutexTypeOK
    <3> QED
      BY <1>2, <3>1, OwnerKept DEF LockTaken
  <2> QED
    BY <1>2, <2>1, <2>2 DEF LockTaken, Lock!Next, Lock!Await
<1>3. CASE Yield(c) \/ LockReturns(c) \/ RunRemote(c)
  <2>1. \A d \in Users : Owns(d) => Owns(d)'
    <3>1. CASE Yield(c)
      BY <3>1 DEF Yield, Goto, Owns, MutexTypeOK
    <3>2. CASE LockReturns(c)
      BY <3>2 DEF LockReturns, Goto, Owns, MutexTypeOK
    <3>3. CASE RunRemote(c)
      BY <3>3 DEF RunRemote, Goto, Owns, MutexTypeOK, HandoverInv
    <3> QED BY <1>3, <3>1, <3>2, <3>3
  <2> QED
    BY <1>3, <2>1, OwnerKept DEF Yield, LockReturns, RunRemote
<1>4. CASE UnlockFree(c)
  <2>1. Owner = c /\ Owner' = None
    BY <1>4, OwnerIs DEF UnlockFree, Owns, Owner, OwnerInv
  <2> QED
    BY <1>4, <2>1, CorosAssumption DEF UnlockFree, Lock!Next, Lock!Release
<1>5. CASE UnlockHand(c)
  <2>1. Owner = c
    BY <1>5, OwnerIs DEF UnlockHand, Owns
  <2>2. PICK d \in Users : d = Head(waiters)
    BY <1>5 DEF UnlockHand, MutexTypeOK
  <2>3. Owns(d)'
    BY <1>5, <2>2 DEF UnlockHand, Owns, Goto, MutexTypeOK
  <2>4. Owner' = Head(waiters)
    BY <2>2, <2>3, OwnerIsNext
  <2> QED
    BY <1>5, <2>1, <2>4, CorosAssumption DEF UnlockHand, Lock!Next, Lock!Release
<1>6. CASE CallResumer(c)
  <2>1. PICK d \in Users : d = handing[c] /\ Owns(d)
    BY <1>6 DEF CallResumer, OwnerInv, Owns
  <2>2. Owner = d /\ locked
    BY <2>1, OwnerIs
  <2>3. PICK e \in Users : Owns(e)'
    BY <1>6, <2>2 DEF CallResumer, OwnerInv
  <2>4. Owns(e)
    BY <1>6, <2>1, <2>3 DEF CallResumer, Goto, Owns, MutexTypeOK
  <2>5. e = d
    BY <2>1, <2>4 DEF OwnerInv
  <2> QED
    BY <1>6, <2>2, <2>3, <2>5, OwnerIsNext DEF CallResumer
<1> QED
  BY <1>1, <1>2, <1>3, <1>4, <1>5, <1>6 DEF Step

\* The mutex implements the lock with one owner that is granted in the order of
\* the calls of lock that found it taken.
THEOREM LockCorrect == MutexSpec => LockSpec
<1>1. MutexInit => Lock!Init
  BY MutexInitHolds DEF MutexInit, Lock!Init, Owner, OwnerInv
<1>2. MutexInv /\ MutexInv' /\ [MutexNext]_mutexVars => [Lock!Next]_<<Owner, waiters>>
  <2> SUFFICES ASSUME MutexInv, MutexInv', [MutexNext]_mutexVars
               PROVE  Lock!Next \/ UNCHANGED <<Owner, waiters>>
    OBVIOUS
  <2>1. CASE UNCHANGED mutexVars
    BY <2>1, OwnerKept DEF mutexVars, Owns
  <2>2. CASE MutexNext
    BY <2>2, LockStep DEF MutexNext
  <2> QED
    BY <2>1, <2>2
<1> QED
  BY <1>1, <1>2, MutexInvariant, PTL DEF MutexSpec, LockSpec, Lock!Spec

-----------------------------------------------------------------------------
(* Sequences as the sets of their elements.                                *)

Elems(s) == {s[i] : i \in 1..Len(s)}
NoRepeat(s) == \A i, j \in 1..Len(s) : s[i] = s[j] => i = j

LEMMA AppendFacts ==
  ASSUME NEW S, NEW s \in Seq(S), NEW x \in S
  PROVE  /\ Append(s, x) \in Seq(S)
         /\ Elems(Append(s, x)) = Elems(s) \cup {x}
         /\ NoRepeat(s) /\ x \notin Elems(s) => NoRepeat(Append(s, x))
<1>1. Append(s, x) \in Seq(S) /\ Len(Append(s, x)) = Len(s) + 1 /\ Len(s) \in Nat
  OBVIOUS
<1>2. \A i \in 1..Len(s) : Append(s, x)[i] = s[i]
  OBVIOUS
<1>3. Append(s, x)[Len(s) + 1] = x
  OBVIOUS
<1>4. Elems(Append(s, x)) = Elems(s) \cup {x}
  <2>1. \A y \in Elems(Append(s, x)) : y \in Elems(s) \cup {x}
    BY <1>1, <1>2, <1>3 DEF Elems
  <2>2. \A y \in Elems(s) : y \in Elems(Append(s, x))
    BY <1>1, <1>2 DEF Elems
  <2>3. x \in Elems(Append(s, x))
    BY <1>1, <1>3 DEF Elems
  <2> QED BY <2>1, <2>2, <2>3
<1>5. NoRepeat(s) /\ x \notin Elems(s) => NoRepeat(Append(s, x))
  BY <1>1, <1>2, <1>3 DEF NoRepeat, Elems
<1> QED BY <1>1, <1>4, <1>5

LEMMA TailFacts ==
  ASSUME NEW S, NEW s \in Seq(S), s # <<>>
  PROVE  /\ Tail(s) \in Seq(S) /\ Head(s) \in S
         /\ Elems(s) = Elems(Tail(s)) \cup {Head(s)}
         /\ NoRepeat(s) => NoRepeat(Tail(s)) /\ Head(s) \notin Elems(Tail(s))
<1>1. /\ Tail(s) \in Seq(S) /\ Len(Tail(s)) = Len(s) - 1 /\ Len(s) \in Nat \ {0} /\ Head(s) \in S
      /\ \A i \in 1..Len(Tail(s)) : Tail(s)[i] = s[i + 1]
  OBVIOUS
<1>2. Head(s) = s[1]
  OBVIOUS
<1>3. Elems(s) = Elems(Tail(s)) \cup {Head(s)}
  <2>1. ASSUME NEW i \in 1..Len(s) PROVE s[i] \in Elems(Tail(s)) \cup {Head(s)}
    <3>1. CASE i = 1
      BY <1>2, <3>1
    <3>2. CASE i # 1
      <4>1. i - 1 \in 1..Len(Tail(s)) /\ Tail(s)[i - 1] = s[i]
        BY <1>1, <3>2
      <4> QED BY <4>1 DEF Elems
    <3> QED BY <3>1, <3>2
  <2>2. \A y \in Elems(Tail(s)) : y \in Elems(s)
    BY <1>1 DEF Elems
  <2>3. Head(s) \in Elems(s)
    BY <1>1, <1>2 DEF Elems
  <2> QED BY <2>1, <2>2, <2>3 DEF Elems
<1>4. NoRepeat(s) => NoRepeat(Tail(s))
  BY <1>1 DEF NoRepeat
<1>5. NoRepeat(s) => Head(s) \notin Elems(Tail(s))
  BY <1>1, <1>2 DEF NoRepeat, Elems
<1> QED BY <1>1, <1>3, <1>4, <1>5

LEMMA EmptyFacts == Elems(<<>>) = {} /\ NoRepeat(<<>>)
  BY DEF Elems, NoRepeat

\* What the three lists hold, when gc_list_ is empty
LEMMA ListsFacts ==
  ASSUME NEW S, NEW s \in Seq(S), NEW t \in Seq(S)
  PROVE  /\ s \o t \o <<>> = s \o t
         /\ Range(s \o t) = Elems(s) \cup Elems(t)
         /\ NoRepeat(s) /\ NoRepeat(t) /\ Elems(s) \cap Elems(t) = {} =>
              \A i, j \in DOMAIN (s \o t) : (s \o t)[i] = (s \o t)[j] => i = j
<1>1. /\ s \o t \in Seq(S) /\ DOMAIN (s \o t) = 1..Len(s) + Len(t)
      /\ Len(s) \in Nat /\ Len(t) \in Nat
      /\ \A i \in 1..Len(s) + Len(t) : (s \o t)[i] = IF i <= Len(s) THEN s[i] ELSE t[i - Len(s)]
  OBVIOUS
<1>2. s \o t \o <<>> = s \o t
  BY <1>1
<1>3. Range(s \o t) = Elems(s) \cup Elems(t)
  <2>1. ASSUME NEW i \in 1..Len(s) + Len(t) PROVE (s \o t)[i] \in Elems(s) \cup Elems(t)
    BY <1>1 DEF Elems
  <2>2. ASSUME NEW i \in 1..Len(s) PROVE s[i] \in Range(s \o t)
    <3>1. i \in DOMAIN (s \o t) /\ (s \o t)[i] = s[i]
      BY <1>1
    <3> QED BY <3>1 DEF Range
  <2>3. ASSUME NEW i \in 1..Len(t) PROVE t[i] \in Range(s \o t)
    <3>1. i + Len(s) \in DOMAIN (s \o t) /\ (s \o t)[i + Len(s)] = t[i]
      BY <1>1
    <3> QED BY <3>1 DEF Range
  <2> QED BY <1>1, <2>1, <2>2, <2>3 DEF Elems, Range
<1>4. ASSUME NoRepeat(s), NoRepeat(t), Elems(s) \cap Elems(t) = {},
             NEW i \in DOMAIN (s \o t), NEW j \in DOMAIN (s \o t), (s \o t)[i] = (s \o t)[j]
      PROVE  i = j
  <2>1. \A k \in 1..Len(s), l \in 1..Len(t) : s[k] # t[l]
    BY <1>4 DEF Elems
  <2> QED BY <1>1, <1>4, <2>1 DEF NoRepeat
<1> QED BY <1>2, <1>3, <1>4

-----------------------------------------------------------------------------
(* The invariant.                                                          *)

Runs == [tasks : Seq(Items), queue : {"none", "remote_sched", "g_remote"}, max : Nat]

Types ==
  /\ current \in Coros \cup {Main}
  /\ ready_list \in Seq(Coros) /\ freelist \in Seq(Coros) /\ gc_list = <<>>
  /\ alive \subseteq Coros /\ unborn \subseteq Coros /\ alive \cap unborn = {}
  /\ resume_id \in [Coros -> Nat]
  /\ task \in [Coros -> Tasks \cup {NoTask}]
  /\ run \in Runs
  /\ remote_sched \in Seq(Items) /\ sched_tasks \in Seq(Items) /\ g_remote \in Seq(Items)
  /\ resumers \subseteq Coros \X Nat /\ called \subseteq resumers

\* Every coroutine that is on a list exists, does not run, and is on no other.
ListInv ==
  /\ NoRepeat(ready_list) /\ NoRepeat(freelist) /\ Elems(ready_list) \cap Elems(freelist) = {}
  /\ Elems(ready_list) \cup Elems(freelist) \subseteq alive \ {current}
  /\ current # Main => current \in alive

\* A resumer is of a past or of the present resume id; of the present one, the coroutine
\* has yielded in its task.
ResumerInv ==
  \A c \in Coros, id \in Nat : <<c, id>> \in resumers =>
    id <= resume_id[c] /\ (id = resume_id[c] => task[c] # NoTask /\ c # current)

ReadyInv == \A c \in Elems(ready_list) : task[c] # NoTask /\ <<c, resume_id[c]>> \in called

\* A do_resume that waits in some queue is of a resumer that was called.
Queued == Elems(remote_sched) \cup Elems(sched_tasks) \cup Elems(g_remote) \cup Elems(run.tasks)
QueuedInv == \A x \in Queued : x.kind = "resume" => x.what \in called

RInv == Types /\ ListInv /\ ResumerInv /\ ReadyInv /\ QueuedInv

LEMMA InitHolds == ASSUME Init PROVE RInv
<1>1. Types
  <2>1. run \in Runs
    <3>1. run = [tasks |-> <<>>, queue |-> "none", max |-> 0]
      BY Zenon DEF Init
    <3>2. <<>> \in Seq(Items)
      OBVIOUS
    <3> QED BY ONLY <3>1, <3>2, Zenon DEF Runs
  <2> QED BY <2>1 DEF Init, Types
<1>2. Queued = {} /\ Elems(ready_list) = {} /\ Elems(freelist) = {}
  BY EmptyFacts DEF Init, Queued
<1> QED BY <1>1, <1>2, EmptyFacts DEF Init, RInv, ListInv, ResumerInv, ReadyInv, QueuedInv

\* do_resume appends a coroutine only in the yield of the resumer, and only when it is on
\* no list.
LEMMA DoResumeKeeps ==
  ASSUME RInv, NEW c \in Coros, NEW id \in Nat, do_resume(c, id), <<c, id>> \in resumers, <<c, id>> \in called',
         called \subseteq called', UNCHANGED <<current, freelist, gc_list, alive, resume_id, task>>
  PROVE  ready_list' \in Seq(Coros) /\ ListInv' /\ ReadyInv'
<1> USE DEF RInv
<1>1. CASE ready_list' = ready_list
  BY <1>1 DEF Types, ListInv, ReadyInv
<1>2. CASE ready_list' # ready_list
  <2>1. ready_list' = Append(ready_list, c) /\ c \in alive /\ resume_id[c] = id
    BY <1>2 DEF do_resume
  <2>2. c \notin Range(ready_list \o freelist \o gc_list)
    BY <1>2 DEF do_resume
  <2>3. c \notin Elems(ready_list) \cup Elems(freelist)
    <3>1. ready_list \in Seq(Coros) /\ freelist \in Seq(Coros) /\ gc_list = <<>>
      BY Zenon DEF Types
    <3>2. /\ ready_list \o freelist \o <<>> = ready_list \o freelist
          /\ Range(ready_list \o freelist) = Elems(ready_list) \cup Elems(freelist)
      BY ONLY <3>1, ListsFacts
    <3> QED BY <2>2, <3>1, <3>2, Zenon
  <2>4. /\ ready_list' \in Seq(Coros) /\ Elems(ready_list') = Elems(ready_list) \cup {c}
        /\ NoRepeat(ready_list')
    <3>1. ready_list \in Seq(Coros) /\ NoRepeat(ready_list) /\ c \notin Elems(ready_list)
      BY <2>3, Zenon DEF Types, ListInv
    <3> QED BY ONLY <2>1, <3>1, AppendFacts, c \in Coros
  <2>5. task[c] # NoTask /\ c # current
    BY <2>1 DEF ResumerInv, Types
  <2>6. ListInv'
    BY <2>1, <2>3, <2>4, <2>5 DEF ListInv
  <2>7. ReadyInv'
    BY <2>1, <2>4, <2>5 DEF ReadyInv
  <2> QED BY <2>4, <2>6, <2>7
<1> QED BY <1>1, <1>2

-----------------------------------------------------------------------------
(* Other threads and events.                                               *)

LEMMA PublishKeeps == ASSUME RInv, NEW t \in Tasks, Publish(t) \/ PublishHere(t) PROVE RInv'
<1> USE DEF RInv
<1>1. Go(t) \in Items /\ Go(t).kind # "resume"
  BY DEF Go, Items
<1>2. UNCHANGED <<current, listVars, resume_id, task, run, remote_sched, resumers, called>>
  BY DEF Publish, PublishHere
<1>3. \/ g_remote' = Append(g_remote, Go(t)) /\ sched_tasks' = sched_tasks
      \/ sched_tasks' = Append(sched_tasks, Go(t)) /\ g_remote' = g_remote
  BY DEF Publish, PublishHere
<1>4. g_remote' \in Seq(Items) /\ sched_tasks' \in Seq(Items) /\ Queued' = Queued \cup {Go(t)}
  <2>1. CASE g_remote' = Append(g_remote, Go(t)) /\ sched_tasks' = sched_tasks
    <3>1. g_remote' \in Seq(Items) /\ Elems(g_remote') = Elems(g_remote) \cup {Go(t)}
      BY <1>1, <2>1, AppendFacts DEF Types
    <3> QED BY <1>2, <2>1, <3>1 DEF Types, Queued
  <2>2. CASE sched_tasks' = Append(sched_tasks, Go(t)) /\ g_remote' = g_remote
    <3>1. sched_tasks' \in Seq(Items) /\ Elems(sched_tasks') = Elems(sched_tasks) \cup {Go(t)}
      BY <1>1, <2>2, AppendFacts DEF Types
    <3> QED BY <1>2, <2>2, <3>1 DEF Types, Queued
  <2> QED BY <1>3, <2>1, <2>2
<1>5. Types'
  BY <1>2, <1>4 DEF Types, listVars
<1>6. QueuedInv'
  BY <1>1, <1>2, <1>4 DEF QueuedInv
<1> QED BY <1>2, <1>5, <1>6 DEF ListInv, ResumerInv, ReadyInv, listVars

LEMMA StealElsewhereKeeps == ASSUME RInv, StealElsewhere PROVE RInv'
<1> USE DEF RInv
<1>1. UNCHANGED <<current, listVars, resume_id, task, run, remote_sched, sched_tasks, resumers, called>>
  BY DEF StealElsewhere
<1>2. g_remote' \in Seq(Items) /\ Queued' \subseteq Queued
  <2>1. g_remote \in Seq(Items) /\ g_remote # <<>> /\ g_remote' = Tail(g_remote)
    BY DEF StealElsewhere, Types
  <2>2. g_remote' \in Seq(Items) /\ Elems(g_remote') \subseteq Elems(g_remote)
    BY ONLY <2>1, TailFacts
  <2> QED BY ONLY <1>1, <2>2 DEF Queued
<1>3. Types'
  BY <1>1, <1>2 DEF Types, listVars
<1> QED BY <1>1, <1>2, <1>3 DEF ListInv, ResumerInv, ReadyInv, QueuedInv, listVars

LEMMA ResumeElsewhereKeeps ==
  ASSUME RInv, NEW c \in Coros, NEW id \in Nat, ResumeElsewhere(c, id) PROVE RInv'
<1> USE DEF RInv
<1>1. Resumer(c, id) \in Items /\ Resumer(c, id).what = <<c, id>>
  BY DEF Resumer, Items
<1>2. /\ UNCHANGED <<current, listVars, resume_id, task, run, g_remote, sched_tasks, resumers>>
      /\ called' = called \cup {<<c, id>>} /\ <<c, id>> \in resumers
      /\ remote_sched' = Append(remote_sched, Resumer(c, id))
  BY DEF ResumeElsewhere
<1>3. remote_sched' \in Seq(Items) /\ Queued' = Queued \cup {Resumer(c, id)}
  <2>1. remote_sched' \in Seq(Items) /\ Elems(remote_sched') = Elems(remote_sched) \cup {Resumer(c, id)}
    BY <1>1, <1>2, AppendFacts DEF Types
  <2> QED BY ONLY <1>2, <2>1 DEF Queued
<1>4. Types'
  BY <1>2, <1>3 DEF Types, listVars
<1>5. QueuedInv'
  BY <1>1, <1>2, <1>3 DEF QueuedInv
<1> QED BY <1>2, <1>4, <1>5 DEF ListInv, ResumerInv, ReadyInv, listVars

LEMMA ResumeHereKeeps ==
  ASSUME RInv, NEW c \in Coros, NEW id \in Nat, ResumeHere(c, id) PROVE RInv'
<1> USE DEF RInv
<1>1. /\ UNCHANGED <<current, freelist, gc_list, alive, unborn, resume_id, task, run, queueVars, resumers>>
      /\ called' = called \cup {<<c, id>>} /\ <<c, id>> \in resumers /\ do_resume(c, id)
  BY DEF ResumeHere
<1>2. ready_list' \in Seq(Coros) /\ ListInv' /\ ReadyInv'
  BY <1>1, DoResumeKeeps
<1>3. Queued' = Queued
  BY <1>1 DEF Queued, queueVars
<1> QED BY <1>1, <1>2, <1>3 DEF Types, ResumerInv, QueuedInv, queueVars

-----------------------------------------------------------------------------
(* Run.                                                                    *)

\* A coroutine that exists and is on no list any more gets the thread.
LEMMA SwitchKeeps ==
  ASSUME RInv, NEW c \in Coros, SwitchContext(c), current = Main,
         UNCHANGED <<gc_list, task, run, queueVars, resumers, called>>,
         ready_list' \in Seq(Coros), freelist' \in Seq(Coros), NoRepeat(ready_list'), NoRepeat(freelist'),
         Elems(ready_list') \subseteq Elems(ready_list), Elems(freelist') \subseteq Elems(freelist),
         c \notin Elems(ready_list') \cup Elems(freelist'),
         alive \subseteq alive', c \in alive', alive' \subseteq Coros, unborn' \subseteq Coros, alive' \cap unborn' = {}
  PROVE  RInv'
<1> USE DEF RInv
<1>1. current' = c /\ resume_id' = [resume_id EXCEPT ![c] = @ + 1]
  BY DEF SwitchContext
<1>2. Types'
  <2>1. resume_id' \in [Coros -> Nat]
    BY <1>1 DEF Types
  <2> QED BY <1>1, <2>1 DEF Types, queueVars
<1>3. ListInv'
  BY <1>1, RunnerAssumption DEF ListInv
<1>4. ResumerInv'
  BY <1>1 DEF ResumerInv, Types
<1>5. ReadyInv'
  <2>1. \A d \in Elems(ready_list') : d # c /\ d \in Coros /\ resume_id'[d] = resume_id[d]
    BY <1>1 DEF Types, ListInv
  <2> QED BY <2>1 DEF ReadyInv
<1>6. QueuedInv'
  BY DEF QueuedInv, Queued, queueVars
<1> QED BY <1>2, <1>3, <1>4, <1>5, <1>6

LEMMA ResumeReadyKeeps == ASSUME RInv, ResumeReady PROVE RInv'
<1> USE DEF RInv
<1>1. /\ ready_list # <<>> /\ ready_list' = Tail(ready_list) /\ current = Main /\ SwitchContext(Head(ready_list))
      /\ UNCHANGED <<gc_list, task, run, queueVars, resumers, called, freelist, alive, unborn>>
  BY DEF ResumeReady, histVars
<1>2. /\ Head(ready_list) \in Coros /\ ready_list' \in Seq(Coros) /\ NoRepeat(ready_list')
      /\ Elems(ready_list) = Elems(ready_list') \cup {Head(ready_list)}
      /\ Head(ready_list) \notin Elems(ready_list')
  BY <1>1, TailFacts DEF Types, ListInv
<1>3. Head(ready_list) \in alive /\ Head(ready_list) \notin Elems(freelist')
  BY <1>1, <1>2 DEF ListInv
<1> QED BY <1>1, <1>2, <1>3, SwitchKeeps DEF Types, ListInv

LEMMA SpawnReusedKeeps == ASSUME RInv, SpawnReused PROVE RInv'
<1> USE DEF RInv
<1>1. /\ freelist # <<>> /\ freelist' = Tail(freelist) /\ current = Main /\ SwitchContext(Head(freelist))
      /\ UNCHANGED <<gc_list, task, run, queueVars, resumers, called, ready_list, alive, unborn>>
  BY DEF SpawnReused, histVars
<1>2. /\ Head(freelist) \in Coros /\ freelist' \in Seq(Coros) /\ NoRepeat(freelist')
      /\ Elems(freelist) = Elems(freelist') \cup {Head(freelist)}
      /\ Head(freelist) \notin Elems(freelist')
  BY <1>1, TailFacts DEF Types, ListInv
<1>3. Head(freelist) \in alive /\ Head(freelist) \notin Elems(ready_list')
  BY <1>1, <1>2 DEF ListInv
<1> QED BY <1>1, <1>2, <1>3, SwitchKeeps DEF Types, ListInv

LEMMA SpawnNewKeeps == ASSUME RInv, SpawnNew PROVE RInv'
<1> USE DEF RInv
<1>1. PICK c \in unborn : unborn' = unborn \ {c} /\ alive' = alive \cup {c} /\ SwitchContext(c)
  BY DEF SpawnNew
<1>2. current = Main /\ UNCHANGED <<gc_list, task, run, queueVars, resumers, called, ready_list, freelist>>
  BY DEF SpawnNew, histVars
<1>3. c \in Coros /\ c \notin alive
  BY <1>1 DEF Types
<1> QED BY <1>1, <1>2, <1>3, SwitchKeeps DEF Types, ListInv

\* A step that moves no coroutine, calls no resumer and enqueues nothing
LEMMA QuietKeeps ==
  ASSUME RInv, UNCHANGED <<current, listVars, resume_id, task, resumers, called>>,
         run' \in Runs,
         remote_sched' \in Seq(Items), sched_tasks' \in Seq(Items), g_remote' \in Seq(Items),
         Queued' \subseteq Queued
  PROVE  RInv'
<1> USE DEF RInv
<1>1. Types'
  BY DEF Types, listVars
<1> QED BY <1>1 DEF ListInv, ResumerInv, ReadyInv, QueuedInv, listVars

LEMMA RunFromKeeps == ASSUME RInv, RunRemoteSched \/ RunSchedTasks \/ RunGRemote PROVE RInv'
<1> USE DEF RInv
<1>1. UNCHANGED <<current, listVars, resume_id, task, resumers, called, remote_sched, g_remote>>
  BY DEF RunRemoteSched, RunSchedTasks, RunGRemote, histVars, queueVars
<1>2. CASE RunSchedTasks
  <2>1. run' = [tasks |-> sched_tasks, queue |-> "none", max |-> 0] /\ sched_tasks' = <<>>
    BY <1>2 DEF RunSchedTasks, RunFrom
  <2>2. Queued' \subseteq Queued
    BY <1>1, <2>1, EmptyFacts DEF Queued
  <2>3. run' \in Runs /\ sched_tasks' \in Seq(Items)
    BY <2>1 DEF Types, Runs
  <2> QED BY <1>1, <2>2, <2>3, QuietKeeps DEF Types
<1>3. CASE RunRemoteSched \/ RunGRemote
  <2>0. /\ sched_tasks' = sched_tasks
        /\ \/ run' = [tasks |-> <<>>, queue |-> "remote_sched", max |-> Len(remote_sched)]
           \/ run' = [tasks |-> <<>>, queue |-> "g_remote", max |-> Len(g_remote)]
    BY ONLY <1>3 DEF RunRemoteSched, RunGRemote, RunFrom, queueVars
  <2>1. sched_tasks' = sched_tasks /\ run'.tasks = <<>>
    BY ONLY <2>0
  <2>2. run' \in Runs
    <3>1. Len(remote_sched) \in Nat /\ Len(g_remote) \in Nat /\ <<>> \in Seq(Items)
      BY DEF Types
    <3>2. PICK q \in {"remote_sched", "g_remote"}, n \in Nat : run' = [tasks |-> <<>>, queue |-> q, max |-> n]
      BY ONLY <2>0, <3>1
    <3> QED BY ONLY <3>1, <3>2 DEF Runs
  <2>3. Queued' \subseteq Queued
    BY <1>1, <2>1, EmptyFacts DEF Queued
  <2> QED BY <1>1, <2>1, <2>2, <2>3, QuietKeeps DEF Types
<1> QED BY <1>2, <1>3

LEMMA PhaseKeeps ==
  ASSUME RInv, WakeUpIfNeeded \/ Pass \/ BeginRun \/ ReadyAgain \/ EndRun \/ UNCHANGED vars PROVE RInv'
<1>1. UNCHANGED <<current, listVars, resume_id, task, resumers, called, run, queueVars>>
  BY DEF WakeUpIfNeeded, Pass, BeginRun, ReadyAgain, EndRun, histVars, vars
<1>2. Queued' = Queued
  BY <1>1 DEF Queued, queueVars
<1> QED BY <1>1, <1>2, QuietKeeps DEF RInv, Types, queueVars

-----------------------------------------------------------------------------
(* Coroutines.                                                             *)

\* PopTask takes what it returns out of run_ or of the queue behind it.
LEMMA PopFacts ==
  ASSUME Types, PopTask
  PROVE  /\ run' \in Runs /\ remote_sched' \in Seq(Items) /\ g_remote' \in Seq(Items)
         /\ Popped \in Items /\ Popped \in Queued
         /\ Elems(remote_sched') \subseteq Elems(remote_sched)
         /\ Elems(g_remote') \subseteq Elems(g_remote) /\ Elems(run'.tasks) \subseteq Elems(run.tasks)
<1>1. CASE run.tasks # <<>>
  <2>1. run' = [run EXCEPT !.tasks = Tail(@)] /\ UNCHANGED <<remote_sched, g_remote>> /\ Popped = Head(run.tasks)
    BY <1>1 DEF PopTask, Popped
  <2>2. run.tasks \in Seq(Items) /\ run'.tasks = Tail(run.tasks)
    BY <2>1 DEF Types, Runs
  <2>3. /\ Tail(run.tasks) \in Seq(Items) /\ Popped \in Items
        /\ Elems(run.tasks) = Elems(Tail(run.tasks)) \cup {Popped}
    BY <1>1, <2>1, <2>2, TailFacts
  <2>4. run' \in Runs
    BY <2>1, <2>3 DEF Types, Runs
  <2> QED BY <2>1, <2>2, <2>3, <2>4 DEF Types, Queued
<1>2. CASE run.tasks = <<>>
  <2>1. run.max > 0 /\ Queue # <<>> /\ run' = [run EXCEPT !.max = @ - 1] /\ Popped = Head(Queue)
    BY <1>2 DEF PopTask, Popped
  <2>2. run' \in Runs /\ run'.tasks = run.tasks
    <3>1. run \in Runs /\ run.max - 1 \in Nat
      BY <2>1 DEF Types, Runs
    <3> QED BY <2>1, <3>1 DEF Runs
  <2>3. Queue \in Seq(Items) /\ Popped \in Items /\ Tail(Queue) \in Seq(Items)
        /\ Elems(Queue) = Elems(Tail(Queue)) \cup {Popped}
    BY <2>1, TailFacts DEF Queue, Types
  <2>4. \/ Queue = remote_sched /\ remote_sched' = Tail(remote_sched) /\ g_remote' = g_remote
        \/ Queue = g_remote /\ g_remote' = Tail(g_remote) /\ remote_sched' = remote_sched
    BY <1>2 DEF PopTask, Queue
  <2> QED BY <2>2, <2>3, <2>4 DEF Types, Queued
<1> QED BY <1>1, <1>2

LEMMA PopAndStartKeeps == ASSUME RInv, PopAndStart PROVE RInv'
<1> USE DEF RInv
<1>1. /\ current \in Coros /\ task[current] = NoTask /\ task' = [task EXCEPT ![current] = Popped.what]
      /\ PopTask /\ Popped.kind = "go"
      /\ UNCHANGED <<current, listVars, resume_id, sched_tasks, resumers, called>>
  BY DEF PopAndStart
<1>2. Popped.what \in Tasks
  BY <1>1, PopFacts DEF Items
<1>3. Types'
  <2>1. task' \in [Coros -> Tasks \cup {NoTask}]
    BY <1>1, <1>2 DEF Types
  <2> QED BY <1>1, <2>1, PopFacts DEF Types, listVars
<1>4. \A c \in Coros : c # current => task'[c] = task[c]
  BY <1>1 DEF Types
<1>5. ListInv' /\ ResumerInv'
  BY <1>1, <1>4 DEF ListInv, ResumerInv, listVars
<1>6. ReadyInv'
  <2>1. \A c \in Elems(ready_list) : c \in Coros /\ c # current
    BY DEF ListInv, Types
  <2> QED BY <1>1, <1>4, <2>1 DEF ReadyInv, listVars
<1>7. QueuedInv'
  <2>1. Queued' \subseteq Queued
    BY <1>1, PopFacts DEF Queued
  <2> QED BY <1>1, <2>1 DEF QueuedInv
<1> QED BY <1>3, <1>5, <1>6, <1>7

LEMMA PopAndResumeKeeps == ASSUME RInv, PopAndResume PROVE RInv'
<1> USE DEF RInv
<1>1. /\ PopTask /\ Popped.kind = "resume" /\ do_resume(Popped.what[1], Popped.what[2])
      /\ UNCHANGED <<current, freelist, gc_list, alive, unborn, resume_id, task, sched_tasks, resumers, called>>
  BY DEF PopAndResume, histVars
<1>2. Popped.what \in called /\ Popped.what \in Coros \X Nat
  BY <1>1, PopFacts DEF QueuedInv, Types
<1>3. PICK c \in Coros, id \in Nat : Popped.what = <<c, id>>
  BY <1>2
<1>a. do_resume(c, id) /\ <<c, id>> \in called
  <2>1. Popped.what[1] = c /\ Popped.what[2] = id
    BY ONLY <1>3
  <2> QED BY ONLY <1>1, <1>2, <1>3, <2>1, Zenon
<1>b. <<c, id>> \in resumers /\ <<c, id>> \in called' /\ called \subseteq called'
  BY ONLY <1>a, <1>1, Types DEF Types
<1>4. ready_list' \in Seq(Coros) /\ ListInv' /\ ReadyInv'
  BY <1>1, <1>a, <1>b, DoResumeKeeps
<1>5. Types'
  BY <1>1, <1>4, PopFacts DEF Types
<1>6. QueuedInv'
  <2>1. Queued' \subseteq Queued
    BY <1>1, PopFacts DEF Queued
  <2> QED BY <1>1, <2>1 DEF QueuedInv
<1> QED BY <1>1, <1>4, <1>5, <1>6 DEF ResumerInv

LEMMA TaskEndsKeeps == ASSUME RInv, TaskEnds PROVE RInv'
<1> USE DEF RInv
<1>1. /\ current \in Coros /\ task' = [task EXCEPT ![current] = NoTask]
      /\ UNCHANGED <<current, listVars, resume_id, run, queueVars, resumers, called>>
  BY DEF TaskEnds, histVars
<1>2. Types'
  <2>1. task' \in [Coros -> Tasks \cup {NoTask}]
    BY <1>1 DEF Types
  <2> QED BY <1>1, <2>1 DEF Types, listVars, queueVars
<1>3. \A c \in Coros : c # current => task'[c] = task[c]
  BY <1>1 DEF Types
<1>4. ListInv' /\ ResumerInv' /\ QueuedInv'
  BY <1>1, <1>3 DEF ListInv, ResumerInv, QueuedInv, Queued, listVars, queueVars
<1>5. ReadyInv'
  <2>1. \A c \in Elems(ready_list) : c \in Coros /\ c # current
    BY DEF ListInv, Types
  <2> QED BY <1>1, <1>3, <2>1 DEF ReadyInv, listVars
<1> QED BY <1>2, <1>4, <1>5

LEMMA NoneGone == Range(<<>>) = {}
  BY DEF Range

\* A coroutine that ends is parked on the free list, or destroyed.
LEMMA ExitCurrentKeeps == ASSUME RInv, ExitCurrent PROVE RInv'
<1> USE DEF RInv
<1>1. /\ current \in Coros /\ run' = [run EXCEPT !.max = 0]
      /\ UNCHANGED <<ready_list, unborn, resume_id, task, queueVars, resumers, called>>
      /\ current' = Main /\ gc_list' = <<>>
  BY DEF ExitCurrent, SwitchToMain, histVars
<1>2. run' \in Runs /\ run'.tasks = run.tasks
  BY <1>1 DEF Types, Runs
<1>3. current \in alive /\ current # Main
  BY <1>1, RunnerAssumption DEF ListInv
<1>4. freelist' \in Seq(Coros) /\ ListInv' /\ alive' \subseteq alive
  <2>1. CASE Len(freelist) < MaxReuse
    <3>1. freelist' = Append(freelist, current) /\ alive' = alive
      <4>1. freelist' = Append(freelist, current) /\ alive' = alive \ Range(<<>>)
        BY <2>1 DEF ExitCurrent, SwitchToMain, Types
      <4> QED BY <4>1, NoneGone
    <3>2. freelist' \in Seq(Coros) /\ NoRepeat(freelist') /\ Elems(freelist') = Elems(freelist) \cup {current}
      BY <1>1, <3>1, AppendFacts DEF Types, ListInv
    <3> QED BY <1>1, <1>3, <3>1, <3>2, RunnerAssumption DEF ListInv, Types
  <2>2. CASE ~(Len(freelist) < MaxReuse)
    <3>1. freelist' = freelist /\ alive' = alive \ Range(Append(<<>>, current))
      BY <2>2 DEF ExitCurrent, SwitchToMain, Types
    <3>2. Range(Append(<<>>, current)) = {current}
      BY DEF Range
    <3> QED BY <1>1, <3>1, <3>2, RunnerAssumption DEF ListInv, Types
  <2> QED BY <2>1, <2>2
<1>5. Types'
  BY <1>1, <1>2, <1>4 DEF Types, queueVars
<1>6. ResumerInv' /\ ReadyInv'
  BY <1>1, RunnerAssumption DEF ResumerInv, ReadyInv
<1>7. QueuedInv'
  BY <1>1, <1>2 DEF QueuedInv, Queued, queueVars
<1> QED BY <1>4, <1>5, <1>6, <1>7

\* A resumer of the present yield is made, and the coroutine gives the thread back.
LEMMA YieldKeeps ==
  ASSUME RInv, current \in Coros, task[current] # NoTask, SwitchToMain(gc_list),
         resumers' = resumers \cup {<<current, resume_id[current]>>}, called \subseteq called', called' \subseteq resumers',
         UNCHANGED <<ready_list, freelist, unborn, resume_id, task, run, remote_sched, g_remote>>,
         sched_tasks' \in Seq(Items), QueuedInv'
  PROVE  RInv'
<1> USE DEF RInv
<1>1. current' = Main /\ gc_list' = <<>> /\ alive' = alive
  BY NoneGone DEF SwitchToMain, Types
<1>a. /\ resume_id[current] \in Nat /\ resumers \subseteq Coros \X Nat
      /\ <<current, resume_id[current]>> \in Coros \X Nat /\ resumers' \subseteq Coros \X Nat
  BY DEF Types
<1>2. Types'
  BY <1>1, <1>a DEF Types
<1>3. ListInv'
  BY <1>1, RunnerAssumption DEF ListInv, Types
<1>4. ResumerInv'
  <2> SUFFICES ASSUME NEW c \in Coros, NEW id \in Nat, <<c, id>> \in resumers'
               PROVE  id <= resume_id[c] /\ (id = resume_id[c] => task[c] # NoTask /\ c # Main)
    BY <1>1 DEF ResumerInv
  <2>1. CASE <<c, id>> \in resumers
    BY <2>1, RunnerAssumption DEF ResumerInv
  <2>2. CASE <<c, id>> = <<current, resume_id[current]>>
    BY <2>2, <1>a, RunnerAssumption
  <2> QED BY <2>1, <2>2
<1>5. ReadyInv'
  BY DEF ReadyInv
<1> QED BY <1>2, <1>3, <1>4, <1>5

LEMMA TaskYieldsKeeps == ASSUME RInv, TaskYields PROVE RInv'
<1>1. /\ current \in Coros /\ task[current] # NoTask /\ SwitchToMain(gc_list)
      /\ resumers' = resumers \cup {<<current, resume_id[current]>>}
      /\ UNCHANGED <<ready_list, freelist, unborn, resume_id, task, run, queueVars, called>>
  BY DEF TaskYields
<1>2. QueuedInv'
  BY <1>1 DEF RInv, QueuedInv, Queued, queueVars
<1> QED BY <1>1, <1>2, YieldKeeps DEF RInv, Types, queueVars

LEMMA TaskSchedsKeeps == ASSUME RInv, TaskScheds PROVE RInv'
<1> DEFINE x == Resumer(current, resume_id[current])
<1>1. /\ current \in Coros /\ task[current] # NoTask /\ SwitchToMain(gc_list)
      /\ resumers' = resumers \cup {<<current, resume_id[current]>>}
      /\ called' = called \cup {<<current, resume_id[current]>>}
      /\ sched_tasks' = Append(sched_tasks, x)
      /\ UNCHANGED <<ready_list, freelist, unborn, resume_id, task, run, remote_sched, g_remote>>
  BY DEF TaskScheds
<1>2. x \in Items /\ x.what = <<current, resume_id[current]>>
  BY <1>1 DEF RInv, Types, Resumer, Items
<1> HIDE DEF x
<1>3. sched_tasks' \in Seq(Items) /\ Elems(sched_tasks') = Elems(sched_tasks) \cup {x}
  <2>1. sched_tasks \in Seq(Items) /\ sched_tasks' = Append(sched_tasks, x)
    BY <1>1 DEF RInv, Types
  <2> QED BY ONLY <2>1, <1>2, AppendFacts
<1>4. QueuedInv'
  <2>1. Queued' = Queued \cup {x}
    BY <1>1, <1>3 DEF Queued
  <2> QED BY <1>1, <1>2, <2>1 DEF RInv, QueuedInv
<1>5. called \subseteq called' /\ called' \subseteq resumers'
  BY <1>1 DEF RInv, Types
<1> QED BY <1>1, <1>3, <1>4, <1>5, YieldKeeps

-----------------------------------------------------------------------------
LEMMA NextKeeps == ASSUME RInv, [Next]_vars PROVE RInv'
<1>1. ASSUME NEW r \in resumers, ResumeElsewhere(r[1], r[2]) \/ ResumeHere(r[1], r[2]) PROVE RInv'
  <2>1. r[1] \in Coros /\ r[2] \in Nat
    BY DEF RInv, Types
  <2> QED BY <1>1, <2>1, ResumeElsewhereKeeps, ResumeHereKeeps
<1>2. CASE Elsewhere \/ Here
  BY <1>1, <1>2, PublishKeeps, StealElsewhereKeeps DEF Elsewhere, Here
<1>3. CASE RunStep
  BY <1>3, PhaseKeeps, ResumeReadyKeeps, SpawnReusedKeeps, SpawnNewKeeps, RunFromKeeps DEF RunStep
<1>4. CASE CoroStep
  BY <1>4, PopAndStartKeeps, PopAndResumeKeeps, ExitCurrentKeeps, TaskEndsKeeps, TaskYieldsKeeps,
     TaskSchedsKeeps DEF CoroStep
<1>5. CASE WakeUpIfNeeded \/ Pass \/ UNCHANGED vars
  BY <1>5, PhaseKeeps
<1> QED BY <1>2, <1>3, <1>4, <1>5 DEF Next

\* The checks of GC and ~Coroutine never fail: with any number of coroutines, and of
\* resumers called late, twice or from other threads, a coroutine is on one list at most.
THEOREM OnOneListTheorem == Spec => []OnOneList
<1>1. RInv => OnOneList
  <2> SUFFICES ASSUME RInv PROVE OnOneList
    OBVIOUS
  <2>1. Lists = ready_list \o freelist
    <3>1. ready_list \in Seq(Coros) /\ freelist \in Seq(Coros) /\ gc_list = <<>>
      BY Zenon DEF RInv, Types
    <3>2. ready_list \o freelist \o <<>> = ready_list \o freelist
      BY ONLY <3>1, ListsFacts
    <3> QED BY <3>1, <3>2, Zenon DEF Lists
  <2>2. /\ Range(Lists) = Elems(ready_list) \cup Elems(freelist)
        /\ \A i, j \in DOMAIN Lists : Lists[i] = Lists[j] => i = j
    BY <2>1, ListsFacts DEF RInv, Types, ListInv
  <2>3. \A i \in DOMAIN Lists : Lists[i] \in Range(Lists)
    BY DEF Range
  <2> QED BY <2>2, <2>3 DEF OnOneList, RInv, ListInv
<1> QED BY <1>1, InitHolds, NextKeeps, PTL DEF Spec

\* A late or repeated call of a resumer never resumes a later yield, nor a coroutine
\* that has been parked, reused or destroyed since.
THEOREM ReadyTheorem == Spec => []ReadyWasCalled
<1>1. RInv => ReadyWasCalled
  <2> SUFFICES ASSUME RInv PROVE ReadyWasCalled
    OBVIOUS
  <2>1. \A i \in DOMAIN ready_list : ready_list[i] \in Elems(ready_list)
    <3>1. ready_list \in Seq(Coros)
      BY Zenon DEF RInv, Types
    <3> QED BY ONLY <3>1 DEF Elems
  <2> QED BY <2>1 DEF ReadyWasCalled, RInv, ReadyInv
<1> QED BY <1>1, InitHolds, NextKeeps, PTL DEF Spec
=============================================================================
