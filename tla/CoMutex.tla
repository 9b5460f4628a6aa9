------------------------------ MODULE CoMutex ------------------------------
(***************************************************************************)
(* co::CoMutex, the lock for coroutines, used by coroutines of several     *)
(* loops.  Its state is guarded by a spin lock, so that each locked        *)
(* section is one step; a waiter's yield and the call of its resumer are   *)
(* steps of their own.  Resuming is CoroRunnerImpl::Resume: at once in the *)
(* waiter's loop, through the queue remote_sched_ from any other.          *)
(***************************************************************************)
EXTENDS Naturals, Sequences

CONSTANTS Users,  \* the coroutines
          Loops,  \* the loops that run them
          LoopOf, \* the loop each coroutine is bound to
          None    \* no coroutine

ASSUME CorosAssumption == LoopOf \in [Users -> Loops] /\ None \notin Users

VARIABLES
  locked,   \* locked_
  waiters,  \* waiters_: the coroutine each resumer is for
  pc,       \* where each coroutine is
  handing,  \* the resumer that a coroutine took in unlock, None for none
  remote    \* coroutines with a do_resume in their loop's remote_sched_

mutexVars == <<locked, waiters, pc, handing, remote>>

PC == {"out", "pushed", "waiting", "ready", "in", "handing"}

MutexTypeOK ==
  /\ locked \in BOOLEAN
  /\ waiters \in Seq(Users)
  /\ pc \in [Users -> PC]
  /\ handing \in [Users -> Users \cup {None}]
  /\ remote \in SUBSET Users

MutexInit ==
  /\ locked = FALSE
  /\ waiters = <<>>
  /\ pc = [c \in Users |-> "out"]
  /\ handing = [c \in Users |-> None]
  /\ remote = {}

\* A loop runs one coroutine, and no other before that one has yielded: lock is
\* left by a return or a yield, unlock by a return.
LoopFree(c) ==
  \A d \in Users : d # c /\ LoopOf[d] = LoopOf[c] => pc[d] \notin {"pushed", "handing"}

Goto(c, label) == pc' = [pc EXCEPT ![c] = label]

-----------------------------------------------------------------------------
(* lock and try_lock                                                       *)

\* if (!locked_) { locked_ = true; return; }, in lock and in try_lock
LockFree(c) ==
  /\ pc[c] = "out" /\ LoopFree(c)
  /\ ~locked
  /\ locked' = TRUE
  /\ Goto(c, "in")
  /\ UNCHANGED <<waiters, handing, remote>>

\* waiters_.emplace_back(co_new_resumer())
LockTaken(c) ==
  /\ pc[c] = "out" /\ LoopFree(c)
  /\ locked
  /\ waiters' = Append(waiters, c)
  /\ Goto(c, "pushed")
  /\ UNCHANGED <<locked, handing, remote>>

\* __co_wait_here__
Yield(c) ==
  /\ pc[c] = "pushed"
  /\ Goto(c, "waiting")
  /\ UNCHANGED <<locked, waiters, handing, remote>>

\* The runner takes the coroutine off its ready list: lock returns.
LockReturns(c) ==
  /\ pc[c] = "ready" /\ LoopFree(c)
  /\ Goto(c, "in")
  /\ UNCHANGED <<locked, waiters, handing, remote>>

-----------------------------------------------------------------------------
(* unlock                                                                  *)

\* if (waiters_.empty()) { locked_ = false; return; }
UnlockFree(c) ==
  /\ pc[c] = "in" /\ LoopFree(c)
  /\ waiters = <<>>
  /\ locked' = FALSE
  /\ Goto(c, "out")
  /\ UNCHANGED <<waiters, handing, remote>>

\* Mutant: the lock is marked free before it is handed over.
UnlockHandFrees(c) ==
  /\ pc[c] = "in" /\ LoopFree(c)
  /\ waiters # <<>>
  /\ handing' = [handing EXCEPT ![c] = Head(waiters)]
  /\ waiters' = Tail(waiters)
  /\ locked' = FALSE
  /\ Goto(c, "handing")
  /\ UNCHANGED remote

\* Mutant: the last waiter is served first.
UnlockHandLast(c) ==
  /\ pc[c] = "in" /\ LoopFree(c)
  /\ waiters # <<>>
  /\ handing' = [handing EXCEPT ![c] = waiters[Len(waiters)]]
  /\ waiters' = SubSeq(waiters, 1, Len(waiters) - 1)
  /\ Goto(c, "handing")
  /\ UNCHANGED <<locked, remote>>

\* resumer(std::move(waiters_.front())); waiters_.pop_front(): locked_ stays set
UnlockHand(c) ==
  /\ pc[c] = "in" /\ LoopFree(c)
  /\ waiters # <<>>
  /\ handing' = [handing EXCEPT ![c] = Head(waiters)]
  /\ waiters' = Tail(waiters)
  /\ Goto(c, "handing")
  /\ UNCHANGED <<locked, remote>>

\* Mutant: the resumer of another loop's coroutine is dropped.
CallResumerHere(c) ==
  LET d == handing[c] IN
  /\ pc[c] = "handing"
  /\ handing' = [handing EXCEPT ![c] = None]
  /\ pc' = IF LoopOf[d] = LoopOf[c] /\ pc[d] = "waiting"
           THEN [pc EXCEPT ![c] = "out", ![d] = "ready"]
           ELSE [pc EXCEPT ![c] = "out"]
  /\ UNCHANGED <<locked, waiters, remote>>

\* resumer(): Resume appends the waiter to the ready list of its loop, or sends
\* do_resume there
CallResumer(c) ==
  LET d == handing[c] IN
  /\ pc[c] = "handing"
  /\ handing' = [handing EXCEPT ![c] = None]
  /\ IF LoopOf[d] = LoopOf[c]
     THEN /\ pc' = IF pc[d] = "waiting" THEN [pc EXCEPT ![c] = "out", ![d] = "ready"]
                   ELSE [pc EXCEPT ![c] = "out"]
          /\ UNCHANGED remote
     ELSE /\ Goto(c, "out")
          /\ remote' = remote \cup {d}
  /\ UNCHANGED <<locked, waiters>>

\* do_resume in the loop of the waiter, which has left lock's yield behind
RunRemote(d) ==
  /\ d \in remote
  /\ pc[d] # "pushed" /\ LoopFree(d)
  /\ remote' = remote \ {d}
  /\ pc' = IF pc[d] = "waiting" THEN [pc EXCEPT ![d] = "ready"] ELSE pc
  /\ UNCHANGED <<locked, waiters, handing>>

-----------------------------------------------------------------------------
Step(c) ==
  \/ LockFree(c) \/ LockTaken(c) \/ Yield(c) \/ LockReturns(c)
  \/ UnlockFree(c) \/ UnlockHand(c) \/ CallResumer(c) \/ RunRemote(c)

MutexNext == \E c \in Users : Step(c)

MutexSpec == MutexInit /\ [][MutexNext]_mutexVars

\* A coroutine that holds the lock releases it, and a loop runs what it has; no
\* coroutine has to ask for the lock.
MutexFairness ==
  \A c \in Users :
    /\ WF_mutexVars(Yield(c)) /\ WF_mutexVars(CallResumer(c))
    /\ SF_mutexVars(LockReturns(c)) /\ SF_mutexVars(RunRemote(c))
    /\ SF_mutexVars(UnlockFree(c) \/ UnlockHand(c))

MutexFairSpec == MutexSpec /\ MutexFairness

-----------------------------------------------------------------------------
(* Properties.                                                             *)

\* At most one coroutine is between lock and unlock, whatever the loops and the
\* order of yields, hand-overs and remote resumes.
MutualExclusion == \A c, d \in Users : pc[c] = "in" /\ pc[d] = "in" => c = d

\* A coroutine that waits in lock gets the lock.
LockIsGranted == \A c \in Users : pc[c] = "pushed" ~> pc[c] = "in"

\* The lock belongs to c: it is in, or the hand-over to it is under way.
Owns(c) ==
  \/ pc[c] \in {"in", "ready"}
  \/ c \in remote
  \/ \E d \in Users : pc[d] = "handing" /\ handing[d] = c

Owner == IF \E c \in Users : Owns(c) THEN CHOOSE c \in Users : Owns(c) ELSE None

Lock == INSTANCE FifoLock WITH Coros <- Users, owner <- Owner, queue <- waiters

\* The mutex is a lock with one owner, granted first come, first served.
LockSpec == Lock!Spec

\* Inductive: the lock is taken exactly when somebody owns it, one owner at most;
\* an owner that is not in yet still is at the yield of lock, as every waiter is,
\* and each waits once.
OwnerInv ==
  /\ \A c, d \in Users : Owns(c) /\ Owns(d) => c = d
  /\ (\E c \in Users : Owns(c)) <=> locked
  /\ \A c \in Users : pc[c] = "handing" => handing[c] \in Users /\ handing[c] # c
  /\ \A c, d \in Users : pc[c] = "handing" /\ pc[d] = "handing" => c = d

HandoverInv ==
  /\ \A c \in Users : c \in remote => pc[c] \in {"pushed", "waiting"}
  /\ \A c \in Users : pc[c] = "handing" => pc[handing[c]] \in {"pushed", "waiting"}
  /\ \A c \in Users : pc[c] = "handing" => handing[c] \notin remote

QueueInv ==
  /\ \A i \in DOMAIN waiters : pc[waiters[i]] \in {"pushed", "waiting"} /\ ~Owns(waiters[i])
  /\ \A i, j \in DOMAIN waiters : waiters[i] = waiters[j] => i = j

\* Inductive: in the middle of lock or of unlock there is one coroutine of a loop.
\* It is why a resumer called in its own loop finds the waiter at its yield.
LoopInv ==
  \A c, d \in Users :
    /\ LoopOf[c] = LoopOf[d]
    /\ pc[c] \in {"pushed", "handing"} /\ pc[d] \in {"pushed", "handing"}
    => c = d

MutexInv == MutexTypeOK /\ OwnerInv /\ HandoverInv /\ QueueInv /\ LoopInv
=============================================================================
