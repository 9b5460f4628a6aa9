------------------------------ MODULE FifoLock ------------------------------
(***************************************************************************)
(* What co::CoMutex promises: a lock with one owner at a time, granted in  *)
(* the order of the calls that found it taken.                             *)
(***************************************************************************)
EXTENDS Sequences

CONSTANTS Coros,  \* the coroutines that use the lock
          None    \* no owner

VARIABLES owner, queue

Init == owner = None /\ queue = <<>>

Acquire(c) ==
  /\ owner = None
  /\ owner' = c
  /\ UNCHANGED queue

Await(c) ==
  /\ owner # None
  /\ queue' = Append(queue, c)
  /\ UNCHANGED owner

Release ==
  /\ owner # None
  /\ IF queue = <<>>
     THEN owner' = None /\ UNCHANGED queue
     ELSE owner' = Head(queue) /\ queue' = Tail(queue)

Next == Release \/ \E c \in Coros : Acquire(c) \/ Await(c)

Spec == Init /\ [][Next]_<<owner, queue>>
=============================================================================
