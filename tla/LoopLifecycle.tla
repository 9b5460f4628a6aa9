--------------------------- MODULE LoopLifecycle ---------------------------
(***************************************************************************)
(* How threads start, wait for, quit and destroy a base::MessageLoop:      *)
(* Start, WaitLoopEnd, QuitLoop and ~MessageLoop against ThreadMain, with  *)
(* start_stop_lock_ and cv_ step by step.  running_ is a plain bool that   *)
(* ThreadMain and QuitLoop write without start_stop_lock_, and both        *)
(* notify_all() of ThreadMain are made without it.                         *)
(*                                                                         *)
(* The tasks the loop runs are abstracted to one thing a task may do here, *)
(* calling QuitLoop; MessageLoop models them in full.                      *)
(***************************************************************************)
EXTENDS Naturals, FiniteSets

CONSTANTS Threads,   \* threads that use the loop
          Owner      \* the one that created it and destroys it

ASSUME OwnerAssumption == Owner \in Threads

VARIABLES
  start_flag,  \* start_flag_
  running_,     \* running_
  lock,        \* holder of start_stop_lock_, {} when free
  sleeping,    \* threads blocked in cv_.wait
  tpc,         \* where each thread is
  call,        \* the operation it is in
  lpc,         \* where the loop thread is in ThreadMain
  pipe,        \* a kQuit byte lies in the wakeup pipe
  quit_task,   \* a task that calls QuitLoop is in a queue of the loop
  saw          \* history: where the loop thread was when the last Start or
               \* WaitLoopEnd of each thread returned

lifeVars == <<start_flag, running_, lock, sleeping, tpc, call, lpc, pipe, quit_task, saw>>

Calls == {"none", "Start", "WaitLoopEnd", "~MessageLoop"}

ThreadPC == {"out", "spawn", "lock", "test", "block", "asleep", "unlock",
             "quit", "notify", "join", "end_wait", "done"}

MainPC == {"none", "begin", "notify_begin", "while", "pump", "final", "notify_end", "exited"}

LifeTypeOK ==
  /\ start_flag \in BOOLEAN
  /\ running_ \in BOOLEAN
  /\ lock \in SUBSET Threads
  /\ Cardinality(lock) <= 1
  /\ sleeping \in SUBSET Threads
  /\ tpc \in [Threads -> ThreadPC]
  /\ call \in [Threads -> Calls]
  /\ lpc \in MainPC
  /\ pipe \in BOOLEAN
  /\ quit_task \in BOOLEAN
  /\ saw \in [Threads -> [call : Calls, lpc : MainPC]]

\* MessageLoop::MessageLoop
LifeInit ==
  /\ start_flag = FALSE
  /\ running_ = FALSE
  /\ lock = {}
  /\ sleeping = {}
  /\ tpc = [t \in Threads |-> "out"]
  /\ call = [t \in Threads |-> "none"]
  /\ lpc = "none"
  /\ pipe = FALSE
  /\ quit_task = FALSE
  /\ saw = [t \in Threads |-> [call |-> "none", lpc |-> "none"]]

\* The loop is destroyed, or its owner is destroying it: nobody may use it.
Destroyed == call[Owner] = "~MessageLoop"

Goto(t, to) == tpc' = [tpc EXCEPT ![t] = to]

\* The call c returns to its caller.
Return(t, c) ==
  /\ Goto(t, IF c = "~MessageLoop" THEN "done" ELSE "out")
  /\ call' = [call EXCEPT ![t] = IF c = "~MessageLoop" THEN c ELSE "none"]
  /\ saw' = [saw EXCEPT ![t] = [call |-> c, lpc |-> lpc]]

-----------------------------------------------------------------------------
(* MessageLoop::Start                                                      *)

\* start_flag_.test_and_set: a second Start returns at once
Start(t) ==
  /\ tpc[t] = "out" /\ ~Destroyed
  /\ start_flag' = TRUE
  /\ IF start_flag
     THEN UNCHANGED <<tpc, call>>
     ELSE Goto(t, "spawn") /\ call' = [call EXCEPT ![t] = "Start"]
  /\ UNCHANGED <<running_, lock, sleeping, lpc, pipe, quit_task, saw>>

\* thread_ptr_.reset(new std::thread(ThreadMain))
Spawn(t) ==
  /\ tpc[t] = "spawn"
  /\ lpc' = "begin"
  /\ Goto(t, "lock")
  /\ UNCHANGED <<start_flag, running_, lock, sleeping, call, pipe, quit_task, saw>>

-----------------------------------------------------------------------------
(* MessageLoop::WaitLoopEnd                                                *)

\* if (!running_) return
WaitLoopEnd(t) ==
  /\ tpc[t] = "out" /\ ~Destroyed
  /\ IF running_
     THEN Goto(t, "lock") /\ call' = [call EXCEPT ![t] = "WaitLoopEnd"] /\ UNCHANGED saw
     ELSE Return(t, "WaitLoopEnd")
  /\ UNCHANGED <<start_flag, running_, lock, sleeping, lpc, pipe, quit_task>>

-----------------------------------------------------------------------------
(* cv_.wait(lk, pred) of Start and of WaitLoopEnd                          *)

\* Mutant: WaitLoopEnd waits with the predicate of Start.
AwaitedRunning(t) == running_

\* The predicate: running_ for Start, !running_ for the others.
Awaited(t) == IF call[t] = "Start" THEN running_ ELSE ~running_

\* std::unique_lock lk(start_stop_lock_), and the re-acquisition inside wait
Lock(t) ==
  /\ tpc[t] = "lock"
  /\ lock = {}
  /\ lock' = {t}
  /\ Goto(t, "test")
  /\ UNCHANGED <<start_flag, running_, sleeping, call, lpc, pipe, quit_task, saw>>

\* while (!pred()): running_ is read here, and used in the next step
TestPredicate(t) ==
  /\ tpc[t] = "test"
  /\ Goto(t, IF Awaited(t) THEN "unlock" ELSE "block")
  /\ UNCHANGED <<start_flag, running_, lock, sleeping, call, lpc, pipe, quit_task, saw>>

\* wait: the lock is released and the thread blocks, in one step
Block(t) ==
  /\ tpc[t] = "block"
  /\ lock' = {}
  /\ sleeping' = sleeping \cup {t}
  /\ Goto(t, "asleep")
  /\ UNCHANGED <<start_flag, running_, call, lpc, pipe, quit_task, saw>>

Unlock(t) ==
  /\ tpc[t] = "unlock"
  /\ lock' = {}
  /\ Return(t, call[t])
  /\ UNCHANGED <<start_flag, running_, sleeping, lpc, pipe, quit_task>>

\* A wait may end without a notify.
SpuriousWake(t) ==
  /\ tpc[t] = "asleep"
  /\ sleeping' = sleeping \ {t}
  /\ Goto(t, "lock")
  /\ UNCHANGED <<start_flag, running_, lock, call, lpc, pipe, quit_task, saw>>

\* cv_.notify_all()
NotifyAll ==
  /\ sleeping' = {}
  /\ tpc' = [t \in Threads |-> IF t \in sleeping THEN "lock" ELSE tpc[t]]

-----------------------------------------------------------------------------
(* MessageLoop::QuitLoop from any thread, and ~MessageLoop.                *)

CallQuitLoop(t) ==
  /\ tpc[t] = "out" /\ ~Destroyed
  /\ running_' = FALSE
  /\ UNCHANGED <<start_flag, lock, sleeping, tpc, call, lpc, pipe, quit_task, saw>>

\* PostTask(&MessageLoop::QuitLoop), whose CHECK(running_) holds
PostQuit(t) ==
  /\ tpc[t] = "out" /\ ~Destroyed
  /\ running_
  /\ quit_task' = TRUE
  /\ UNCHANGED <<start_flag, running_, lock, sleeping, tpc, call, lpc, pipe, saw>>

\* The owner destroys the loop when no other thread is in a call of it, and has
\* not left a Start of its own unfinished: QuitLoop()
Destroy ==
  /\ \A t \in Threads : tpc[t] = "out" /\ call[t] = "none"
  /\ call' = [call EXCEPT ![Owner] = "~MessageLoop"]
  /\ running_' = FALSE
  /\ Goto(Owner, "notify")
  /\ UNCHANGED <<start_flag, lock, sleeping, lpc, pipe, quit_task, saw>>

\* Notify(wakeup_pipe_in_, &kQuit)
DestroyNotify ==
  /\ tpc[Owner] = "notify"
  /\ pipe' = TRUE
  /\ Goto(Owner, "join")
  /\ UNCHANGED <<start_flag, running_, lock, sleeping, call, lpc, quit_task, saw>>

\* Mutant: the destructor does not join the thread.
DestroySkipsJoin ==
  /\ tpc[Owner] = "join"
  /\ Goto(Owner, "end_wait")
  /\ UNCHANGED <<start_flag, running_, lock, sleeping, call, lpc, pipe, quit_task, saw>>

\* thread_ptr_->join(), when there is a thread
DestroyJoin ==
  /\ tpc[Owner] = "join"
  /\ lpc \in {"none", "exited"}
  /\ Goto(Owner, "end_wait")
  /\ UNCHANGED <<start_flag, running_, lock, sleeping, call, lpc, pipe, quit_task, saw>>

\* WaitLoopEnd(): running_ is false and the thread that could set it is gone
DestroyWait ==
  /\ tpc[Owner] = "end_wait"
  /\ IF running_
     THEN Goto(Owner, "lock") /\ UNCHANGED <<call, saw>>
     ELSE Return(Owner, "~MessageLoop")
  /\ UNCHANGED <<start_flag, running_, lock, sleeping, lpc, pipe, quit_task>>

-----------------------------------------------------------------------------
(* MessageLoop::ThreadMain                                                 *)

\* running_ = true
SetRunning ==
  /\ lpc = "begin"
  /\ running_' = TRUE
  /\ lpc' = "notify_begin"
  /\ UNCHANGED <<start_flag, lock, sleeping, tpc, call, pipe, quit_task, saw>>

\* cv_.notify_all() before the while loop
NotifyBegin ==
  /\ lpc = "notify_begin"
  /\ NotifyAll
  /\ lpc' = "while"
  /\ UNCHANGED <<start_flag, running_, lock, call, pipe, quit_task, saw>>

\* Mutant: running_ is read once and kept in a register.
WhileTrue ==
  /\ lpc = "while"
  /\ lpc' = "pump"
  /\ UNCHANGED <<start_flag, running_, lock, sleeping, tpc, call, pipe, quit_task, saw>>

\* while (running_)
TestRunning ==
  /\ lpc = "while"
  /\ lpc' = IF running_ THEN "pump" ELSE "final"
  /\ UNCHANGED <<start_flag, running_, lock, sleeping, tpc, call, pipe, quit_task, saw>>

\* One pass: RunCommandTask(TaskTypeCtrl) when the pipe holds a byte, and the
\* tasks there are, one of which may be a QuitLoop
PumpAndRun ==
  /\ lpc = "pump"
  /\ running_' = (running_ /\ ~pipe /\ ~quit_task)
  /\ pipe' = FALSE
  /\ quit_task' = FALSE
  /\ lpc' = "while"
  /\ UNCHANGED <<start_flag, lock, sleeping, tpc, call, saw>>

\* The last RunNestedTask and RunScheduledTask, and the removal of the events
FinalTasks ==
  /\ lpc = "final"
  /\ running_' = (running_ /\ ~quit_task)
  /\ quit_task' = FALSE
  /\ lpc' = "notify_end"
  /\ UNCHANGED <<start_flag, lock, sleeping, tpc, call, pipe, saw>>

\* cv_.notify_all(), the last thing ThreadMain does
NotifyEnd ==
  /\ lpc = "notify_end"
  /\ NotifyAll
  /\ lpc' = "exited"
  /\ UNCHANGED <<start_flag, running_, lock, call, pipe, quit_task, saw>>

-----------------------------------------------------------------------------
MainStep == SetRunning \/ NotifyBegin \/ TestRunning \/ PumpAndRun \/ FinalTasks \/ NotifyEnd

\* The steps of a thread inside a call that need nobody's consent.
CallStep(t) == Spawn(t) \/ Lock(t) \/ TestPredicate(t) \/ Block(t) \/ Unlock(t)

DestroyStep == DestroyNotify \/ DestroyJoin \/ DestroyWait

LifeNext ==
  \/ MainStep \/ Destroy \/ DestroyStep
  \/ \E t \in Threads : Start(t) \/ WaitLoopEnd(t) \/ CallQuitLoop(t) \/ PostQuit(t)
                          \/ CallStep(t) \/ SpuriousWake(t)

LifeSpec == LifeInit /\ [][LifeNext]_lifeVars

\* The loop thread and every thread inside a call are scheduled, and a free
\* mutex is not denied to a thread for ever.  Nothing promises a spurious wake-up.
LifeFairness ==
  /\ WF_lifeVars(MainStep)
  /\ WF_lifeVars(DestroyStep)
  /\ \A t \in Threads : WF_lifeVars(CallStep(t)) /\ SF_lifeVars(Lock(t))

LifeFairSpec == LifeSpec /\ LifeFairness

-----------------------------------------------------------------------------
(* Properties.                                                             *)

\* ~MessageLoop returns only when ThreadMain has: the members it is about to free
\* (task_event_, pump_, cv_ itself) are not touched again by the loop thread, and no
\* thread sleeps on cv_.
DestroyedIsQuiet ==
  tpc[Owner] = "done" => lpc \in {"none", "exited"} /\ sleeping = {} /\ ~running_

\* The Start that spawned the thread returns only after ThreadMain has set
\* running_, so that a PostTask right after Start passes its CHECK(running_).
StartedMeansRan ==
  \A t \in Threads : saw[t].call = "Start" => saw[t].lpc \notin {"none", "begin"}

\* Once the destructor has begun it ends: QuitLoop is seen by the loop thread,
\* which returns and is joined.
DestroyEnds == (call[Owner] = "~MessageLoop") ~> (tpc[Owner] = "done")

\* A thread that calls Start returns from it: the unit test loop.benchStart, like
\* every user of a loop, goes on after loop.Start().
StartReturns == \A t \in Threads : (call[t] = "Start") ~> (call[t] # "Start")

\* "first join, others wait util loop end": a WaitLoopEnd on a loop that was
\* started returns when ThreadMain has ended.
WaitSeesEnd ==
  \A t \in Threads : saw[t].call = "WaitLoopEnd" => saw[t].lpc \in {"none", "begin", "exited"}

\* A WaitLoopEnd on a running loop may return early, but only when the loop's thread is
\* bound to end: running_ is false, and nothing that happens later sets it again.
WaitMeansQuit ==
  \A t \in Threads : saw[t].call = "WaitLoopEnd" /\ saw[t].lpc \notin {"none", "begin"} => ~running_
=============================================================================
