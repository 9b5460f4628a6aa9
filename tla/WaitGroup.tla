----------------------------- MODULE WaitGroup -----------------------------
(***************************************************************************)
(* co::WaitGroup: one coroutine adds a task for each worker, starts the    *)
(* workers and calls Wait; the workers, on its loop or on others, call     *)
(* Done.  The loop of the waiting coroutine is modelled by the four parts  *)
(* of one of its passes, in their order: timers, posted tasks, nested      *)
(* tasks, coroutines.                                                      *)
(***************************************************************************)
EXTENDS Integers, FiniteSets

CONSTANTS Workers,     \* the tasks waited for
          Timeouts,    \* {TRUE} when Wait is given a positive timeout, {FALSE} when not, or either
          AddsFirst    \* TRUE: Add(n) before the first worker starts, FALSE: Add(1) before each

ASSUME WorkersAssumption ==
  /\ IsFiniteSet(Workers)
  /\ Timeouts \subseteq BOOLEAN
  /\ AddsFirst \subseteq BOOLEAN

VARIABLES
  has_timeout, add_first,  \* the use that is made of the group
  wait_count,     \* wait_count_
  result_status,  \* result_status_
  resumer,        \* resume id that resumer_ was made with, 0 for an empty resumer_
  timeout,        \* timeout_: "none", "armed", "fired" or "removed"
  waiter,         \* where the waiting coroutine is
  waiter_id,      \* its resume_id_
  returned,       \* what Wait has returned, "" before it has
  todo,           \* workers not started yet
  worker,         \* where each worker is
  scheduled,      \* wake-ups in the loop's scheduled_tasks_
  nested,         \* wake-ups in the loop's in_loop_tasks_
  part,          \* the part of its pass the loop is in
  on_timeout      \* history: wait_count_ at the call of OnTimeOut, -1 before it

use == <<has_timeout, add_first>>
groupVars == <<use, wait_count, result_status, resumer, timeout, waiter, waiter_id, returned, todo,
          worker, scheduled, nested, part, on_timeout>>

loopVars == <<scheduled, nested, part>>
waitVars == <<result_status, resumer, timeout, waiter, waiter_id, returned, on_timeout>>

Results == {"kSuccess", "kTimeout"}

WorkerPC == {"idle", "here", "elsewhere", "post_here", "post_elsewhere", "done"}

GroupTypeOK ==
  /\ wait_count \in 0..Cardinality(Workers)
  /\ result_status \in Results
  /\ resumer \in {0, 1}
  /\ timeout \in {"none", "armed", "fired", "removed"}
  /\ waiter \in {"starting", "suspended", "ready", "returned"}
  /\ waiter_id \in {1, 2}
  /\ returned \in Results \cup {""}
  /\ todo \in SUBSET Workers
  /\ worker \in [Workers -> WorkerPC]
  /\ scheduled \in 0..Cardinality(Workers)
  /\ nested \in 0..Cardinality(Workers)
  /\ part \in {"timers", "tasks", "nested", "coros"}
  /\ on_timeout \in -1..Cardinality(Workers)

\* WaitGroup::WaitGroup, in the coroutine that will wait
GroupInit ==
  /\ has_timeout \in Timeouts /\ add_first \in AddsFirst
  /\ wait_count = IF add_first THEN Cardinality(Workers) ELSE 0
  /\ result_status = "kSuccess"
  /\ resumer = 0
  /\ timeout = "none"
  /\ waiter = "starting"
  /\ waiter_id = 1
  /\ returned = ""
  /\ todo = Workers
  /\ worker = [w \in Workers |-> "idle"]
  /\ scheduled = 0
  /\ nested = 0
  /\ part = "coros"
  /\ on_timeout = -1

\* wg->Add(1); CO_GO task: any runner may take it, the one of this loop too
AddAndGo(w) ==
  /\ waiter = "starting"
  /\ w \in todo
  /\ wait_count' = IF add_first THEN wait_count ELSE wait_count + 1
  /\ todo' = todo \ {w}
  /\ \E where \in {"here", "elsewhere"} : worker' = [worker EXCEPT ![w] = where]
  /\ UNCHANGED <<use, waitVars, loopVars>>

-----------------------------------------------------------------------------
(* WaitGroup::Done                                                         *)

\* A coroutine of the waiter's loop runs only when the waiter does not.
CanRun(w) ==
  worker[w] \in {"here", "post_here"} => part = "coros" /\ waiter # "starting"

\* Mutant: every Done posts the wake-up.
FetchSubAlwaysPosts(w) ==
  /\ worker[w] \in {"here", "elsewhere"} /\ CanRun(w)
  /\ wait_count' = wait_count - 1
  /\ worker' = [worker EXCEPT ![w] = IF @ = "here" THEN "post_here" ELSE "post_elsewhere"]
  /\ UNCHANGED <<use, waitVars, loopVars, todo>>

\* wait_count_.fetch_sub(1) != 1
FetchSub(w) ==
  /\ worker[w] \in {"here", "elsewhere"} /\ CanRun(w)
  /\ wait_count' = wait_count - 1
  /\ worker' = [worker EXCEPT ![w] =
                  IF wait_count # 1 THEN "done"
                  ELSE IF @ = "here" THEN "post_here" ELSE "post_elsewhere"]
  /\ UNCHANGED <<use, waitVars, loopVars, todo>>

\* Mutant: the last Done forgets the wake-up.
PostNothing(w) ==
  /\ worker[w] \in {"post_here", "post_elsewhere"} /\ CanRun(w)
  /\ worker' = [worker EXCEPT ![w] = "done"]
  /\ UNCHANGED <<use, waitVars, loopVars, wait_count, todo>>

\* loop_->PostTask(&WaitGroup::wakeup_internal)
PostWakeup(w) ==
  /\ worker[w] \in {"post_here", "post_elsewhere"} /\ CanRun(w)
  /\ worker' = [worker EXCEPT ![w] = "done"]
  /\ IF worker[w] = "post_here"
     THEN nested' = nested + 1 /\ UNCHANGED scheduled
     ELSE scheduled' = scheduled + 1 /\ UNCHANGED nested
  /\ UNCHANGED <<use, waitVars, wait_count, todo, part>>

-----------------------------------------------------------------------------
(* WaitGroup::Wait                                                         *)

\* Up to CO_YIELD.  The coroutine holds the loop thread, so that nothing of the
\* loop comes between the load of wait_count_ and the yield.
Wait ==
  /\ waiter = "starting" /\ todo = {}
  /\ IF wait_count = 0
     THEN /\ waiter' = "returned"
          /\ returned' = "kSuccess"
          /\ UNCHANGED <<resumer, timeout>>
     ELSE /\ resumer' = waiter_id
          /\ timeout' = IF has_timeout THEN "armed" ELSE "none"
          /\ waiter' = "suspended"
          /\ UNCHANGED returned
  /\ UNCHANGED <<use, result_status, waiter_id, on_timeout, wait_count, todo, worker, loopVars>>

\* wakeup_internal: resumer_(), which CoroRunnerImpl::Resume ignores unless the
\* coroutine is still suspended at the yield that resumer_ was made for
wakeup_internal ==
  waiter' = IF resumer = waiter_id /\ waiter = "suspended" THEN "ready" ELSE waiter

\* The runner switches to the ready coroutine: RemoveTimeoutEvent, return
WaitReturns ==
  /\ part = "coros"
  /\ waiter = "ready"
  /\ waiter_id' = waiter_id + 1
  /\ timeout' = IF timeout = "none" THEN "none" ELSE "removed"
  /\ waiter' = "returned"
  /\ returned' = result_status
  /\ UNCHANGED <<use, result_status, resumer, on_timeout, wait_count, todo, worker, loopVars>>

-----------------------------------------------------------------------------
(* One pass of the loop.                                                   *)

\* OnTimeOut
OnTimeOut ==
  /\ part = "timers"
  /\ timeout = "armed"
  /\ timeout' = "fired"
  /\ result_status' = "kTimeout"
  /\ on_timeout' = wait_count
  /\ wakeup_internal
  /\ UNCHANGED <<use, resumer, waiter_id, returned, wait_count, todo, worker, loopVars>>

RunScheduledTask ==
  /\ part = "tasks"
  /\ scheduled > 0
  /\ scheduled' = scheduled - 1
  /\ wakeup_internal
  /\ UNCHANGED <<use, wait_count, result_status, resumer, timeout, waiter_id, returned, on_timeout,
                 todo, worker, nested, part>>

RunNestedTask ==
  /\ part = "nested"
  /\ nested > 0
  /\ nested' = nested - 1
  /\ wakeup_internal
  /\ UNCHANGED <<use, wait_count, result_status, resumer, timeout, waiter_id, returned, on_timeout,
                 todo, worker, scheduled, part>>

\* A nested task never outlives its pass, nor does a ready coroutine.
NextPhase ==
  /\ waiter # "starting"
  /\ part = "nested" => nested = 0
  /\ part = "coros" => waiter # "ready" /\ \A w \in Workers : worker[w] # "post_here"
  /\ part' = CASE part = "timers" -> "tasks"
                [] part = "tasks" -> "nested"
                [] part = "nested" -> "coros"
                [] part = "coros" -> "timers"
  /\ UNCHANGED <<use, waitVars, wait_count, todo, worker, scheduled, nested>>

-----------------------------------------------------------------------------
GroupNext ==
  \/ \E w \in Workers : AddAndGo(w) \/ FetchSub(w) \/ PostWakeup(w)
  \/ Wait \/ WaitReturns \/ OnTimeOut \/ RunScheduledTask \/ RunNestedTask \/ NextPhase

GroupSpec == GroupInit /\ [][GroupNext]_groupVars

\* The waiter starts its workers and waits; every worker finishes; the loop goes
\* round, and runs what is posted to it (PostedTaskRuns of MessageLoop).
GroupFairness ==
  /\ WF_groupVars(Wait \/ \E w \in Workers : AddAndGo(w))
  /\ WF_groupVars(NextPhase) /\ WF_groupVars(RunNestedTask) /\ WF_groupVars(WaitReturns)
  /\ SF_groupVars(RunScheduledTask)
  /\ \A w \in Workers : SF_groupVars(FetchSub(w)) /\ SF_groupVars(PostWakeup(w))

GroupFairSpec == GroupSpec /\ GroupFairness

-----------------------------------------------------------------------------
(* Properties.                                                             *)

Finished == {w \in Workers : worker[w] \in {"post_here", "post_elsewhere", "done"}}

\* "WaitGroup can wait multi task done": a Wait that returns kSuccess returns when
\* every worker has called Done.
SuccessMeansDone == returned = "kSuccess" => Finished = Workers

\* It does when the count is added before the first worker starts: the count then
\* reaches zero once, with the last Done.
AddedFirstWaits == add_first => SuccessMeansDone

\* "timeout event be removed, OnTimeOut never invoked": once Wait has returned and
\* the WaitGroup may be gone, no timer that holds its raw `this' is armed.
NoTimerAfterReturn == returned # "" => timeout # "armed"

\* "all task done, timeout event be removed, OnTimeOut never invoked": the timer
\* does not fire any more when every task is done.
TimeoutMeansPending == on_timeout # 0

\* A timer that fires when every task is done fires before the wake-up of the last Done
\* has come through the loop: it never fires at a Wait that this wake-up has reached.
LateTimeoutIsRace ==
  [][on_timeout' = 0 /\ on_timeout # 0 =>
       scheduled + nested > 0 \/ \E w \in Workers : worker[w] = "post_elsewhere"]_groupVars

\* A coroutine that waits is resumed: by the last Done, or by its timer.
WaitEnds == <>(waiter = "returned")
=============================================================================
