---------------------------- MODULE MessageLoop ----------------------------
(***************************************************************************)
(* How base::MessageLoop takes tasks from other threads and runs them:     *)
(* PostTask, the notify_flag_ / eventfd handshake of WakeUpIfNeeded and    *)
(* RunCommandTask, the nested tasks of the loop thread, QuitLoop and the   *)
(* drains at the end of ThreadMain.                                        *)
(*                                                                         *)
(* A task is a number: the n-th task its source posted.  What a task does  *)
(* while it runs is to post, to call QuitLoop or WakeUpIfNeeded, or        *)
(* nothing, any number of times; the handlers of other events in the pump  *)
(* and the coroutines that delegate_runner_->Run() resumes do the same.  A *)
(* failed CHECK ends the process: `aborted'.                               *)
(***************************************************************************)
EXTENDS Naturals, Sequences

CONSTANTS Producers,    \* threads, other than the loop's, that call PostTask
          Loop,         \* the loop's own thread, as a source of tasks
          MaxPost,      \* bound: calls of PostTask per producer
          MaxNested,    \* bound: calls of PostTask from within the loop
          EventFdMax    \* largest value an eventfd counter can hold

ASSUME LoopAssumption ==
  /\ Loop \notin Producers
  /\ MaxPost \in Nat
  /\ MaxNested \in Nat
  /\ EventFdMax \in Nat /\ EventFdMax > 1

VARIABLES
  running,          \* running_
  aborted,          \* a CHECK failed
  notify_flag,      \* notify_flag_
  eventfd,          \* the counter behind task_event_
  scheduled_tasks,  \* scheduled_tasks_, one FIFO stream per producer
  in_loop_tasks,    \* in_loop_tasks_
  nest_tasks,       \* the local nest_tasks of RunNestedTask
  pc,               \* where the loop thread is in ThreadMain
  ret,              \* where it goes on when the task it runs returns
  seen,             \* streams try_dequeue has found empty in this call
  ppc,              \* where each producer is in PostTask
  posted,           \* history: tasks each source has handed to PostTask
  ran,              \* history: tasks each source has seen run, in order
  accepted          \* history: what `posted' was at the first QuitLoop

loopVars == <<pc, ret, seen, in_loop_tasks, nest_tasks>>
vars == <<running, aborted, notify_flag, eventfd, scheduled_tasks,
          in_loop_tasks, nest_tasks, pc, ret, seen, ppc, posted, ran, accepted>>

Sources == Producers \cup {Loop}

LoopPC == {"created", "while", "pump", "read", "clear", "drain", "body", "body_write",
           "nested", "run_nested", "final_nested", "final_run_nested", "final_drain", "ended"}

ProducerPC == {"ready", "enqueue", "test_and_set", "write"}

\* The loop thread runs a task, a handler or a coroutine.
InBody == pc \in {"body", "body_write"}

\* The loop thread has not yet left the while loop of ThreadMain.
InWhile == pc \notin {"created", "final_nested", "final_run_nested", "final_drain", "ended"}

TypeOK ==
  /\ running \in BOOLEAN
  /\ aborted \in BOOLEAN
  /\ notify_flag \in BOOLEAN
  /\ eventfd \in 0..EventFdMax
  /\ scheduled_tasks \in [Producers -> Seq(Nat)]
  /\ in_loop_tasks \in Seq(Nat)
  /\ nest_tasks \in Seq(Nat)
  /\ pc \in LoopPC
  /\ ret \in {"read", "drain", "nested", "run_nested", "while", "final_run_nested", "final_drain"}
  /\ seen \in SUBSET Producers
  /\ ppc \in [Producers -> ProducerPC]
  /\ posted \in [Sources -> Nat]
  /\ ran \in [Sources -> Seq(Nat)]
  /\ accepted \in [Sources -> Nat]

\* MessageLoop::MessageLoop
Init ==
  /\ running = FALSE
  /\ aborted = FALSE
  /\ notify_flag = FALSE
  /\ eventfd = 0
  /\ scheduled_tasks = [p \in Producers |-> <<>>]
  /\ in_loop_tasks = <<>>
  /\ nest_tasks = <<>>
  /\ pc = "created"
  /\ ret = "while"
  /\ seen = {}
  /\ ppc = [p \in Producers |-> "ready"]
  /\ posted = [s \in Sources |-> 0]
  /\ ran = [s \in Sources |-> <<>>]
  /\ accepted = [s \in Sources |-> 0]
-----------------------------------------------------------------------------
(* MessageLoop::PostTask called by another thread, step by step.           *)

\* CHECK(running_)
CheckRunning(p) ==
  /\ ppc[p] = "ready"
  /\ pc # "created"
  /\ posted[p] < MaxPost
  /\ IF running
     THEN ppc' = [ppc EXCEPT ![p] = "enqueue"] /\ UNCHANGED aborted
     ELSE aborted' = TRUE /\ UNCHANGED ppc
  /\ UNCHANGED <<loopVars, running, notify_flag, eventfd, scheduled_tasks, posted, ran, accepted>>

\* scheduled_tasks_.enqueue(std::move(task))
Enqueue(p) ==
  /\ ppc[p] = "enqueue"
  /\ scheduled_tasks' = [scheduled_tasks EXCEPT ![p] = Append(@, posted[p] + 1)]
  /\ posted' = [posted EXCEPT ![p] = @ + 1]
  /\ ppc' = [ppc EXCEPT ![p] = "test_and_set"]
  /\ UNCHANGED <<loopVars, running, aborted, notify_flag, eventfd, ran, accepted>>

\* WakeUpIfNeeded alone, from a Publish or a Resume of the coroutines' runner
CallWakeUp(p) ==
  /\ ppc[p] = "ready"
  /\ pc # "created"
  /\ ppc' = [ppc EXCEPT ![p] = "test_and_set"]
  /\ UNCHANGED <<loopVars, running, aborted, notify_flag, eventfd, scheduled_tasks, posted, ran, accepted>>

\* Mutant: the flag is tested and set even when the write is not this thread's.
TestAndSetSkipsWrite(p) ==
  /\ ppc[p] = "test_and_set"
  /\ notify_flag' = TRUE
  /\ ppc' = [ppc EXCEPT ![p] = "ready"]
  /\ UNCHANGED <<loopVars, running, aborted, eventfd, scheduled_tasks, posted, ran, accepted>>

\* WakeUpIfNeeded: only the thread that sets notify_flag_ writes the eventfd
TestAndSet(p) ==
  /\ ppc[p] = "test_and_set"
  /\ notify_flag' = TRUE
  /\ ppc' = [ppc EXCEPT ![p] = IF notify_flag THEN "ready" ELSE "write"]
  /\ UNCHANGED <<loopVars, running, aborted, eventfd, scheduled_tasks, posted, ran, accepted>>

\* Notify(task_event_): the write of a non-blocking eventfd fails when the
\* counter is full, and then WakeUpIfNeeded gives the flag back.
WriteEventFd(p) ==
  /\ ppc[p] = "write"
  /\ IF eventfd < EventFdMax
     THEN eventfd' = eventfd + 1 /\ UNCHANGED notify_flag
     ELSE notify_flag' = FALSE /\ UNCHANGED eventfd
  /\ ppc' = [ppc EXCEPT ![p] = "ready"]
  /\ UNCHANGED <<loopVars, running, aborted, scheduled_tasks, posted, ran, accepted>>

-----------------------------------------------------------------------------
(* QuitLoop, from any thread.                                              *)

QuitLoop ==
  /\ running' = FALSE
  /\ accepted' = IF running THEN posted ELSE accepted

OtherThreadQuits ==
  /\ pc # "created"
  /\ running
  /\ QuitLoop
  /\ UNCHANGED <<loopVars, aborted, notify_flag, eventfd, scheduled_tasks, ppc, posted, ran>>

-----------------------------------------------------------------------------
(* What the task, or the coroutine, that the loop thread runs may do.      *)

\* PostTask in the loop thread
BodyPost ==
  /\ pc = "body"
  /\ posted[Loop] < MaxNested
  /\ IF running
     THEN /\ in_loop_tasks' = Append(in_loop_tasks, posted[Loop] + 1)
          /\ posted' = [posted EXCEPT ![Loop] = @ + 1]
          /\ UNCHANGED aborted
     ELSE aborted' = TRUE /\ UNCHANGED <<in_loop_tasks, posted>>
  /\ UNCHANGED <<pc, ret, seen, nest_tasks, running, notify_flag, eventfd,
                 scheduled_tasks, ppc, ran, accepted>>

BodyQuit ==
  /\ pc = "body"
  /\ running
  /\ QuitLoop
  /\ UNCHANGED <<loopVars, aborted, notify_flag, eventfd, scheduled_tasks, ppc, posted, ran>>

\* WakeUpIfNeeded in the loop thread, from a Resume
BodyTestAndSet ==
  /\ pc = "body"
  /\ notify_flag' = TRUE
  /\ pc' = IF notify_flag THEN "body" ELSE "body_write"
  /\ UNCHANGED <<ret, seen, in_loop_tasks, nest_tasks, running, aborted, eventfd,
                 scheduled_tasks, ppc, posted, ran, accepted>>

BodyWriteEventFd ==
  /\ pc = "body_write"
  /\ IF eventfd < EventFdMax
     THEN eventfd' = eventfd + 1 /\ UNCHANGED notify_flag
     ELSE notify_flag' = FALSE /\ UNCHANGED eventfd
  /\ pc' = "body"
  /\ UNCHANGED <<ret, seen, in_loop_tasks, nest_tasks, running, aborted,
                 scheduled_tasks, ppc, posted, ran, accepted>>

BodyReturn ==
  /\ pc = "body"
  /\ pc' = ret
  /\ UNCHANGED <<ret, seen, in_loop_tasks, nest_tasks, running, aborted, notify_flag,
                 eventfd, scheduled_tasks, ppc, posted, ran, accepted>>
-----------------------------------------------------------------------------
(* MessageLoop::ThreadMain.                                                *)

LoopUnchanged == UNCHANGED <<running, aborted, notify_flag, eventfd, scheduled_tasks,
                             in_loop_tasks, nest_tasks, ret, seen, ppc, posted, ran, accepted>>

\* running_ = true; PrepareRun; InstallFdEvent; notify_all
ThreadBegin ==
  /\ pc = "created"
  /\ pc' = "while"
  /\ running' = TRUE
  /\ UNCHANGED <<aborted, notify_flag, eventfd, scheduled_tasks, in_loop_tasks, nest_tasks,
                 ret, seen, ppc, posted, ran, accepted>>

\* Mutant: ThreadMain goes straight to its last RunScheduledTask.
WhileSkipsFinalNested ==
  /\ pc = "while"
  /\ pc' = IF running THEN "pump" ELSE "final_drain"
  /\ seen' = {}
  /\ UNCHANGED <<running, aborted, notify_flag, eventfd, scheduled_tasks, in_loop_tasks,
                 nest_tasks, ret, ppc, posted, ran, accepted>>

\* while (running_)
WhileRunning ==
  /\ pc = "while"
  /\ pc' = IF running THEN "pump" ELSE "final_nested"
  /\ LoopUnchanged

\* pump_.Pump(PumpTimeout()): the level-triggered task_event_ is reported when
\* its counter is not zero; otherwise the wait times out after 50 ms at most.
\* Timers and other events are handled on the way.
Pump ==
  /\ pc = "pump"
  /\ pc' = "body"
  /\ ret' = IF eventfd > 0 THEN "read" ELSE "nested"
  /\ UNCHANGED <<running, aborted, notify_flag, eventfd, scheduled_tasks, in_loop_tasks,
                 nest_tasks, seen, ppc, posted, ran, accepted>>

\* RunCommandTask(TaskTypeDefault): read(task_event_)
ReadEventFd ==
  /\ pc = "read"
  /\ eventfd' = 0
  /\ pc' = "clear"
  /\ UNCHANGED <<running, aborted, notify_flag, scheduled_tasks, in_loop_tasks, nest_tasks,
                 ret, seen, ppc, posted, ran, accepted>>

\* Mutant: the flag is never given back.
ForgetClear ==
  /\ pc = "clear"
  /\ pc' = "drain"
  /\ seen' = {}
  /\ UNCHANGED <<running, aborted, notify_flag, eventfd, scheduled_tasks, in_loop_tasks,
                 nest_tasks, ret, ppc, posted, ran, accepted>>

\* RunCommandTask(TaskTypeDefault): notify_flag_.clear()
ClearNotifyFlag ==
  /\ pc = "clear"
  /\ notify_flag' = FALSE
  /\ pc' = "drain"
  /\ seen' = {}
  /\ UNCHANGED <<running, aborted, eventfd, scheduled_tasks, in_loop_tasks, nest_tasks,
                 ret, ppc, posted, ran, accepted>>

\* Mutant: the task is run but left in the queue.
DequeueKeepsTask(p) ==
  /\ pc \in {"drain", "final_drain"}
  /\ scheduled_tasks[p] # <<>>
  /\ Len(ran[p]) < MaxPost
  /\ ran' = [ran EXCEPT ![p] = Append(@, Head(scheduled_tasks[p]))]
  /\ seen' = {}
  /\ pc' = "body"
  /\ ret' = pc
  /\ UNCHANGED <<running, aborted, notify_flag, eventfd, scheduled_tasks, in_loop_tasks,
                 nest_tasks, ppc, posted, accepted>>

\* RunScheduledTask: try_dequeue finds a task in the stream of p and runs it
Dequeue(p) ==
  /\ pc \in {"drain", "final_drain"}
  /\ scheduled_tasks[p] # <<>>
  /\ scheduled_tasks' = [scheduled_tasks EXCEPT ![p] = Tail(@)]
  /\ ran' = [ran EXCEPT ![p] = Append(@, Head(scheduled_tasks[p]))]
  /\ seen' = {}
  /\ pc' = "body"
  /\ ret' = pc
  /\ UNCHANGED <<running, aborted, notify_flag, eventfd, in_loop_tasks, nest_tasks,
                 ppc, posted, accepted>>

\* try_dequeue looks at the streams one after the other; one that is empty when
\* looked at may be filled while the others are
FindEmpty(p) ==
  /\ pc \in {"drain", "final_drain"}
  /\ p \notin seen
  /\ scheduled_tasks[p] = <<>>
  /\ seen' = seen \cup {p}
  /\ UNCHANGED <<pc, ret, in_loop_tasks, nest_tasks, running, aborted, notify_flag, eventfd,
                 scheduled_tasks, ppc, posted, ran, accepted>>

\* RunScheduledTask returns: to the pump, which handles the events that are
\* left, or to the end of ThreadMain
DrainEnd ==
  /\ pc \in {"drain", "final_drain"}
  /\ seen = Producers
  /\ IF pc = "drain" THEN pc' = "body" /\ ret' = "nested" ELSE pc' = "ended" /\ UNCHANGED ret
  /\ UNCHANGED <<running, aborted, notify_flag, eventfd, scheduled_tasks, in_loop_tasks,
                 nest_tasks, seen, ppc, posted, ran, accepted>>

\* RunNestedTask: nest_tasks(std::move(in_loop_tasks_))
TakeNested ==
  /\ pc \in {"nested", "final_nested"}
  /\ nest_tasks' = in_loop_tasks
  /\ in_loop_tasks' = <<>>
  /\ pc' = IF pc = "nested" THEN "run_nested" ELSE "final_run_nested"
  /\ UNCHANGED <<running, aborted, notify_flag, eventfd, scheduled_tasks, ret, seen, ppc,
                 posted, ran, accepted>>

\* RunNestedTask: for (task : nest_tasks) task->Run()
RunNested ==
  /\ pc \in {"run_nested", "final_run_nested"}
  /\ nest_tasks # <<>>
  /\ nest_tasks' = Tail(nest_tasks)
  /\ ran' = [ran EXCEPT ![Loop] = Append(@, Head(nest_tasks))]
  /\ pc' = "body"
  /\ ret' = pc
  /\ UNCHANGED <<running, aborted, notify_flag, eventfd, scheduled_tasks, in_loop_tasks, seen,
                 ppc, posted, accepted>>

\* Mutant: after the coroutines the pass starts again at the pump, whatever running_ says.
RunDelegateSkipsTest ==
  /\ pc \in {"run_nested", "final_run_nested"}
  /\ nest_tasks = <<>>
  /\ pc' = "body"
  /\ ret' = IF pc = "run_nested" THEN "pump" ELSE "final_drain"
  /\ seen' = {}
  /\ UNCHANGED <<running, aborted, notify_flag, eventfd, scheduled_tasks, in_loop_tasks,
                 nest_tasks, ppc, posted, ran, accepted>>

\* RunNestedTask: delegate_runner_->Run(), then the next pass of the while loop
\* or the last RunScheduledTask
RunDelegate ==
  /\ pc \in {"run_nested", "final_run_nested"}
  /\ nest_tasks = <<>>
  /\ pc' = "body"
  /\ ret' = IF pc = "run_nested" THEN "while" ELSE "final_drain"
  /\ seen' = {}
  /\ UNCHANGED <<running, aborted, notify_flag, eventfd, scheduled_tasks, in_loop_tasks,
                 nest_tasks, ppc, posted, ran, accepted>>

-----------------------------------------------------------------------------
LoopStep ==
  \/ WhileRunning \/ Pump \/ ReadEventFd \/ ClearNotifyFlag
  \/ \E p \in Producers : Dequeue(p) \/ FindEmpty(p)
  \/ DrainEnd \/ TakeNested \/ RunNested \/ RunDelegate \/ BodyReturn
  \/ BodyWriteEventFd

\* A PostTask that has passed its CHECK runs to its end.
ProducerStep(p) == Enqueue(p) \/ TestAndSet(p) \/ WriteEventFd(p)

Next ==
  /\ ~aborted
  /\ \/ ThreadBegin \/ LoopStep \/ BodyPost \/ BodyQuit \/ BodyTestAndSet \/ OtherThreadQuits
     \/ \E p \in Producers : CheckRunning(p) \/ CallWakeUp(p) \/ ProducerStep(p)

Spec == Init /\ [][Next]_vars

\* The operating system runs the loop thread and every thread inside PostTask.
Fairness == WF_vars(~aborted /\ LoopStep) /\ \A p \in Producers : WF_vars(~aborted /\ ProducerStep(p))

FairSpec == Spec /\ Fairness

-----------------------------------------------------------------------------
(* Properties.                                                             *)

Draining == pc = "drain" \/ (InBody /\ ret = "drain")

\* What notify_flag_ stands for: when it is clear no wake-up is under way, and
\* when it is set exactly one is, in the hands of the thread that is about to
\* write the eventfd, in the eventfd, or with the loop thread between its read
\* and notify_flag_.clear().  So the counter never passes 1 and the write of
\* WakeUpIfNeeded never fails.
OneWakeup ==
  LET writing  == pc = "body_write" \/ \E p \in Producers : ppc[p] = "write"
      clearing == pc = "clear"
  IN /\ eventfd \in {0, 1}
     /\ notify_flag <=> (writing \/ eventfd = 1 \/ clearing)
     /\ ~(writing /\ eventfd = 1) /\ ~(writing /\ clearing) /\ ~(eventfd = 1 /\ clearing)
     /\ \A p \in Producers : ppc[p] = "write" =>
          pc # "body_write" /\ \A q \in Producers : ppc[q] = "write" => p = q

\* No wake-up is lost: a task that lies in scheduled_tasks_ while the loop
\* thread is in its while loop has a wake-up on its way.  Either the thread that
\* posted it has yet to test notify_flag_, or some thread is about to write the
\* eventfd, or the eventfd is readable, or the loop thread is draining and has
\* not yet passed the task's stream.
NoLostWakeup ==
  \A p \in Producers :
    scheduled_tasks[p] # <<>> /\ InWhile =>
      \/ ppc[p] = "test_and_set"
      \/ pc = "body_write" \/ \E q \in Producers : ppc[q] = "write"
      \/ eventfd > 0
      \/ pc = "clear"
      \/ Draining /\ p \notin seen

\* QuitLoop drops nothing that was posted before it: when ThreadMain returns,
\* every task that was in a queue when running_ was cleared has run, whichever
\* thread cleared it and wherever the loop thread was.
QuitRunsAccepted ==
  pc = "ended" =>
    /\ in_loop_tasks = <<>> /\ nest_tasks = <<>>
    /\ \A s \in Sources : Len(ran[s]) >= accepted[s]

\* A task that a thread has put into scheduled_tasks_, or a task of the loop
\* into in_loop_tasks_, is run by the loop unless the loop is told to quit or
\* the process is aborted.
PostedTaskRuns ==
  \A s \in Sources : \A n \in 1..(IF s = Loop THEN MaxNested ELSE MaxPost) :
    posted[s] >= n ~> (Len(ran[s]) >= n \/ ~running \/ aborted)

\* ThreadMain returns once running_ is cleared.
QuitEndsLoop == (~running /\ pc # "created") ~> (pc = "ended" \/ aborted)

-----------------------------------------------------------------------------
(* The strengthenings that make the invariants inductive.                  *)

\* The loop thread reads the eventfd only when it is readable: nobody else does.
ReadFindsOne == (pc = "read" \/ (InBody /\ ret = "read")) => eventfd = 1

\* NoLostWakeup in terms of notify_flag_ itself: once its poster has tested the
\* flag, a task in scheduled_tasks_ keeps the flag set until the loop thread,
\* having cleared it, looks at the task's stream.
PendingIsAnnounced ==
  \A p \in Producers :
    scheduled_tasks[p] # <<>> =>
      \/ notify_flag
      \/ ppc[p] = "test_and_set"
      \/ Draining /\ p \notin seen

WakeupInv == TypeOK /\ OneWakeup /\ ReadFindsOne /\ PendingIsAnnounced

\* Every posted task is in one queue or has run, and no more tasks were accepted
\* than posted.
TasksAccounted ==
  /\ \A p \in Producers : Len(ran[p]) + Len(scheduled_tasks[p]) = posted[p]
  /\ Len(ran[Loop]) + Len(nest_tasks) + Len(in_loop_tasks) = posted[Loop]
  /\ \A s \in Sources : accepted[s] <= posted[s]

\* The loop thread is in, or past, the last RunNestedTask; the last RunScheduledTask.
PastFinalTake == pc \in {"final_run_nested", "final_drain", "ended"}
                 \/ (InBody /\ ret \in {"final_run_nested", "final_drain"})
PastFinalNested == pc \in {"final_drain", "ended"} \/ (InBody /\ ret = "final_drain")

\* Where nest_tasks and in_loop_tasks_ are empty, and what the last drain has
\* established about the streams it has found empty.
FinalPhase ==
  /\ (PastFinalTake \/ pc = "final_nested") => ~running
  /\ PastFinalTake => in_loop_tasks = <<>>
  /\ PastFinalNested => nest_tasks = <<>>
  /\ pc \in {"while", "pump", "read", "clear", "drain", "nested", "final_nested", "created"}
       => nest_tasks = <<>>
  /\ (InBody /\ ret \in {"read", "drain", "nested", "while"}) => nest_tasks = <<>>
  /\ InBody /\ ret \in {"drain", "final_drain"} => seen = {}
  /\ pc \in {"final_drain", "ended"} => \A p \in seen : Len(ran[p]) >= accepted[p]
  /\ pc = "ended" => seen = Producers
  /\ pc = "created" => ~running

QuitInv == TypeOK /\ TasksAccounted /\ FinalPhase

-----------------------------------------------------------------------------
(* The tasks of one source run once each, in the order they were posted.   *)

Pending ==
  [s \in Sources |-> IF s = Loop THEN nest_tasks \o in_loop_tasks ELSE scheduled_tasks[s]]

Runner == INSTANCE TaskRunner WITH pending <- Pending

\* MessageLoop implements TaskRunner: whatever the interleaving, the two queues
\* and the vector swap of RunNestedTask behave as one FIFO per source.
RunnerSpec == Runner!Spec
=============================================================================
