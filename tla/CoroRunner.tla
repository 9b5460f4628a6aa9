----------------------------- MODULE CoroRunner -----------------------------
(***************************************************************************)
(* co::CoroRunner: the scheduler that runs tasks on coroutines inside the  *)
(* passes of a MessageLoop.  One runner is modelled with everything it     *)
(* shares: the process-wide queue g_remote, which other runners steal      *)
(* from, and its own queue remote_sched_, which other threads fill.  A     *)
(* coroutine is never preempted on its thread; the other threads           *)
(* interleave with every step.                                             *)
(***************************************************************************)
EXTENDS Naturals, Sequences, Functions

CONSTANTS Tasks,      \* the tasks published with co_go
          Coros,      \* the coroutines the runner may create
          Main,       \* main_
          NoTask,     \* a coroutine between two tasks
          MaxReuse,   \* max_reuse_co_
          MaxYields,  \* bound: yields of one task
          MaxCalls    \* bound: calls of resumers

ASSUME RunnerAssumption ==
  /\ Main \notin Coros /\ NoTask \notin Tasks
  /\ MaxReuse \in Nat /\ MaxYields \in Nat /\ MaxCalls \in Nat

VARIABLES
  phase,         \* the loop sleeps, handles events, or is in a part of Run
  wake,          \* the loop has been told to make a pass
  wakers,        \* other threads between an enqueue and WakeUpIfNeeded
  current,       \* current_
  ready_list,    \* ready_list_
  freelist,      \* freelist_
  gc_list,       \* gc_list_
  alive,         \* coroutines that exist
  unborn,        \* coroutines not created yet
  resume_id,     \* resume_id_ of each coroutine
  task,          \* the task a coroutine is in
  run,           \* run_: tasks, the queue it may dequeue from, and how often
  remote_sched,  \* remote_sched_
  sched_tasks,   \* sched_tasks_
  g_remote,      \* g_remote
  unpublished,   \* tasks not published yet
  yields,        \* how often each task has yielded
  resumers,      \* resumers that exist: coroutine and resume id
  called,        \* history: resumers that have been called
  calls,         \* calls of resumers so far
  started        \* history: how often each task was started, by any runner

listVars == <<ready_list, freelist, gc_list, alive, unborn>>
queueVars == <<remote_sched, sched_tasks, g_remote>>
wakeVars == <<wake, wakers>>
histVars == <<resumers, called, calls, started, yields, unpublished>>
vars == <<phase, wakeVars, current, listVars, resume_id, task, run, queueVars, histVars>>

Go(t) == [kind |-> "go", what |-> t]
Resumer(c, id) == [kind |-> "resume", what |-> <<c, id>>]
Items == [kind : {"go"}, what : Tasks] \cup [kind : {"resume"}, what : Coros \X Nat]

Phases == {"asleep", "events", "ready", "remote", "nested", "steal", "ready_again"}

TypeOK ==
  /\ phase \in Phases
  /\ wake \in BOOLEAN /\ wakers \in Nat
  /\ current \in Coros \cup {Main}
  /\ \A l \in {ready_list, freelist, gc_list} : l \in Seq(Coros)
  /\ alive \subseteq Coros /\ unborn \subseteq Coros /\ alive \cap unborn = {}
  /\ resume_id \in [Coros -> Nat]
  /\ task \in [Coros -> Tasks \cup {NoTask}]
  /\ \A q \in {remote_sched, sched_tasks, g_remote, run.tasks} : q \in Seq(Items)
  /\ run.queue \in {"none", "remote_sched", "g_remote"} /\ run.max \in Nat
  /\ resumers \subseteq Coros \X Nat /\ called \subseteq resumers
  /\ started \in [Tasks -> 0..1]

Init ==
  /\ phase = "asleep"
  /\ wake = FALSE /\ wakers = 0
  /\ current = Main
  /\ ready_list = <<>> /\ freelist = <<>> /\ gc_list = <<>>
  /\ alive = {} /\ unborn = Coros
  /\ resume_id = [c \in Coros |-> 0]
  /\ task = [c \in Coros |-> NoTask]
  /\ run = [tasks |-> <<>>, queue |-> "none", max |-> 0]
  /\ remote_sched = <<>> /\ sched_tasks = <<>> /\ g_remote = <<>>
  /\ unpublished = Tasks
  /\ yields = [t \in Tasks |-> 0]
  /\ resumers = {} /\ called = {} /\ calls = 0
  /\ started = [t \in Tasks |-> 0]

-----------------------------------------------------------------------------
(* The queues.                                                             *)

Remain == Len(run.tasks) + run.max

TaskCount == Len(sched_tasks) + Len(g_remote) + Len(remote_sched)

HasPeedingTask == TaskCount > 0 \/ ready_list # <<>>

Queue == IF run.queue = "remote_sched" THEN remote_sched ELSE g_remote

RunFrom(tasks, queue, max) == run' = [tasks |-> tasks, queue |-> queue, max |-> max]

\* Mutant: the resume id is not compared.
AttachAnyId(c, id) ==
  ready_list' = IF c \in alive /\ c \notin Range(ready_list \o freelist \o gc_list)
                THEN Append(ready_list, c) ELSE ready_list

\* Mutant: a coroutine is appended although it is on a list.
AttachTwice(c, id) ==
  ready_list' = IF c \in alive /\ resume_id[c] = id THEN Append(ready_list, c) ELSE ready_list

\* do_resume: the coroutine exists, has not been resumed since, and is on no list
do_resume(c, id) ==
  ready_list' =
    IF c \in alive /\ resume_id[c] = id /\ c \notin Range(ready_list \o freelist \o gc_list)
    THEN Append(ready_list, c) ELSE ready_list

-----------------------------------------------------------------------------
(* Other threads, and the events of the loop.                              *)

\* Mutant: nobody wakes the loop for the published task.
PublishOnly(t) ==
  /\ t \in unpublished
  /\ unpublished' = unpublished \ {t}
  /\ g_remote' = Append(g_remote, Go(t))
  /\ UNCHANGED <<phase, wakeVars, current, listVars, resume_id, task, run, remote_sched, sched_tasks,
                 resumers, called, calls, started, yields>>

\* co_go on another thread: Publish, then WakeUpIfNeeded
Publish(t) ==
  /\ t \in unpublished
  /\ unpublished' = unpublished \ {t}
  /\ g_remote' = Append(g_remote, Go(t))
  /\ wakers' = wakers + 1
  /\ UNCHANGED <<phase, wake, current, listVars, resume_id, task, run, remote_sched, sched_tasks,
                 resumers, called, calls, started, yields>>

\* co_go loop << functor: the posted task appends to sched_tasks_ in the loop
PublishHere(t) ==
  /\ phase = "events"
  /\ t \in unpublished
  /\ unpublished' = unpublished \ {t}
  /\ sched_tasks' = Append(sched_tasks, Go(t))
  /\ UNCHANGED <<phase, wakeVars, current, listVars, resume_id, task, run, remote_sched, g_remote,
                 resumers, called, calls, started, yields>>

\* Another runner dequeues from g_remote and runs the task on its thread.
StealElsewhere ==
  /\ g_remote # <<>>
  /\ g_remote' = Tail(g_remote)
  /\ started' = [started EXCEPT ![Head(g_remote).what] = @ + 1]
  /\ UNCHANGED <<phase, wakeVars, current, listVars, resume_id, task, run, remote_sched, sched_tasks,
                 resumers, called, calls, yields, unpublished>>

\* Resume on another thread: the closure goes to remote_sched_
ResumeElsewhere(c, id) ==
  /\ <<c, id>> \in resumers /\ calls < MaxCalls
  /\ called' = called \cup {<<c, id>>} /\ calls' = calls + 1
  /\ remote_sched' = Append(remote_sched, Resumer(c, id))
  /\ wakers' = wakers + 1
  /\ UNCHANGED <<phase, wake, current, listVars, resume_id, task, run, sched_tasks, g_remote,
                 resumers, started, yields, unpublished>>

\* Resume in the loop's thread, from an event handler or from a running task
ResumeHere(c, id) ==
  /\ phase = "events" \/ (current \in Coros \ {c} /\ task[current] # NoTask)
  /\ <<c, id>> \in resumers /\ calls < MaxCalls
  /\ called' = called \cup {<<c, id>>} /\ calls' = calls + 1
  /\ do_resume(c, id)
  /\ wake' = TRUE
  /\ UNCHANGED <<phase, wakers, current, freelist, gc_list, alive, unborn, resume_id, task, run,
                 queueVars, resumers, started, yields, unpublished>>

\* bind_loop_->WakeUpIfNeeded() of a thread that has enqueued
WakeUpIfNeeded ==
  /\ wakers > 0
  /\ wakers' = wakers - 1
  /\ wake' = TRUE
  /\ UNCHANGED <<phase, current, listVars, resume_id, task, run, queueVars, histVars>>

\* The loop makes a pass: it was woken, or some event of its own came.
Pass ==
  /\ phase = "asleep"
  /\ phase' = "events"
  /\ wake' = FALSE
  /\ UNCHANGED <<wakers, current, listVars, resume_id, task, run, queueVars, histVars>>

-----------------------------------------------------------------------------
(* CoroRunnerImpl::Run, on the main coroutine.                             *)

SwitchContext(c) ==
  /\ current' = c
  /\ resume_id' = [resume_id EXCEPT ![c] = @ + 1]

BeginRun ==
  /\ phase = "events"
  /\ phase' = "ready"
  /\ UNCHANGED <<wakeVars, current, listVars, resume_id, task, run, queueVars, histVars>>

\* while ((co = ready_list_.First()))
ResumeReady ==
  /\ phase \in {"ready", "ready_again"} /\ current = Main
  /\ ready_list # <<>>
  /\ ready_list' = Tail(ready_list)
  /\ SwitchContext(Head(ready_list))
  /\ UNCHANGED <<phase, wakeVars, freelist, gc_list, alive, unborn, task, run, queueVars, histVars>>

\* while (run_.Remain()) SwitchContext(Spawn()), on a parked coroutine
SpawnReused ==
  /\ phase \in {"remote", "nested", "steal"} /\ current = Main
  /\ Remain > 0
  /\ freelist # <<>>
  /\ freelist' = Tail(freelist)
  /\ SwitchContext(Head(freelist))
  /\ UNCHANGED <<phase, wakeVars, ready_list, gc_list, alive, unborn, task, run, queueVars, histVars>>

\* ... or on a new one: which of those not created yet makes no difference
SpawnNew ==
  /\ phase \in {"remote", "nested", "steal"} /\ current = Main
  /\ Remain > 0
  /\ freelist = <<>>
  /\ unborn # {}
  /\ LET c == CHOOSE c \in unborn : TRUE IN
       /\ unborn' = unborn \ {c}
       /\ alive' = alive \cup {c}
       /\ SwitchContext(c)
  /\ UNCHANGED <<phase, wakeVars, ready_list, freelist, gc_list, task, run, queueVars, histVars>>

\* run_.Reset(); run_.WithQueueTillNow(&remote_sched_)
RunRemoteSched ==
  /\ phase = "ready" /\ current = Main /\ ready_list = <<>>
  /\ phase' = "remote"
  /\ RunFrom(<<>>, "remote_sched", Len(remote_sched))
  /\ UNCHANGED <<wakeVars, current, listVars, resume_id, task, queueVars, histVars>>

\* run_.Reset(); run_.SwapFromTaskList(sched_tasks_)
RunSchedTasks ==
  /\ phase = "remote" /\ current = Main /\ Remain = 0
  /\ phase' = "nested"
  /\ RunFrom(sched_tasks, "none", 0)
  /\ sched_tasks' = <<>>
  /\ UNCHANGED <<wakeVars, current, listVars, resume_id, task, remote_sched, g_remote, histVars>>

\* run_.Reset(); run_.WithQueueTillNow(&g_remote)
RunGRemote ==
  /\ phase = "nested" /\ current = Main /\ Remain = 0
  /\ phase' = "steal"
  /\ RunFrom(<<>>, "g_remote", Len(g_remote))
  /\ UNCHANGED <<wakeVars, current, listVars, resume_id, task, queueVars, histVars>>

ReadyAgain ==
  /\ phase = "steal" /\ current = Main /\ Remain = 0
  /\ phase' = "ready_again"
  /\ UNCHANGED <<wakeVars, current, listVars, resume_id, task, run, queueVars, histVars>>

\* Mutant: the loop sleeps over what is left for the next pass.
EndRunSleeps ==
  /\ phase = "ready_again" /\ current = Main /\ ready_list = <<>>
  /\ phase' = "asleep"
  /\ UNCHANGED <<wakeVars, current, listVars, resume_id, task, run, queueVars, histVars>>

\* Run returns, and PumpTimeout lets the pump block unless HasPeedingTask; that a
\* blocked pump looks again after 50 ms is not relied upon
EndRun ==
  /\ phase = "ready_again" /\ current = Main /\ ready_list = <<>>
  /\ phase' = "asleep"
  /\ wake' = (wake \/ HasPeedingTask)
  /\ UNCHANGED <<wakers, current, listVars, resume_id, task, run, queueVars, histVars>>

-----------------------------------------------------------------------------
(* A coroutine: CoroMain and the task it runs.                             *)

\* Back on the main coroutine, which calls FreeCoros.
SwitchToMain(gc) ==
  /\ current' = Main
  /\ alive' = alive \ Range(gc)
  /\ gc_list' = <<>>

\* What PopTask returns, taken out of run_ or its queue
Popped ==
  IF run.tasks # <<>> THEN Head(run.tasks) ELSE Head(Queue)

PopTask ==
  IF run.tasks # <<>>
  THEN /\ run' = [run EXCEPT !.tasks = Tail(@)]
       /\ UNCHANGED <<remote_sched, g_remote>>
  ELSE /\ run.max > 0 /\ Queue # <<>>
       /\ run' = [run EXCEPT !.max = @ - 1]
       /\ IF run.queue = "remote_sched"
          THEN remote_sched' = Tail(remote_sched) /\ UNCHANGED g_remote
          ELSE g_remote' = Tail(g_remote) /\ UNCHANGED remote_sched

\* The popped task begins ...
PopAndStart ==
  /\ current \in Coros /\ task[current] = NoTask
  /\ PopTask
  /\ Popped.kind = "go"
  /\ task' = [task EXCEPT ![current] = Popped.what]
  /\ started' = [started EXCEPT ![Popped.what] = @ + 1]
  /\ UNCHANGED <<phase, wakeVars, current, listVars, resume_id, sched_tasks,
                 resumers, called, calls, yields, unpublished>>

\* ... or is a do_resume, or the resumer that Sched appended: Resume in the loop
PopAndResume ==
  /\ current \in Coros /\ task[current] = NoTask
  /\ PopTask
  /\ Popped.kind = "resume"
  /\ do_resume(Popped.what[1], Popped.what[2])
  /\ wake' = (wake \/ run.queue = "none")
  /\ UNCHANGED <<phase, wakers, current, freelist, gc_list, alive, unborn, resume_id, task,
                 sched_tasks, histVars>>

\* PopTask fails: ExitCurrent parks the coroutine, or leaves it to FreeCoros
ExitCurrent ==
  /\ current \in Coros /\ task[current] = NoTask
  /\ run.tasks = <<>> /\ (run.max = 0 \/ Queue = <<>>)
  /\ run' = [run EXCEPT !.max = 0]
  /\ IF Len(freelist) < MaxReuse
     THEN freelist' = Append(freelist, current) /\ SwitchToMain(gc_list)
     ELSE UNCHANGED freelist /\ SwitchToMain(Append(gc_list, current))
  /\ UNCHANGED <<phase, wakeVars, ready_list, unborn, resume_id, task, queueVars, histVars>>

TaskEnds ==
  /\ current \in Coros /\ task[current] # NoTask
  /\ task' = [task EXCEPT ![current] = NoTask]
  /\ UNCHANGED <<phase, wakeVars, current, listVars, resume_id, run, queueVars, histVars>>

\* MakeResumer, and Yield: the resumer is in the hands of whoever is waited for
TaskYields ==
  /\ current \in Coros /\ task[current] # NoTask
  /\ yields[task[current]] < MaxYields
  /\ yields' = [yields EXCEPT ![task[current]] = @ + 1]
  /\ resumers' = resumers \cup {<<current, resume_id[current]>>}
  /\ SwitchToMain(gc_list)
  /\ UNCHANGED <<phase, wakeVars, ready_list, freelist, unborn, resume_id, task, run, queueVars,
                 called, calls, started, unpublished>>

\* Sched: give way to what is pending, and come back through sched_tasks_
TaskScheds ==
  /\ current \in Coros /\ task[current] # NoTask
  /\ yields[task[current]] < MaxYields
  /\ HasPeedingTask
  /\ yields' = [yields EXCEPT ![task[current]] = @ + 1]
  /\ resumers' = resumers \cup {<<current, resume_id[current]>>}
  /\ called' = called \cup {<<current, resume_id[current]>>}
  /\ sched_tasks' = Append(sched_tasks, Resumer(current, resume_id[current]))
  /\ SwitchToMain(gc_list)
  /\ UNCHANGED <<phase, wakeVars, ready_list, freelist, unborn, resume_id, task, run,
                 remote_sched, g_remote, calls, started, unpublished>>

-----------------------------------------------------------------------------
Elsewhere ==
  \/ \E t \in Tasks : Publish(t)
  \/ \E r \in resumers : ResumeElsewhere(r[1], r[2])
  \/ StealElsewhere

Here ==
  \/ \E t \in Tasks : PublishHere(t)
  \/ \E r \in resumers : ResumeHere(r[1], r[2])

RunStep ==
  \/ BeginRun \/ ResumeReady \/ SpawnReused \/ SpawnNew
  \/ RunRemoteSched \/ RunSchedTasks \/ RunGRemote \/ ReadyAgain \/ EndRun

CoroStep ==
  \/ PopAndStart \/ PopAndResume \/ ExitCurrent \/ TaskEnds \/ TaskYields \/ TaskScheds

Next == Elsewhere \/ Here \/ WakeUpIfNeeded \/ Pass \/ RunStep \/ CoroStep

Spec == Init /\ [][Next]_vars

\* A woken loop makes its pass (NoLostWakeup of MessageLoop), Run goes on, a task
\* ends or yields, and a thread that has enqueued gets to its WakeUpIfNeeded.
Fairness ==
  /\ WF_vars(wake /\ Pass) /\ WF_vars(WakeUpIfNeeded)
  /\ WF_vars(RunStep) /\ WF_vars(CoroStep)

FairSpec == Spec /\ Fairness

-----------------------------------------------------------------------------
(* Properties.                                                             *)

Lists == ready_list \o freelist \o gc_list

\* CHECK(!co->Attatched()) in GC and in ~Coroutine, DCHECK(next != current_) in
\* SwitchContext: a coroutine is on one list at most, and a running one on none.
OnOneList ==
  /\ \A i, j \in DOMAIN Lists : Lists[i] = Lists[j] => i = j
  /\ \A i \in DOMAIN Lists : Lists[i] # current /\ Lists[i] \in alive

\* A coroutine gets ready only in the yield that the called resumer was made in:
\* a late or a repeated call never resumes a later yield, or a parked coroutine.
ReadyWasCalled ==
  \A i \in DOMAIN ready_list :
    LET c == ready_list[i] IN task[c] # NoTask /\ <<c, resume_id[c]>> \in called

\* A published task is started, by this runner or by another.
PublishedRuns == \A t \in Tasks : t \notin unpublished ~> started[t] = 1

\* A coroutine whose resumer was called, in the yield it is in, goes on.
CalledResumes ==
  \A c \in Coros : <<c, resume_id[c]>> \in called ~> <<c, resume_id[c]>> \notin called
=============================================================================
