# A TLA+ model of ltio

ltio is a C++ library for network programs: message loops, coroutines that run
on them, and on top of both a TCP/UDP stack with servers, clients and codecs.
These modules model the parts of it in which threads, coroutines, timers and
connections meet, check them with TLC on small instances, and prove the most
important facts with TLAPS for every instance.

A model keeps the control of the code (every state change, guard, early return
and error path, in the order in which they happen) and abstracts the data: a
task is a number, a message a model value, a coroutine's stack the place it is
at. Names follow the code; a comment names the statement behind an action where
the name does not.

## The system

| Part | State | Operations | What makes it hard |
|---|---|---|---|
| `base::MessageLoop` | `running_`, `notify_flag_`, the eventfd, `scheduled_tasks_`, `in_loop_tasks_` | `PostTask`, `WakeUpIfNeeded`, `RunCommandTask`, `RunNestedTask`, `QuitLoop`, `Start`, `WaitLoopEnd`, destructor | posts and quits at every point of the loop's pass; a condition variable notified without its mutex |
| `co::CoroRunner` | `current_`, ready, free and garbage lists, `run_`, three task queues, resume ids | `Run`, `Resume`, `Publish`, `Sched`, `Yield`, `Spawn`, `GC` | late and repeated resumes, reuse of coroutines, queues shared between runners |
| `co::WaitGroup` | `wait_count_`, `resumer_`, `timeout_`, `result_status_` | `Add`, `Done`, `Wait`, `OnTimeOut` | `Done` on other threads, a timer racing the last `Done` |
| `co::CoMutex` | `locked_`, `waiters_` | `lock`, `try_lock`, `unlock` | hand-over to a coroutine of another loop, before it has yielded |
| `net::ClientChannel`: `QueuedChannel`, `AsyncChannel` | `ing_request_`, `waiting_list_`, `in_progress_`, `heartbeat_message_`, `delegate_`, `state_`, timers | `SendRequest`, `OnCodecMessage`, `OnRequestTimeout`, `OnCodecClosed`, `CloseClientChannel`, heartbeat | failed sends, timeouts, late answers, close by either side |
| `net::Client`, `net::Connector` | `channels_`, `in_use_channels_`, `inprogress_`, `count_`, `stopping_` | `Initialize`, `Dial`, `OnConnected`, `OnConnectFailed`, `OnClientChannelClosed`, `Finalize` | three threads; reconnects race with closes and with the end |
| `net::CodecService`, `TcpChannel`, `IOBuffer` | status, scheduled close, two buffers, monitored events | `HandleEvent`, `HandleRead`, `HandleWrite`, `Send`, `TryFlushChannel`, `CloseService` | partial writes, edge-triggered events, close while data is left |
| `net::IOService`, `SocketAcceptor`, `BaseServer` | `codecs_`, `client_count_`, `is_stopping_`, `ioservices_` | serve, accept, store, remove, stop | a connection is accepted, served and removed on different loops |
| `EventPump`, `FdEvent`, `IOMuxEpoll`, `co::IOEvent` | registered and fired events, the resumer of a wait | install, change, remove, fire, wait | an event that is stale when its handler runs |
| codecs | what is parsed, a posted flush | `OnDataReceived`, `SendResponse` | a stream that is cut anywhere |
| timers, UDP, routers, caches, indexers | | | see the last section |

How they interact: a thread reaches a loop only through `PostTask` or
`WakeUpIfNeeded`. In each pass a loop handles timers and descriptors, then
posted and nested tasks, then calls `CoroRunner::Run`. A coroutine that waits
(for a lock, a group, a response) leaves a resumer with whoever will end the
wait, and resumers come back through the loop of the coroutine. A request of a
client is a coroutine that posts `SendRequest` to the loop of a channel and
yields until `OnRequestGetResponse` calls its resumer. A server accepts on the loop of an
`IOService`, hands the connection to an I/O loop, where the pump (or a coroutine in
`coso::IOService`) drives its codec, and is told by a posted task when it has closed.

## Modules

| Module | Models | Checked by |
|---|---|---|
| `MessageLoop` | the task side of `message_loop.cc` | `loop` |
| `TaskRunner` | abstract: one FIFO per source | refined by `MessageLoop` |
| `MessageLoopProofs` | theorems about `MessageLoop` and `LoopLifecycle` | |
| `LoopLifecycle` | `Start`, `WaitLoopEnd`, `QuitLoop`, destructor against `ThreadMain` | `lifecycle`, `lifecycle_start` |
| `CoroRunner` | `co_runner.cc`, one runner among others | `coro_runner` |
| `WaitGroup` | `wait_group.cc` on the passes of a loop | `wait_group` |
| `CoMutex` | `co_mutex.cc` over several loops | `co_mutex` |
| `FifoLock` | abstract: a lock granted in the order of the queue | refined by `CoMutex` |
| `CoroutineProofs` | theorems about `CoroRunner` and `CoMutex` | |
| `ClientChannel` | `queued_channel.cc`, `async_channel.cc`, `client_channel.cc`, the posting side of `client.cc` | `client_channel` |
| `ClientChannelProofs` | theorems about `ClientChannel` | |
| `Client` | `client.cc` and `client_connector.cc` | `client`, `client_connects` |
| `ClientProofs` | theorems about `Client` and `WaitGroup` | |
| `IOBuffer` | `io_buffer.cc`, as operators on a buffer | part of `Connection` |
| `Connection` | one server connection: epoll, `FdEvent`, `TcpChannel`, `CodecService`, three codecs, the pump or `handle_connection` | `connection`, `connection_close` |
| `ConnectionProofs` | theorems about `IOBuffer` and `Connection` | |
| `Server` | `generic_server.h`, `io_service.cc`, `socket_acceptor.cc` over several loops | `server` |
| `ServerQueueProofs` | what the queues of `Server` hold and how its steps change them | |
| `ServerProofs` | theorems about `Server` | |
| `ServerBoundProofs` | theorems about the bounds of `Server`: connections and reports | |

Each `MC...` module gives the constants of its module values for TLC; `Connection` needs
none. Definitions of `LoopLifecycle`, `CoMutex` and `WaitGroup` that every
specification has are named after the module (`LifeInit`, `MutexNext`, `GroupSpec`), so that one
module of proofs can extend several components. An
operator introduced by the word *Mutant* is a plausible mistake in the
definition that follows it; it is not part of the model, and serves to show that
a property notices the mistake.

### MessageLoop

The variables are the members of the class, the counter of the eventfd, the
place of the loop's thread (`pc`, and `ret` for the place it returns to from a
task) and of each producer (`ppc`). `PostTask` on another thread is `CheckRunning`,
`Enqueue`, `TestAndSet` and `WriteEventFd`; `CallWakeUp` is a `WakeUpIfNeeded`
without a task. A task, an event handler or a coroutine is a stay in `"body"`, in
which `BodyPost`, `BodyQuit` and `BodyTestAndSet` may happen any number of times.
`scheduled_tasks_` is a moodycamel queue: one FIFO per producer, and a
`try_dequeue` that looks at the streams one after the other (`FindEmpty`), so that
it may miss what is put into a stream it has passed. A failed `CHECK` ends the
process (`aborted`).

### LoopLifecycle

The mutex and the condition variable are modelled step by step: lock, test of the
predicate, block with release, wake-up (also a spurious one), re-lock. `running_`
is written by `ThreadMain` and `QuitLoop` outside the mutex, as in the code. The
tasks of the loop are reduced to the one kind that matters here, a call of
`QuitLoop`. The owner destroys the loop only when no other thread is inside a call
of it, which is what C++ requires of it.

### CoroRunner

`phase` is the part of `Run` the loop is in; while `current` is not `Main` a
coroutine runs and is never preempted. `TaskYields` creates a resumer that anybody
may call at any time, any number of times up to `MaxCalls`, in the loop or from
another thread. `StealElsewhere` is another runner at `g_remote`. A coroutine that
ends its tasks is parked while fewer than `MaxReuse` are, or freed.

### WaitGroup

The waiter's loop goes round its four parts (timers, posted tasks, nested tasks,
coroutines), each of which lets only its own kind of event happen. A worker runs
on this loop or elsewhere. `AddsFirst` chooses between one `Add(n)` and an `Add(1)`
before each worker.

### CoMutex

Each section under the spin lock is one step, a waiter's yield and the call of a
resumer are others. A loop runs one coroutine at a time (`LoopFree`).

### ClientChannel

All handlers run on the channel's loop, so each is one action, `TrySendNext` and
the answers it gives included. `keep_sequence` chooses the class, as the codec does:
a `QueuedChannel` has one request in flight and takes the next answer for its own, an
`AsyncChannel` has many and finds them by id; the ids are taken to differ, as those of the raw
codec do (those of WebSocket, which is not modelled, need not). `codec_->SendRequest` may fail for any message.
The peer answers, in order for a queued channel and in any order for the other, or not
at all, or closes. After a close the descriptor is still open until the channel is gone, so
a send may succeed and stay unanswered. Callers may go on choosing a channel while its
`state_` is `kReady`, as it stays when the connection is lost.

`TrySendNext` reads its reference `next` to the front of `waiting_list_` after `pop_front` has
destroyed that element (`queued_channel.cc:58`-`65`), which is undefined. The model takes the
outcome of a caller that holds its request until it is answered, as a coroutine suspended in
`DoRequest` does: the message then lives on, and the storage of the list's node, which nothing
uses again before the read, still points to it. A request of `AsyncDoRequest` that only the list
holds is destroyed by `pop_front`; what follows from that is not modelled.

### Client

Three kinds of threads: the work loop, which dials and owns `channels_`; the I/O loop of a
channel, which may be the work loop; the owner, whose `Finalize` is three actions
(`stopping_`, the posted `Connector::Stop`, the posted closes), because the loops run in
between. A handler or task of a loop is one action. A descriptor is in one state: free,
with the Connector (`Dialling`), with a channel, or leaked by `HandleWrite`. `Dial` monitors
WRITE only, to which epoll adds the end of the stream and errors: READ is reported of a connect
that was refused, or whose server has ended or reset the connection before the event is handled. `count` is
`count_`, which the code brings up to date in some places only. Tasks that the owner
has posted run in order; those of different threads do not, so a `CloseClientChannel` may
come before the `StartClientChannel` of its channel. A failed `CHECK` ends everything
(`aborted`).

### IOBuffer and Connection

`IOBuffer` is the class as pure operators: a vector indexed from 0 with its two indices.
`Connection` puts one record `c` around two buffers: the status of the codec, the
monitored events, what epoll knows (`armed`, the ready list; `nospace`, a wake-up that is due
when there is room), the socket's two buffers, a flush that is posted. A handler of the
code is an operator from record to record with a result, composed as the calls are:
`HandleEvent` is `SocketReadWrite`, then `OnDataReceived`, then the test for the close, and
`OnDataReceived` goes into the handler, its `Response` and a `CloseService` in the middle of it.
A loop of the code is a recursive function: `ReadSome` is one pass of `HandleRead`,
`DecodeMessage` one of `RawCodecService::OnDataReceived`, and `HttpCommit` hands over one request that
the parser has complete; `Reads(k, n)`, `Decodes(k, ch, n)` and `HttpCommits(k, ch, n)` are what
0 to `n` passes leave, with `n` no less than the passes that the loop makes.

A frame is two bytes and the peer sends them one at a time. `write()` takes what fits,
`read()` what there is. The choices of an action (`ResponseChoices`) are those of the
application and the peer: an empty body, a response that is not keep-alive, bytes that are
no HTTP, and the `errno` an earlier call has left. `flush_scheduled_`, which no constructor
sets, starts with either value. With `co` the codec is driven by `handle_connection`: an
event resumes the coroutine (`InvokeIOEvent`), which goes on after the nested tasks of the
pass (`ResumeRoutine`), so tasks run between the report of an event and its handling.
A reply is given in the handler (`sync`) or later by a task (`Respond`). Heartbeats, which
`RawCodecService` answers itself on the server, are left out: they change the buffers as a request
does that is answered at once. In-loop tasks run
after the pump, those of other threads in the middle of it.

### Server

Each loop has a FIFO of tasks for each thread that posts to it, as the queue of a loop keeps
the order of a producer only. `busy` is a loop in the middle of a handler where the order
matters: between the test of the limit and the count, and between a close inside
`HandleEvent` and its end. `reuse_port` is the build with `LTIO_ENABLE_REUSER_PORT`, which
has a service for each loop; without it one service serves all loops. A codec is destroyed
when neither `codecs_` nor a task refers to it (`Destroyed`); `HandleEvent` and `flush_fn_`
hold no reference. A request is answered inside of `HandleEvent`, or by a handler that replies
later (`HandleRequest`), as the coroutines of `HandlerFactory` do: on the loop of the codec
(`ReplyInLoop`), or on another thread, which posts a functor that holds a reference
(`PostReply`, the task `"reply"`). Until it replies the handler has a weak pointer, and gives up when
the codec is destroyed. `SendResponse` posts `flush_fn_` unless it is posted already. The model has
two names for this task: `"late"` when a reply posts it that finds the codec closed and does not
close it again, `"flush"` otherwise. What `flush_fn_` would do with a freed codec is undefined; the
model notes that it happens (`Destroyed`) and goes on as if nothing were done. `Stop` posts its closes in the order of an `unordered_set`, which is
any order (`PostCloses`). What a codec does with data is in `Connection`; here it opens,
closes, may close again, and reports it.

## What is checked

* `loop`. `NoLostWakeup`: a queued task always has a wake-up under way.
  `QuitRunsAccepted`: what was queued at the `QuitLoop` has run when the thread ends.
  `RunnerSpec`: refinement of `TaskRunner`. `PostedTaskRuns`, `QuitEndsLoop`: the
  corresponding liveness.
* `lifecycle`. `DestroyedIsQuiet`, `DestroyEnds`: the destructor ends, after the loop's
  thread. `WaitMeansQuit`: `WaitLoopEnd` returns early only from a loop that is bound to end.
* `wait_group`. `AddedFirstWaits`: `kSuccess` means that all are done if `Add(n)` came first.
  `LateTimeoutIsRace`: a timeout with all of them done comes only while the wake-up of the
  last `Done` is on its way. `WaitEnds`.
* `co_mutex`. `MutualExclusion`, `LockSpec` (refinement of `FifoLock`), `LockIsGranted`.
* `coro_runner`. `OnOneList`, `ReadyWasCalled`: a coroutine is on one list at most and gets
  ready only in the yield its resumer was made in. `PublishedRuns`, `CalledResumes`: tasks
  start, resumed coroutines go on.
* `client_channel`. `AnsweredOnce`, `OwnResponse`, `CloseAnswersAll`, `RequestEnds`: each
  request is answered once, with its own response or an error, also at the close.
* `client`. `MissingIsDialled`: a client that lacks connections is dialling, except where
  a stale `count_` makes it give up. `DialsAreBounded`: dials do not multiply.
  `ChecksHoldUntilFinalize`: no `CHECK` fails before `Finalize`; afterwards two may (an
  `OnClientChannelClosed` on an I/O loop that sees `stopping_`, and a close before the start).
* `connection`. `StreamInOrder`, `RequestsInOrder`: bytes out and requests in keep their
  order and number. `OutDrains`, `RequestIsHandled`, `EndCloses`: with edge-triggered events
  no wake-up is lost. `NotifiedOnce`: the delegate is told once, except after a close inside
  `HandleEvent`. `ErrorIsStaleWrite`: `IOEvent::Wait` reports an error only when a task has
  drained the buffer since `epoll_wait`. `OnlyReplyTruncates`: outgoing data is dropped only
  by a reply that closes behind itself, a bad request, or such an error.
* `server`. `CountIsStored`, `LimitHolds`: the count is that of the stored connections, and
  the limit can be passed only by services that are between test and count.
  `CloseFindsStarted`: `Stop` closes no codec that has not started. `SameLoopIsSafe`: a codec
  served on the loop of its service is not destroyed before `HandleEvent` or a posted `flush_fn_`
  is done with it, unless `flush_fn_` comes from a reply to a codec that was closed already. On
  another loop it can be destroyed in either.
  `StopReports`, `StoppedIsEmpty`, `StopReported`: the callback of `StopServer` is called, when
  all is closed, and again only for a connection that is reported twice. With a service on each
  loop no loop is inside `HandleEvent` then; a `flush_fn_` may still be posted, as replies may come at
  any time.

Properties such as `NotifiedOnce` or `SameLoopIsSafe` name exceptions. These are not
conveniences of the model: TLC finds the behaviour in the code when an exception is removed.
(The exception of `OnlyReplyTruncates` for an error of `Wait` takes a third request to
violate: one reply waits, a task drains it, another refills the buffer before the coroutine
goes on.)

Three runs show a disagreement between the code and what is written about it:

* `lifecycle_start`: `Start` may never return, because `running_` is set and `cv_`
  notified without `start_stop_lock_`.
* `client_connects`: a connect in progress that succeeds is reported as writable only, and
  `Connector::HandleEvent` takes this for a failure; the client dials for ever.
* `connection_close`: `HttpRequestCtx::Response` closes the codec right behind a response that is
  not keep-alive and is still in the buffer, although `schedule_close_` would wait for it.

Five smaller disagreements are kept as configurations to be run by hand, each of which TLC
refutes; the runs above check what holds instead:

| Configuration | Module | Refuted | What holds |
|---|---|---|---|
| `LifecycleWait.cfg` | `MCLoopLifecycle` | `WaitSeesEnd`: `WaitLoopEnd` returns after the loop's last task | `WaitMeansQuit` |
| `WaitGroupAddEach.cfg` | `MCWaitGroup` | `SuccessMeansDone`, with `Add(1)` before each task as in the example of `wait_group.h` | `AddedFirstWaits` |
| `WaitGroupLate.cfg` | `MCWaitGroup` | `TimeoutMeansPending`: no timeout when all tasks are done | `LateTimeoutIsRace` |
| `ClientChannelClosed.cfg` | `MCClientChannel` | `ClosedByPeerOnly`: `OnClientChannelClosed` is called for a close by the peer only | `ClosedByPeerOrTimeout` |
| `ServerLateFlush.cfg` | `MCServer` | `FlushFindsCodec`: removing a codec by a task of its own loop is safe (the comment at `io_service.cc:171`) | `SameLoopIsSafe` |

The last one takes a request whose handler replies later: the peer ends the connection, which
closes the codec and posts its removal, the handler still finds the codec and posts `flush_fn_` behind
the removal, the removal drops the last reference, and `flush_fn_` runs on a codec that is gone.

The configurations `...All.cfg`, also run by hand on the same instances, add the type invariants
and the lesser properties (`OneWakeup`, `StartedMeansRan`, `NoTimerAfterReturn`, `SentInOrder`,
`HeartbeatPending`, `ClosedByPeerOrTimeout`, the two `ClosedIsRemoved`, `NoneAfterClosed`,
`FlushOutlivesEnded`, `ScheduledCloses`). All of them hold.

### Bounds

* `MessageLoop`: two producers with two tasks each, one nested task. Two producers are
  needed for one to find the flag set by the other and for a drain to miss a
  stream; the second task shows order and repetition. The larger instance with two
  nested tasks (333,313 states) passes as well, and their order is part of
  `RunnerCorrect`. `EventFdMax` is 3 so that a counter that grew past 1 would be seen.
  The proofs need none of these bounds.
* `LoopLifecycle`: the owner and two more threads, so that one waits while the other quits.
* `CoroRunner`: two tasks, three coroutines, one parked coroutine (`MaxReuse`), one
  yield per task, three calls of resumers. Three coroutines are as many as two tasks
  and a resume can occupy. A coroutine that is reused yields twice, so late and
  repeated calls of an earlier yield's resumer happen. The larger instance with two
  yields per task and two calls (300,432 states) passes as well.
* `WaitGroup`: three workers; the count can then touch zero several times.
* `CoMutex`: four coroutines on two loops, so that waiters are on the holder's loop
  and on the other.
* `ClientChannel`: three requests and a heartbeat, so that several messages wait
  behind one in flight, and several are in progress.
* `Client`: two connections required, a first batch of one, three descriptors, three reports
  of a close. One descriptor more than required lets it dial too often, run out of descriptors,
  and use a number again. With four descriptors and two reports (3,295,120 states) it passes as
  well. `client_connects` has a server that neither refuses nor closes.
* `Connection`: two requests of two bytes, responses of three (HTTP: two), a send buffer of
  two, blocks of two and an initial size of one. A response is then cut by the socket, or
  fits when the peer has read; buffers are compacted and resized, a frame can arrive in
  pieces and two in one read. With a send buffer of one byte `Wait` would never report an
  error. The theorems about `IOBuffer` and `Connection` have no such bounds.
* `Server`: two loops, two connections, both builds, one request with a late reply
  (`MaxRequests`), limits of one and two, with a service for each loop of one only (`MCLimits`). In
  that build two connections cannot pass the bound of `LimitHolds`, which is two there;
  it is the single service whose test the run can break, and `LimitTheorem` covers the rest.
  Larger instances pass as well: both limits in both builds (1,225,210 states), three requests on
  one connection (89,938), and, for the invariants, a request for each of two connections (6,425,652).

`CHECK_DEADLOCK FALSE` is set where the system may stop: a loop that has ended,
or bounded callers and peers that have nothing more to do.

### Fairness

Weak fairness stands for the operating system, which runs every thread that can
run: the loop's thread, a thread inside `PostTask` or inside a call of the loop.
Strong fairness is used for a mutex that is free again and again (`Lock`), and
for steps that have a turn in each pass of a loop and are disabled in between
(workers on the waiter's loop, `RunRemote`, `LockReturns`). Nothing is assumed of
callers that have not begun, of spurious wake-ups or of the 50 ms after
which a pump that sleeps looks again. A holder of a `CoMutex` releases it; a task
ends or yields; a timer that is set fires. In `Connection` the loop goes on and the peer reads
what it is sent, but need not send, close or answer. In `Server` each loop goes on. There the
fairness of a loop is written as "infinitely often it has nothing to do, or takes a step",
which is weak fairness with the enabling condition spelled out. In `Client` (used for
`Connects` only) the work loop and its timers go on and the kernel ends every connect.

## What is proved

`MessageLoopProofs`, from `LoopAssumption` (the loop is not a producer, the bounds
are natural numbers, an eventfd counts beyond 1), for any set of producers:

* `TypeCorrect`.
* `WakeupCorrect`: `OneWakeup` and `NoLostWakeup`. The inductive invariant
  `WakeupInv` adds `ReadFindsOne` (between the report of the eventfd and its read
  nobody else can read it) and `PendingIsAnnounced`. `NoLostWakeup` alone is not
  inductive: it is not said there that the flag is set as long as a wake-up is
  under way, which is what a producer relies on when it leaves the wake-up to another.
* `QuitCorrect`: `QuitRunsAccepted`. `QuitInv` adds that no task is lost or invented
  (`TasksAccounted`) and what holds in the last phases of `ThreadMain` (`FinalPhase`):
  `running_` is false, so nothing is posted there from inside the loop, and a stream found
  empty by the last drain has run all that was accepted.
* `RunnerCorrect`: `MessageLoop` implements `TaskRunner`. The nested tasks of the
  mapping are `nest_tasks \o in_loop_tasks`; `FinalPhase` gives that `nest_tasks` is empty
  where the vector is moved.

`MessageLoopProofs` has the theorems about `LoopLifecycle` as well, from `OwnerAssumption`, for any
set of threads with the owner among them: `DestroyedTheorem` (`DestroyedIsQuiet`)
and `WaitTheorem` (`WaitMeansQuit`, with `StartedMeansRan`). `LifeInv` says that the thread is
spawned once (`SpawnInv`), that `running_` is true only from the first step of `ThreadMain` to the end
of its loop (`RunInv`), that a waiter whose predicate has held still finds it so (`WaitInv`), and
that nobody else is in a call under the destructor (`DestroyInv`). What the properties need is that
`running_` stays false once it has been reset, which is a matter of all four.

`CoroutineProofs`, from `CorosAssumption`, for any coroutines on any loops:

* `MutexCorrect`: `MutualExclusion`. `MutexInv` says who owns the lock while it is
  handed over (`OwnerInv`, `HandoverInv`): the coroutine inside, the resumer in the hands
  of the one that unlocks, an entry in `remote_sched_`, or a ready waiter. Exactly one
  of them exists while `locked_` is set.
* `LockCorrect`: `CoMutex` implements `FifoLock`, whose owner is that one.

The three modules about `Server`, from `ServerAssumption`, for any number of loops and connections and
any limit, rest on one inductive invariant, `ServerInv` of `ServerProofs`:

* `QueueInv` (of `ServerQueueProofs`): each task is in the queue from the thread that posts it to the
  loop it is for, and its connection is in a state that fits it; in a queue the `open` of a codec
  comes before its `close`, `Start` before `Stop`. These orders are why the invariants hold, and
  nothing short of them is inductive.
* `FlushInv` (of `ServerQueueProofs`): behind each `flush` of a closed codec on the loop of its service
  a `remove` follows in the same queue (`Followed`), which holds a reference. That a `flush` comes
  before every `remove` would be false, as a reply may post one between two of them.
* `OpenInv`, `UseInv`, `StoredInv`, `BusyInv`, `PhaseInv`, `CountInv`, `RequestInv`: a new codec has its
  `open` posted; a codec whose handler runs on its service's loop is stored; what is stored belongs to
  its service; a loop in the middle of an accept is a listening service; a service is listed until
  it has stopped and is empty; only codecs that were opened have handlers that will reply.

From it follow `CountTheorem` (`CountIsStored`), `StartedTheorem` (`CloseFindsStarted`),
`SameLoopTheorem` (`SameLoopIsSafe`) and `StoppedTheorem` (`StoppedIsEmpty`). `ServerBoundProofs` adds
two counting arguments:

* `LimitTheorem` (`LimitHolds`). `LimitInv` counts the services that have passed the test of the
  limit and not yet counted (`Accepting`): the count and they together exceed the limit by the
  number of services less one at most. The count alone is not inductive, because a service that
  has passed the test may add to it at any later time.
* `ReportsTheorem` (`StopReports`). `ReportInv` counts for each connection the removals that
  have run (`Done`, the reports less those pending): there is none exactly while the connection
  is kept, so the removals after the first (`Extra`) are those that find nothing to remove, and
  each of them, and the one that empties the last service, calls `closed_callback_` once at most.

`ClientProofs`, from `ClientAssumption`, for any numbers of descriptors, of connections required
and of dials in the first batch: `DialsTheorem`, which is `DialsAreBounded`. `DialInv` adds to each
side the removals that are on their way to the work loop, and a bound on the dials alone: a
connection posts a new dial only while there are too few connections, where the bound on the
dials leaves room for it. `HeldInv` says that the descriptors of channels are not the
Connector's, so that closing a channel leaves `inprogress_` alone.

`ChecksTheorem` (`ChecksHoldUntilFinalize`) rests on `QuietInv`: until `Finalize` begins `channels_count_`
is the size of `channels_`, and nothing that `Finalize` posts is waiting. `MissingTheorem` is
`MissingIsDialled`, and `RemovedTheorem` the lesser `ClosedIsRemoved`.

`ClientProofs` also has the theorems about `WaitGroup`, from `WorkersAssumption`, for any finite set
of workers:

* `AddedFirstTheorem`: `AddedFirstWaits`. `CountInv` says that the count is the number of
  workers that are added and not done (`Counted`), and, when all were added first, that a
  wake-up on its way, a waiter made ready by it and a `Wait` that returned success find nobody
  counted. Without `add_first` that is false, as `WaitGroupAddEach.cfg` shows.
* `LateTimeoutTheorem`: `LateTimeoutIsRace`. `CountInv` has the other direction too: a waiter
  that is suspended with nobody counted has a wake-up on its way (`WakeupComing`), in one of the
  queues of its loop or in the hands of the worker that posts it.

`CoroutineProofs`, from `RunnerAssumption`, for any coroutines, tasks and bounds:

* `OnOneListTheorem`: `OnOneList`. `ListInv` has the lists without repetition and disjoint, and
  the running coroutine on none. What links a coroutine is a `do_resume` that finds the resume id
  it was made with; `ResumerInv` says that such a coroutine has yielded in its task and does
  not run, so that it is neither current nor parked on the free list.
* `ReadyTheorem`: `ReadyWasCalled`, from the same invariant. `QueuedInv` follows the call of a
  resumer through the queues of tasks (`remote_sched_`, the loop's, those taken from them).

`ClientChannelProofs`, from `ChannelAssumption`, for any requests and heartbeats and both
classes of channel: `AnsweredOnceTheorem` and `OwnResponseTheorem`. `PlaceInv` has every message
in one place: not used, posted, taken by the channel (`Taken`), or answered; a handler answers
only what is taken and takes it out in the same step. `WireInv` is what `OwnResponse` needs
on a `QueuedChannel`, where an answer carries no id: the only answer that can come is that of the
message in flight, because a timeout closes the connection in the step that gives up its request.
`CloseAnswersTheorem` (`CloseAnswersAll`) and `HeartbeatPendingTheorem` (`HeartbeatPending`) need
the converse: nothing that was taken is lost. `StepLets` shows it for every handler: the
messages it lets go of are the ones it passes to `HandleResponse`. From it, `KeptInv`: a request
that was taken is in the channel or answered as long as there is a delegate, and so is the heartbeat
that is waited for. `CloseClientChannel` leaves the channel empty, so that all are answered.

`ConnectionProofs` begins with `IOBuffer`, for buffers of any size with any bytes and indices:
`EnsureKeeps` (room is made and the content kept, whether it is moved or the vector grown),
`WriteAppends`, `ConsumeDrops`.

On them rest the theorems about `Connection`, from `ConnectionAssumption`, for any number of
requests, any size of the socket's send buffer, of the blocks that are read and of the first buffer,
every codec, both drivers and both ways to answer: `StreamInOrderTheorem`, `RequestsInOrderTheorem`,
`NotifiedOnceTheorem`, `ErrorIsStaleWriteTheorem` and, for the steps, `OnlyReplyTruncatesTheorem`.
The inductive invariant is `ConnectionInv`:

* `Good`: what the peer has read, what is in the socket and what is in the outgoing buffer is
  together what was written (`InOrder`), and READ is always monitored.
* `Heard`: the requests handed over, the bytes that the parser of HTTP holds, those in the
  incoming buffer and those in the socket are consecutive parts of the stream, up to the last
  byte sent. `RequestsInOrder` is not inductive without it: the number of the next request is that
  of the bytes at the front of the buffer. A bad request ends this (`bad`), and from then on no
  event of the connection is handled.
* `Lives`: a coroutine is resumed only while its event is installed; a connection whose end was
  reported is closed and has no event installed, unless `NotifiedOnce` names the reason. This
  is why no second report can come.
* `Waits`: between `epoll_wait` and the handler of a WRITE event, WRITE stays monitored when the
  handler answers at once. `InvokeIOEvent` can then fail only after a task has written.

Each operator of the model has a lemma that says what it keeps (`SendKeeps`, `HandleWriteKeeps`,
`CloseServiceKeeps`, ...), composed as the operators are, up to `HandleEventKeeps`; each action
has a step lemma, which shows `ConnectionInv'` and the part of `OnlyReplyTruncates` for that step.
For the three loops the induction is on the number of passes, by the least counterexample
(`NatSet`): `HandleReadTakesAll` (the socket is left empty), `RawTakesAll` and `CommitTakesAll`
(less than a request is left).

Only model-checked: the lesser properties of the `...All.cfg` that are not named here, and all
liveness, which is out of the prover's reach: of `Connection` that is `OutDrains`,
`RequestIsHandled` and `EndCloses`.

## What is not modelled

* Timers as such (`TimeoutEvent`, the wheel, `RepeatingTimer`, `PostDelayTask`): where a timer
  matters it is an action that may happen while it is set. Two places deserve a model:
  `ProcessTimerEvent` reads a timer after its callback, which may have deleted it
  (`event_pump.cc:131`), and `RepeatingTimer::Stop` waits on a condition variable that is
  notified without its mutex (`repeating_timer.cc:92`).
* Several descriptors in one pump, and the table of events by number: a number that is closed
  and used again in one pass, and the UDP service, which closes its descriptor and leaves the
  event behind (`udp_service.cc:74`).
* `IOEvent::Wait` with a timeout, and a handler that yields inside `OnCodecMessage`, where an
  event finds an empty resumer (`io_event.cc:87`).
* The end of a `Client`: a delayed `Dial` that holds a raw pointer to it (`client.cc:122`), a
  connection that is made after `Finalize` (`client.cc:169`, possible in the model, where no
  property is about it), the descriptor that `HandleWrite` leaks (`client_connector.cc:147`, a
  state of the model).
* A server that serves again after `StopServer`; the list of services, which `ServeAddress` extends
  without a lock while loops walk it (`generic_server.h:107`); what an application does in the
  callback that is called with `mtx_` held (`generic_server.h:159`).
* Redis, WebSocket and HTTP/2 codecs; the client side of the codecs beyond what `ClientChannel`
  needs; the content of messages.
* Pure algorithms (maglev and consistent hashing, LRU cache, sketches, bloom filter, indexers):
  they share no state with the loops and have table-driven tests.
* SSL, sockets, files, time and strings, which are wrappers of library calls; third-party
  parsers, queues and the timer wheel, which are modelled from how they are used; arithmetic
  imported from Chromium; `async_mysql`.
