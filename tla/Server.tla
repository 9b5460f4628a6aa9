------------------------------ MODULE Server ------------------------------
(***************************************************************************)
(* BaseServer with its IOServices and their SocketAcceptors: connections   *)
(* are accepted on the loop of a service, served on an I/O loop, and       *)
(* removed on the loop of the service again.  The loops pass tasks to each *)
(* other; a loop runs one handler or task at a time.  Built with           *)
(* LTIO_ENABLE_REUSER_PORT a server has a service for each loop, without   *)
(* it one service on the first loop.  Codecs are reference counted:        *)
(* codecs_ and the queued tasks hold references, the handler of an event   *)
(* and flush_fn_ hold none.  A request may be handed to a handler that     *)
(* replies later, from a coroutine or another thread; until then it holds  *)
(* a weak pointer to the codec.                                            *)
(***************************************************************************)
EXTENDS Integers, Sequences, FiniteSets, Functions

CONSTANTS Loops,             \* io_loops_ is 1..Loops
          Conns,             \* connections that peers may open
          Limits,            \* the limits of connections that are built with and without reuse_port
          MaxRequests,       \* bound: the requests whose handlers reply later
          Idle               \* a loop that is in no handler

ASSUME ServerAssumption ==
  Loops \in Nat \ {0} /\ Limits \in [BOOLEAN -> SUBSET Nat] /\ MaxRequests \in Nat /\ Idle \notin {"accept", "use"} \X Conns

VARIABLES
  reuse_port, kClientConnLimit,  \* the build and its Configurator
  tasks,         \* tasks[l][l] is in_loop_tasks_ of loop l; tasks[l][k] are the scheduled_tasks_
                 \* posted by the thread of loop k, by the application's for k = 0: the queue
                 \* keeps the order of a producer only
  busy,          \* what a loop is in the middle of: <<"accept", c>> or <<"use", c>>
  serving,       \* "no", "yes" after ServeAddress, "stopping" after StopServer
  ioservices_, listening_, is_stopping_, codecs_, client_count_, index,
  status,        \* of a connection and its codec
  io, service,   \* the loop and the service of a connection
  handlers,      \* of requests of a connection, that have yet to reply
  received,      \* the requests given to such handlers, up to MaxRequests
  schedule_close_,   \* the codecs that close when all is written
  notified,      \* history: calls of OnCodecClosed for a connection
  callbacks      \* history: calls of closed_callback_

build == <<reuse_port, kClientConnLimit>>
server == <<ioservices_, listening_, is_stopping_, codecs_, client_count_, callbacks>>
requests == <<handlers, received, schedule_close_>>
conns == <<status, io, service, notified>>
vars == <<build, tasks, busy, serving, server, index, conns, requests>>

\* A service has the number of its acceptor's loop.
Services == IF reuse_port THEN 1..Loops ELSE {1}

\* "reply" is the functor of a reply from another thread, "flush" flush_fn_; it is called
\* "late" when a reply posted it that found its codec closed and left it at that.
Task == [op : {"Start", "Stop"}, on : 1..Loops]
        \cup [op : {"open", "close", "remove", "reply", "flush", "late"}, on : Conns]

TypeOK ==
  /\ tasks \in [1..Loops -> [0..Loops -> Seq(Task)]]
  /\ busy \in [1..Loops -> {Idle} \cup ({"accept", "use"} \X Conns)]
  /\ serving \in {"no", "yes", "stopping"} /\ ioservices_ \subseteq Services
  /\ listening_ \subseteq Services /\ is_stopping_ \subseteq Services
  /\ codecs_ \in [1..Loops -> SUBSET Conns] /\ client_count_ \in Nat /\ index \in 0..Loops - 1
  /\ status \in [Conns -> {"none", "refused", "checked", "new", "open", "closed", "abort"}]
  /\ io \in [Conns -> 1..Loops] /\ service \in [Conns -> 1..Loops]
  /\ notified \in [Conns -> Nat] /\ callbacks \in Nat
  /\ handlers \in [Conns -> Nat] /\ received \in 0..MaxRequests
  /\ schedule_close_ \subseteq Conns

Init ==
  /\ reuse_port \in BOOLEAN /\ kClientConnLimit \in Limits[reuse_port]
  /\ tasks = [l \in 1..Loops |-> [k \in 0..Loops |-> <<>>]]
  /\ busy = [l \in 1..Loops |-> Idle] /\ serving = "no"
  /\ ioservices_ = {} /\ listening_ = {} /\ is_stopping_ = {}
  /\ codecs_ = [s \in 1..Loops |-> {}] /\ client_count_ = 0 /\ index = 0 /\ callbacks = 0
  /\ status = [c \in Conns |-> "none"] /\ notified = [c \in Conns |-> 0]
  /\ io = [c \in Conns |-> 1] /\ service = [c \in Conns |-> 1]
  /\ handlers = [c \in Conns |-> 0] /\ received = 0 /\ schedule_close_ = {}

\* PostTask to loop to, by the thread from, in the tasks ts
Post(ts, from, to, op, on) == [ts EXCEPT ![to][from] = Append(@, [op |-> op, on |-> on])]

\* PostTask of op to the loop of each service of S, by the application's thread
PostEach(op, S) ==
  [l \in 1..Loops |-> IF l \in S THEN [tasks[l] EXCEPT ![0] = Append(@, [op |-> op, on |-> l])] ELSE tasks[l]]

\* The sequences that hold each element of S once
Orders(S) == {q \in [1..Cardinality(S) -> S] : Range(q) = S}

\* The tasks that close the codecs of service l which live on loop k
CloseTasks(l, k) == {[op |-> "close", on |-> c] : c \in {d \in codecs_[l] : io[d] = k}}

\* PostTask to the loop of each codec of service l, in the order of an unordered_set
PostCloses(l, ts) ==
  \E q \in [1..Loops -> UNION {Orders(CloseTasks(l, k)) : k \in 1..Loops}] :
    /\ \A k \in 1..Loops : q[k] \in Orders(CloseTasks(l, k))
    /\ tasks' = [k \in 1..Loops |-> [ts[k] EXCEPT ![l] = @ \o q[k]]]

-----------------------------------------------------------------------------
(* BaseServer, in the thread of the application.                           *)

ServeAddress ==
  /\ serving = "no" /\ serving' = "yes"
  /\ ioservices_' = Services
  /\ tasks' = PostEach("Start", Services)
  /\ UNCHANGED <<build, busy, listening_, is_stopping_, codecs_, client_count_, callbacks, index, conns, requests>>

StopServer ==
  /\ serving = "yes" /\ serving' = "stopping"
  /\ tasks' = PostEach("Stop", ioservices_)
  /\ UNCHANGED <<build, busy, server, index, conns, requests>>

\* Mutant: one too many.
CanCreateNewChannelOff == client_count_ <= kClientConnLimit

CanCreateNewChannel == client_count_ < kClientConnLimit

\* The loop for a connection of service s
GetNextIOWorkLoop(s) == IF reuse_port THEN s ELSE index + 1

\* Under mtx_; the callback is given to StopServer.
IOServiceStoped(s) ==
  /\ ioservices_' = ioservices_ \ {s}
  /\ callbacks' = callbacks + (IF ioservices_' = {} THEN 1 ELSE 0)

-----------------------------------------------------------------------------
(* IOService and SocketAcceptor, on the loop of the service.               *)

Start(l, ts) ==
  /\ listening_' = listening_ \cup {l} /\ tasks' = ts
  /\ UNCHANGED <<busy, ioservices_, is_stopping_, codecs_, client_count_, callbacks, conns, requests>>

\* Mutant: the codecs are closed from the loop of the service.
StopInline(l, ts) ==
  /\ is_stopping_' = is_stopping_ \cup {l} /\ listening_' = listening_ \ {l}
  /\ \E q \in Orders({[op |-> "close", on |-> c] : c \in codecs_[l]}) :
       tasks' = [ts EXCEPT ![l][l] = @ \o q]
  /\ IF codecs_[l] = {} THEN IOServiceStoped(l) ELSE UNCHANGED <<ioservices_, callbacks>>
  /\ UNCHANGED <<busy, codecs_, client_count_, conns, requests>>

\* Mutant: the end is reported before the codecs are closed.
StopAtOnce(l, ts) ==
  /\ is_stopping_' = is_stopping_ \cup {l} /\ listening_' = listening_ \ {l}
  /\ PostCloses(l, ts)
  /\ IOServiceStoped(l)
  /\ UNCHANGED <<busy, codecs_, client_count_, conns, requests>>

\* Mutant: a service without connections reports nothing.
StopSilent(l, ts) ==
  /\ is_stopping_' = is_stopping_ \cup {l} /\ listening_' = listening_ \ {l}
  /\ PostCloses(l, ts)
  /\ UNCHANGED <<busy, ioservices_, callbacks, codecs_, client_count_, conns, requests>>

Stop(l, ts) ==
  /\ is_stopping_' = is_stopping_ \cup {l} /\ listening_' = listening_ \ {l}
  /\ PostCloses(l, ts)
  /\ IF codecs_[l] = {} THEN IOServiceStoped(l) ELSE UNCHANGED <<ioservices_, callbacks>>
  /\ UNCHANGED <<busy, codecs_, client_count_, conns, requests>>

\* AcceptRead and OnNewConnection, up to the test of the limit
Accept(l, c) ==
  /\ busy[l] = Idle /\ l \in listening_ /\ status[c] = "none"
  /\ IF CanCreateNewChannel
     THEN busy' = [busy EXCEPT ![l] = <<"accept", c>>] /\ status' = [status EXCEPT ![c] = "checked"]
     ELSE status' = [status EXCEPT ![c] = "refused"] /\ UNCHANGED busy
  /\ UNCHANGED <<build, tasks, serving, server, index, io, service, notified, requests>>

\* CreateCodeService and StoreProtocolService: another service may have counted since
CreateAndStore(l, c) ==
  /\ busy[l] = <<"accept", c>> /\ busy' = [busy EXCEPT ![l] = Idle]
  /\ status' = [status EXCEPT ![c] = "new"]
  /\ io' = [io EXCEPT ![c] = GetNextIOWorkLoop(l)] /\ service' = [service EXCEPT ![c] = l]
  /\ index' = IF reuse_port THEN index ELSE (index + 1) % Loops
  /\ tasks' = Post(tasks, l, io'[c], "open", c)
  /\ codecs_' = [codecs_ EXCEPT ![l] = @ \cup {c}] /\ client_count_' = client_count_ + 1
  /\ UNCHANGED <<build, serving, ioservices_, listening_, is_stopping_, callbacks, notified, requests>>

\* Mutant: counts a codec that was removed before.
RemoveAndDecrease(l, c, ts) ==
  /\ codecs_' = [codecs_ EXCEPT ![l] = @ \ {c}] /\ client_count_' = client_count_ - 1
  /\ IF l \in is_stopping_ /\ codecs_'[l] = {} THEN IOServiceStoped(l) ELSE UNCHANGED <<ioservices_, callbacks>>
  /\ tasks' = ts
  /\ UNCHANGED <<busy, listening_, is_stopping_, conns, requests>>

\* Mutant: reports the end for each connection.
RemoveAndReport(l, c, ts) ==
  /\ codecs_' = [codecs_ EXCEPT ![l] = @ \ {c}]
  /\ client_count_' = client_count_ - (IF c \in codecs_[l] THEN 1 ELSE 0)
  /\ IF l \in is_stopping_ THEN IOServiceStoped(l) ELSE UNCHANGED <<ioservices_, callbacks>>
  /\ tasks' = ts
  /\ UNCHANGED <<busy, listening_, is_stopping_, conns, requests>>

\* The second removal of a codec reports the end of the service as well.
RemoveProtocolService(l, c, ts) ==
  /\ codecs_' = [codecs_ EXCEPT ![l] = @ \ {c}]
  /\ client_count_' = client_count_ - (IF c \in codecs_[l] THEN 1 ELSE 0)
  /\ IF l \in is_stopping_ /\ codecs_'[l] = {} THEN IOServiceStoped(l) ELSE UNCHANGED <<ioservices_, callbacks>>
  /\ tasks' = ts
  /\ UNCHANGED <<busy, listening_, is_stopping_, conns, requests>>

-----------------------------------------------------------------------------
(* The codecs, on their I/O loops.  No reference is left to a codec that    *)
(* is destroyed.                                                           *)

Destroyed(c) ==
  /\ status[c] \in {"open", "closed"} /\ c \notin codecs_[service[c]]
  /\ \A l \in 1..Loops, k \in 0..Loops, op \in {"open", "close", "remove", "reply"} :
       [op |-> op, on |-> c] \notin Range(tasks[l][k])

\* flush_scheduled_
FlushScheduled(c) == \E op \in {"flush", "late"} : [op |-> op, on |-> c] \in Range(tasks[io[c]][io[c]])

\* SendResponse and SendRequest post flush_fn_ once.
PostFlush(ts, c, op) == IF FlushScheduled(c) THEN ts ELSE Post(ts, io[c], io[c], op, c)

\* Mutant: removed at once, when the service is on the same loop.
OnCodecClosedInline(ts, c) ==
  /\ notified' = [notified EXCEPT ![c] = @ + 1]
  /\ IF io[c] = service[c]
     THEN tasks' = ts /\ codecs_' = [codecs_ EXCEPT ![io[c]] = @ \ {c}]
          /\ client_count_' = client_count_ - (IF c \in codecs_[io[c]] THEN 1 ELSE 0)
     ELSE tasks' = Post(ts, io[c], service[c], "remove", c) /\ UNCHANGED <<codecs_, client_count_>>

\* IOService::OnCodecClosed
OnCodecClosed(ts, c) ==
  /\ notified' = [notified EXCEPT ![c] = @ + 1]
  /\ tasks' = Post(ts, io[c], service[c], "remove", c)
  /\ UNCHANGED <<codecs_, client_count_>>

\* StartProtocolService
Open(c, ts) ==
  /\ status' = [status EXCEPT ![c] = "open"] /\ tasks' = ts
  /\ UNCHANGED <<busy, server, io, service, notified, requests>>

\* The task of IOService::Stop: CloseService(true), which aborts in a codec that was
\* not started, and OnCodecClosed
Close(c, ts) ==
  /\ status' = [status EXCEPT ![c] = IF @ = "new" THEN "abort" ELSE "closed"]
  /\ OnCodecClosed(ts, c)
  /\ UNCHANGED <<busy, ioservices_, listening_, is_stopping_, callbacks, io, service, requests>>

\* CloseService(false)
CloseService(c, ts) == status' = [status EXCEPT ![c] = "closed"] /\ OnCodecClosed(ts, c)

\* A reply that does not keep the connection: it cannot be encoded or sent, or the codec
\* is to close; CloseService follows at once.
ReplyAndClose(c, ts) ==
  \/ CloseService(c, ts) /\ UNCHANGED schedule_close_
  \/ CloseService(c, PostFlush(ts, c, "flush")) /\ schedule_close_' = schedule_close_ \cup {c}

\* SendResponse, in the thread of the loop: writes at once or posts flush_fn_
SendResponse(c, ts) ==
  /\ tasks' \in {ts, PostFlush(ts, c, IF status[c] = "closed" THEN "late" ELSE "flush")}
  /\ UNCHANGED <<codecs_, client_count_, status, notified, schedule_close_>>

\* The functor of a reply, which holds a reference
Reply(c, ts) ==
  /\ SendResponse(c, ts) \/ ReplyAndClose(c, ts)
  /\ UNCHANGED <<busy, ioservices_, listening_, is_stopping_, callbacks, io, service, handlers, received>>

\* flush_fn_ closes again what is to close, when all is written.
Flush(c, ts) ==
  /\ \/ c \in schedule_close_ /\ ~Destroyed(c) /\ CloseService(c, ts)
     \/ tasks' = ts /\ UNCHANGED <<codecs_, client_count_, status, notified>>
  /\ UNCHANGED <<busy, ioservices_, listening_, is_stopping_, callbacks, io, service, requests>>

\* HandleEvent hands a request to a handler that replies later.
HandleRequest(c) ==
  /\ busy[io[c]] = Idle /\ status[c] = "open" /\ received < MaxRequests
  /\ handlers' = [handlers EXCEPT ![c] = @ + 1] /\ received' = received + 1
  /\ UNCHANGED <<build, tasks, busy, serving, server, index, conns, schedule_close_>>

\* HandleEvent finds the end of the stream and closes the codec as its last act.
PeerEnds(c) ==
  /\ busy[io[c]] = Idle /\ status[c] = "open"
  /\ CloseService(c, tasks)
  /\ UNCHANGED <<build, busy, serving, ioservices_, listening_, is_stopping_, callbacks, index, io, service, requests>>

\* HandleEvent closes the codec and goes on: the handler it calls replies and closes.
HandleEventCloses(c) ==
  /\ busy[io[c]] = Idle /\ status[c] = "open"
  /\ busy' = [busy EXCEPT ![io[c]] = <<"use", c>>]
  /\ ReplyAndClose(c, tasks)
  /\ UNCHANGED <<build, serving, ioservices_, listening_, is_stopping_, callbacks, index, io, service, handlers, received>>

\* The rest of HandleEvent, which may close a second time
HandleEventEnds(c) ==
  /\ busy[io[c]] = <<"use", c>> /\ busy' = [busy EXCEPT ![io[c]] = Idle]
  /\ \/ ~Destroyed(c) /\ CloseService(c, tasks)
     \/ UNCHANGED <<tasks, codecs_, client_count_, status, notified>>
  /\ UNCHANGED <<build, serving, ioservices_, listening_, is_stopping_, callbacks, index, io, service, requests>>

-----------------------------------------------------------------------------
(* Response, by a handler that replies later: it locks its weak pointer,   *)
(* and gives up when the codec is destroyed.                               *)

Replies(c) == handlers[c] > 0 /\ handlers' = [handlers EXCEPT ![c] = @ - 1]

\* In a coroutine on the loop of the codec
ReplyInLoop(c) ==
  /\ busy[io[c]] = Idle /\ Replies(c)
  /\ IF Destroyed(c)
     THEN UNCHANGED <<tasks, codecs_, client_count_, status, notified, schedule_close_>>
     ELSE SendResponse(c, tasks) \/ ReplyAndClose(c, tasks)
  /\ UNCHANGED <<build, busy, serving, ioservices_, listening_, is_stopping_, callbacks, index, io, service, received>>

\* In a coroutine on another loop k, or in another thread (k = 0)
PostReply(c, k) ==
  /\ k # io[c] /\ (k # 0 => busy[k] = Idle) /\ Replies(c)
  /\ tasks' = IF Destroyed(c) THEN tasks ELSE Post(tasks, k, io[c], "reply", c)
  /\ UNCHANGED <<build, busy, serving, server, index, conns, received, schedule_close_>>

-----------------------------------------------------------------------------
\* A loop runs the first task of one of its queues.
RunTask(l) ==
  /\ busy[l] = Idle
  /\ \E k \in 0..Loops :
       /\ tasks[l][k] # <<>>
       /\ LET task == Head(tasks[l][k])
              ts == [tasks EXCEPT ![l][k] = Tail(@)]
          IN  \/ task.op = "Start" /\ Start(l, ts)
              \/ task.op = "Stop" /\ Stop(l, ts)
              \/ task.op = "open" /\ Open(task.on, ts)
              \/ task.op = "close" /\ Close(task.on, ts)
              \/ task.op = "remove" /\ RemoveProtocolService(l, task.on, ts)
              \/ task.op = "reply" /\ Reply(task.on, ts)
              \/ task.op \in {"flush", "late"} /\ Flush(task.on, ts)
  /\ UNCHANGED <<build, serving, index>>

Progress(l) == RunTask(l) \/ \E c \in Conns : CreateAndStore(l, c) \/ (io[c] = l /\ HandleEventEnds(c))

Next ==
  \/ ServeAddress \/ StopServer
  \/ \E l \in 1..Loops : Progress(l)
  \/ \E c \in Conns : \/ \E s \in Services : Accept(s, c)
                     \/ HandleRequest(c) \/ PeerEnds(c) \/ HandleEventCloses(c)
                     \/ ReplyInLoop(c) \/ \E k \in 0..Loops : PostReply(c, k)

Spec == Init /\ [][Next]_vars

CanGoOn(l) == busy[l] # Idle \/ \E k \in 0..Loops : tasks[l][k] # <<>>

\* Every loop goes on; peers and the application need not do anything.  CanGoOn(l) is
\* ENABLED Progress(l): this is weak fairness of Progress(l).
FairSpec == Spec /\ \A l \in 1..Loops : []<>~CanGoOn(l) \/ []<><<Progress(l)>>_vars

-----------------------------------------------------------------------------
(* Properties.                                                             *)

\* The connections that are stored, with their services
Stored == {x \in (1..Loops) \X Conns : x[2] \in codecs_[x[1]]}

\* client_count_ counts the connections that are stored, however often a connection is
\* reported as closed.
CountIsStored == client_count_ = Cardinality(Stored)

\* The limit of connections can be passed, because the test and the count are two steps,
\* but by no more than the services that may be between the two.
LimitHolds == client_count_ <= kClientConnLimit + Cardinality(Services) - 1

\* IOService::Stop closes no codec before its StartProtocolService: the CHECK in
\* CloseService does not fail.
CloseFindsStarted == \A c \in Conns : status[c] # "abort"

\* "use another task remove a service is a more safe way": a codec that is served on the
\* loop of its service is never destroyed while HandleEvent has yet to use it, nor while
\* flush_fn_ has, unless flush_fn_ was posted by a reply that found the codec closed and
\* left it at that.
SameLoopIsSafe ==
  \A c \in Conns :
    /\ io[c] = service[c]
    /\ busy[io[c]] = <<"use", c>> \/ [op |-> "flush", on |-> c] \in Range(tasks[io[c]][io[c]])
    => ~Destroyed(c)

\* Without the exception this does not hold: a reply that comes while the codec is being
\* removed posts flush_fn_ behind the removal, which may drop the last reference.
FlushFindsCodec ==
  \A c \in Conns : io[c] = service[c] /\ FlushScheduled(c) => ~Destroyed(c)

\* The reports of a connection as closed, after its first
Again == UNION {{c} \X (1..notified[c] - 1) : c \in Conns}

\* The closed_callback_ is called at most once, and once more for each time that a
\* connection is reported as closed again.
StopReports == callbacks <= 1 + Cardinality(Again)

\* When closed_callback_ is called nothing listens, no connection is left, and with a
\* service on each loop no loop is in a handler of a codec.
StoppedIsEmpty ==
  callbacks > 0 =>
    /\ client_count_ = 0 /\ listening_ = {}
    /\ \A c \in Conns : status[c] \notin {"checked", "new", "open"} /\ (reuse_port => busy[io[c]] # <<"use", c>>)

\* After StopServer closed_callback_ is called.
StopReported == serving = "stopping" ~> callbacks > 0

\* A connection that is closed is removed from its service.
ClosedIsRemoved == \A c \in Conns : status[c] = "closed" ~> c \notin codecs_[service[c]]
=============================================================================
