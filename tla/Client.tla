------------------------------ MODULE Client ------------------------------
(***************************************************************************)
(* lt::net::Client with its Connector: it keeps up a number of connections *)
(* to one server.  The work loop dials and owns channels_; each connection *)
(* lives on an I/O loop, which may be the work loop; the owner's thread    *)
(* calls Finalize.  A handler of a loop is one action; what the owner does *)
(* between two atomics is another.  What a channel does with requests is   *)
(* in ClientChannel; here a channel starts, closes and reports it.         *)
(***************************************************************************)
EXTENDS Naturals, FiniteSets

CONSTANTS MaxFds,            \* descriptors the process may have open
          Required,          \* config_.connections
          kConnetBatchCount,
          Refuses,           \* the server may refuse and close connections
          MaxReports         \* bound on the calls of OnClientChannelClosed

ASSUME ClientAssumption ==
  /\ MaxFds \in Nat
  /\ Required \in Nat \ {0} /\ kConnetBatchCount \in Nat \ {0} /\ MaxReports \in Nat
  /\ Refuses \in BOOLEAN

VARIABLES
  (* the work loop *)
  first_dials,      \* Dial posted by the owner in Initialize
  stop_task,        \* Connector::Stop posted by the owner, behind them
  dials,            \* Dial posted by the work loop itself
  delayed,          \* Dial posted with a delay
  inprogress,       \* inprogress_ of the Connector
  count,            \* its count_
  channels,         \* channels_, and what is published as in_use_channels_
  channels_count,   \* channels_count_
  closed_tasks,     \* OnClientChannelClosed posted by an I/O loop
  (* the connections *)
  conn,             \* what became of each descriptor
  loop,             \* the I/O loop of its channel
  close_tasks,      \* CloseClientChannel posted to it
  attached,         \* channels with a delegate_
  (* the owner *)
  finalizing,       \* how far Finalize is; stopping_ is set unless "no"
  aborted,          \* a CHECK has failed
  reports,          \* history: calls of OnClientChannelClosed so far
  gave_up           \* history: the last dial that failed was given up

work == <<first_dials, stop_task, dials, delayed, inprogress, count, channels, channels_count, gave_up>>
vars == <<work, closed_tasks, conn, loop, close_tasks, attached, finalizing, aborted, reports>>

Fds == 1..MaxFds

InitCount == IF Required < kConnetBatchCount THEN Required ELSE kConnetBatchCount

stopping == finalizing # "no"

\* A descriptor is in the hands of the Connector, where the kernel lets it become
\* writable, or both writable and readable at the end of the stream and after an error,
\* or it is that of a channel, or nobody's.
Dialling == {"connecting", "writable", "readable", "refused"}
States == Dialling \cup {"free", "leaked", "starting", "open", "closed"}

TypeOK ==
  /\ first_dials \in Nat /\ stop_task \in BOOLEAN /\ gave_up \in BOOLEAN
  /\ dials \in Nat /\ delayed \in Nat /\ count \in Nat /\ channels_count \in Nat
  /\ inprogress \subseteq Fds /\ channels \subseteq Fds /\ closed_tasks \subseteq Fds
  /\ conn \in [Fds -> States]
  /\ loop \in [Fds -> {"work", "io"}]
  /\ close_tasks \subseteq Fds /\ attached \subseteq Fds
  /\ finalizing \in {"no", "stopping", "stopped", "done"}
  /\ aborted \in BOOLEAN
  /\ reports \in 0..MaxReports
  /\ inprogress = {c \in Fds : conn[c] \in Dialling}

\* The client was constructed and Initialize has posted the first dials.
Init ==
  /\ first_dials = InitCount /\ stop_task = FALSE /\ gave_up = FALSE
  /\ dials = 0 /\ delayed = 0 /\ inprogress = {} /\ count = 0
  /\ channels = {} /\ channels_count = 0 /\ closed_tasks = {}
  /\ conn = [c \in Fds |-> "free"] /\ loop = [c \in Fds |-> "work"]
  /\ close_tasks = {} /\ attached = {}
  /\ finalizing = "no" /\ aborted = FALSE /\ reports = 0

-----------------------------------------------------------------------------
(* Callbacks of Client on the work loop.                                   *)

\* Mutant: queued dials are believed to be counted.
OnConnectFailedCounts(n) ==
  /\ delayed' = IF stopping \/ Required <= channels_count + Cardinality(inprogress) THEN n ELSE n + 1
  /\ UNCHANGED gave_up

\* OnConnectFailed, with n dials posted with a delay before it
OnConnectFailed(n) ==
  /\ delayed' = IF stopping \/ Required <= channels_count \/ count > kConnetBatchCount
                THEN n ELSE n + 1
  /\ gave_up' = (~stopping /\ Required > channels_count /\ count > kConnetBatchCount)

\* Mutant: only what is in progress is counted.
launch_next_always(n) ==
  dials' = IF stopping \/ Required <= count THEN n ELSE n + 1

\* launch_next_if_need, with n dials posted before it
launch_next_if_need(n) ==
  dials' = IF stopping \/ Required <= channels_count' + count THEN n ELSE n + 1

\* channels_ becomes cs and is published with its size
Publish(cs) == channels' = cs /\ channels_count' = Cardinality(cs)

\* OnConnected: the channel is stored and its StartClientChannel posted
OnConnected(c, n) ==
  /\ conn' = [conn EXCEPT ![c] = "starting"]
  /\ \E l \in {"work", "io"} : loop' = [loop EXCEPT ![c] = l]
  /\ attached' = attached \cup {c}
  /\ Publish(channels \cup {c})
  /\ launch_next_if_need(n)

-----------------------------------------------------------------------------
(* The Connector on the work loop.                                         *)

\* socket() returns the lowest descriptor that is free
IsNext(c) == conn[c] = "free" /\ \A d \in 1..(c - 1) : conn[d] # "free"

\* Dial, where n and m dials stay posted without and with a delay: a failure at
\* once, a connection at once, or one that the kernel works on
Dial(n, m) ==
  \/ /\ Refuses \/ \A c \in Fds : conn[c] # "free"
     /\ OnConnectFailed(m)
     /\ dials' = n
     /\ UNCHANGED <<inprogress, count, channels, channels_count, conn, loop, attached>>
  \/ \E c \in Fds :
       /\ IsNext(c)
       /\ OnConnected(c, n)
       /\ delayed' = m
       /\ UNCHANGED <<inprogress, count, gave_up>>
  \/ \E c \in Fds :
       /\ IsNext(c)
       /\ conn' = [conn EXCEPT ![c] = "connecting"]
       /\ inprogress' = inprogress \cup {c}
       /\ dials' = n /\ delayed' = m
       /\ UNCHANGED <<count, gave_up, channels, channels_count, loop, attached>>

\* Connector::Stop: the events in progress are removed, and with them the descriptors
Stop ==
  /\ inprogress' = {} /\ count' = 0
  /\ conn' = [c \in Fds |-> IF c \in inprogress THEN "free" ELSE conn[c]]
  /\ UNCHANGED <<dials, delayed, gave_up, channels, channels_count, loop, attached>>

Elsewhere == UNCHANGED <<closed_tasks, close_tasks, finalizing, aborted, reports>>

RunFirstDial ==
  /\ first_dials > 0 /\ first_dials' = first_dials - 1
  /\ Dial(dials, delayed)
  /\ UNCHANGED stop_task /\ Elsewhere

RunStop ==
  /\ first_dials = 0 /\ stop_task /\ stop_task' = FALSE
  /\ Stop
  /\ UNCHANGED first_dials /\ Elsewhere

RunDial ==
  /\ dials > 0 /\ Dial(dials - 1, delayed)
  /\ UNCHANGED <<first_dials, stop_task>> /\ Elsewhere

RunDelayedDial ==
  /\ delayed > 0 /\ Dial(dials, delayed - 1)
  /\ UNCHANGED <<first_dials, stop_task>> /\ Elsewhere

\* RemoveFromInprogress with a notification, which comes before the removal
RemoveFromInprogress(c) ==
  /\ OnConnectFailed(delayed)
  /\ inprogress' = inprogress \ {c}
  /\ count' = Cardinality(inprogress \ {c})
  /\ conn' = [conn EXCEPT ![c] = "free"]
  /\ UNCHANGED <<dials, channels, channels_count, loop, attached>>

\* HandleWrite: the descriptor is released by its event, taken out of inprogress_
\* (count_ is left as it is) and given to the client if it has a peer
HandleWrite(c) ==
  /\ inprogress' = inprogress \ {c}
  /\ IF conn[c] = "refused"
     THEN /\ OnConnectFailed(delayed)
          /\ conn' = [conn EXCEPT ![c] = "leaked"]
          /\ UNCHANGED <<dials, channels, channels_count, loop, attached>>
     ELSE OnConnected(c, dials) /\ UNCHANGED <<delayed, gave_up>>
  /\ UNCHANGED count

\* HandleEvent: the events are READ and WRITE for "readable" and "refused", WRITE
\* alone for "writable", and the test is of READ
HandleEvent(c) ==
  /\ conn[c] \in {"writable", "readable", "refused"}
  /\ IF conn[c] = "writable" THEN RemoveFromInprogress(c) ELSE HandleWrite(c)
  /\ UNCHANGED <<first_dials, stop_task>> /\ Elsewhere

\* The kernel ends a connect, and the server may end or reset the connection before the
\* event is handled.  Only WRITE is monitored, and EPOLLRDHUP, EPOLLHUP and EPOLLERR: data
\* of the server is not reported.
KernelConnects(c, s) ==
  /\ <<conn[c], s>> \in {<<"connecting", "writable">>}
                          \cup (IF Refuses THEN {<<"connecting", "refused">>, <<"writable", "readable">>,
                                                <<"writable", "refused">>, <<"readable", "refused">>}
                                ELSE {})
  /\ conn' = [conn EXCEPT ![c] = s]
  /\ UNCHANGED <<work, closed_tasks, loop, close_tasks, attached, finalizing, aborted, reports>>

-----------------------------------------------------------------------------
(* The I/O loops, and what they hand to the work loop.                     *)

\* The part of OnClientChannelClosed that is meant for the work loop
RemoveChannel(c) ==
  /\ Publish(channels \ {c})
  /\ launch_next_if_need(dials)

StartClientChannel(c) ==
  /\ conn[c] = "starting"
  /\ conn' = [conn EXCEPT ![c] = "open"]
  /\ UNCHANGED <<work, closed_tasks, loop, close_tasks, attached, finalizing, aborted, reports>>

\* Mutant: the removal is done in place on the I/O loop.
OnClientChannelClosedHere(c) ==
  /\ RemoveChannel(c)
  /\ aborted' = (loop[c] = "io")
  /\ UNCHANGED closed_tasks

\* OnClientChannelClosed on the loop of c: handed to the work loop, unless stopping_
\* is set; the I/O loop then goes on to the CHECK of launch_next_if_need
OnClientChannelClosed(c) ==
  IF loop[c] = "work"
  THEN RemoveChannel(c) /\ UNCHANGED <<closed_tasks, aborted>>
  ELSE /\ IF stopping
          THEN aborted' = TRUE /\ UNCHANGED closed_tasks
          ELSE closed_tasks' = closed_tasks \cup {c} /\ UNCHANGED aborted
       /\ UNCHANGED <<dials, channels, channels_count>>

\* The connection is closed by the server or by the channel after a timeout, and a
\* request that times out later reports it again
ChannelCloses(c) ==
  /\ Refuses /\ reports < MaxReports
  /\ conn[c] \in {"open", "closed"} /\ c \in attached /\ c \notin closed_tasks
  /\ reports' = reports + 1
  /\ conn' = [conn EXCEPT ![c] = "closed"]
  /\ OnClientChannelClosed(c)
  /\ UNCHANGED <<first_dials, stop_task, gave_up, delayed, inprogress, count, loop, close_tasks, attached, finalizing>>

RunClosedTask(c) ==
  /\ c \in closed_tasks
  /\ closed_tasks' = closed_tasks \ {c}
  /\ RemoveChannel(c)
  /\ UNCHANGED <<first_dials, stop_task, gave_up, delayed, inprogress, count, conn, loop, close_tasks, attached, finalizing,
                 aborted, reports>>

\* CloseClientChannel: CloseService CHECKs the handler that StartInternal sets, and
\* nothing orders the two tasks, which two threads have posted
CloseClientChannel(c) ==
  /\ c \in close_tasks
  /\ close_tasks' = close_tasks \ {c}
  /\ attached' = attached \ {c}
  /\ IF conn[c] = "starting"
     THEN aborted' = TRUE /\ UNCHANGED conn
     ELSE conn' = [conn EXCEPT ![c] = "closed"] /\ UNCHANGED aborted
  /\ UNCHANGED <<work, closed_tasks, loop, finalizing, reports>>

\* The last reference to a channel goes, and its FdEvent closes the descriptor
ReleaseChannel(c) ==
  /\ conn[c] = "closed"
  /\ c \notin channels \cup closed_tasks \cup close_tasks
  /\ conn' = [conn EXCEPT ![c] = "free"]
  /\ loop' = [loop EXCEPT ![c] = "work"]
  /\ attached' = attached \ {c}
  /\ UNCHANGED <<work, closed_tasks, close_tasks, finalizing, aborted, reports>>

-----------------------------------------------------------------------------
(* Finalize on the owner's thread.                                         *)

Finalize ==
  /\ finalizing = "no"
  /\ finalizing' = "stopping"
  /\ channels_count' = 0
  /\ UNCHANGED <<first_dials, stop_task, gave_up, dials, delayed, inprogress, count, channels, closed_tasks,
                 conn, loop, close_tasks, attached, aborted, reports>>

FinalizeStop ==
  /\ finalizing = "stopping"
  /\ finalizing' = "stopped"
  /\ stop_task' = TRUE
  /\ UNCHANGED <<first_dials, gave_up, dials, delayed, inprogress, count, channels, channels_count, closed_tasks,
                 conn, loop, close_tasks, attached, aborted, reports>>

FinalizeCloses ==
  /\ finalizing = "stopped"
  /\ finalizing' = "done"
  /\ close_tasks' = channels
  /\ UNCHANGED <<work, closed_tasks, conn, loop, attached, aborted, reports>>

-----------------------------------------------------------------------------
WorkStep ==
  \/ RunFirstDial \/ RunStop \/ RunDial \/ RunDelayedDial \/ \E c \in Fds : HandleEvent(c) \/ RunClosedTask(c)
ChannelStep(c) == StartClientChannel(c) \/ CloseClientChannel(c)
OwnerStep == FinalizeStop \/ FinalizeCloses

Live ==
  \/ WorkStep
  \/ \E c \in Fds : ChannelStep(c) \/ ChannelCloses(c) \/ ReleaseChannel(c)
  \/ \E c \in Fds, s \in Dialling : KernelConnects(c, s)
  \/ Finalize \/ OwnerStep

Next == ~aborted /\ Live

Spec == Init /\ [][Next]_vars

\* The work loop runs its tasks, timers and events, and the kernel ends every connect.
Fairness ==
  /\ WF_vars(~aborted /\ RunFirstDial) /\ WF_vars(~aborted /\ RunDial) /\ WF_vars(~aborted /\ RunDelayedDial)
  /\ \A c \in Fds : /\ WF_vars(~aborted /\ HandleEvent(c)) /\ WF_vars(~aborted /\ StartClientChannel(c))
                     /\ WF_vars(~aborted /\ KernelConnects(c, "writable"))

FairSpec == Spec /\ Fairness

-----------------------------------------------------------------------------
(* Properties.                                                             *)

\* Dials that are posted, wait for their delay or are in progress
Dials == first_dials + dials + delayed + Cardinality(inprogress)

\* Until Finalize begins no CHECK of Client, Connector or CodecService fails: what
\* the I/O loops report is handed to the work loop.  Afterwards two of them may.
ChecksHoldUntilFinalize == aborted => stopping

\* A client that lacks connections is dialling, unless count_ tells it that enough
\* dials are in progress, or the last one that failed was given up for that reason.
\* count_ may be wrong: HandleWrite takes a dial out of inprogress_ and leaves count_
\* as it is, and OnConnectFailed is called before count_ is brought up to date.
MissingIsDialled ==
  ~stopping /\ Cardinality(channels) < Required =>
    Dials > 0 \/ Cardinality(channels) + count >= Required \/ gave_up

\* Dials do not multiply: there are at most the first ones, one more for each
\* connection but the last that is made before there are enough of them, and one for
\* each time that a channel is reported closed.
DialsAreBounded == Cardinality(channels) + Dials <= InitCount + Required - 1 + reports

\* A connection that is closed leaves the list that callers choose from, or its
\* removal is on the way to the work loop.
ClosedIsRemoved ==
  \A c \in channels : conn[c] = "closed" => stopping \/ c \in closed_tasks

\* REQUIRE(http_client.ConnectedCount() >= connections): a client gets its connections
\* from a server that accepts them all.
Connects == <>(channels_count >= Required \/ stopping)
=============================================================================
